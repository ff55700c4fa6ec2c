----------------------------- MODULE LoginGuard -----------------------------
(* internal/domain/gateway/handler/auth.go, LoginPage: what limits guessing of
   passwords. All counts are kept by client address, or by address and user
   name, so one address stands for all. A login asks three times, each under a
   lock of its own, before it tries a password: whether the address is blocked,
   whether the captcha is right, whether the user is blocked from the address.
   The failure is counted after the password was tried.                       *)
EXTENDS FiniteSets, Integers

CONSTANTS
  Handlers,      \* goroutines that serve logins from the address
  UserNames,     \* user names
  Captchas,      \* captchas that may be open at a time (bound); an id is random
                 \*   and never comes back, but a used one may stand for a new one
  MaxAttempts    \* Login.MaxAttempts

Anyone == "anyone"     \* the address itself, beside the pairs with a user
Keys == UserNames \cup {Anyone}

ASSUME LoginAssumption ==
  MaxAttempts \in Nat \ {0} /\ IsFiniteSet(Handlers) /\ Anyone \notin UserNames

VARIABLES
  loginAttempts,   \* loginAttempts and loginAttemptsByUser: failures counted
  loginBlocked,    \* each key: "no", blocked "until" some time, or time is "over"
  captchaStore,    \* the open captchas
  login,           \* each goroutine: its step and the user it is about
  failures,        \* passwords tried in vain since the pair was last free of suspicion
  guesses          \* tries each open or used captcha has paid for

loginVars == <<loginAttempts, loginBlocked, captchaStore, login, failures, guesses>>

LoginInit ==
  /\ loginAttempts = [k \in Keys |-> 0]
  /\ loginBlocked = [k \in Keys |-> "no"]
  /\ captchaStore = {}
  /\ login = [h \in Handlers |-> [pc |-> "idle", user |-> Anyone]]
  /\ failures = [u \in UserNames |-> 0]
  /\ guesses = [c \in Captchas |-> 0]

LoginAt(h, pc) == login[h].pc = pc
LoginTo(h, pc) == login' = [login EXCEPT ![h].pc = pc]
LoginEnds(h) == login' = [login EXCEPT ![h] = [pc |-> "idle", user |-> Anyone]]

\* What a check of the keys leaves: those whose time is over are forgotten.
Lapsed(keys) == {k \in keys : loginBlocked[k] = "over"}
ForgetKeys(keys) ==
  /\ loginBlocked' = [k \in Keys |-> IF k \in keys THEN "no" ELSE loginBlocked[k]]
  /\ loginAttempts' = [k \in Keys |-> IF k \in keys THEN 0 ELSE loginAttempts[k]]
Relieved(keys) == [u \in UserNames |-> IF u \in keys THEN 0 ELSE failures[u]]

-----------------------------------------------------------------------------
\* isLoginBlocked: the address first, which ends the check if it is blocked.
AddressOnly(u) == {Anyone}
Checked(u) == IF loginBlocked[Anyone] = "until" THEN {} ELSE {Anyone, u}
Blocked(u) == \E k \in Checked(u) \cup {Anyone} : loginBlocked[k] = "until"

IsLoginBlocked(h, u, next) ==
  /\ ForgetKeys(Lapsed(Checked(u)))
  /\ failures' = Relieved(Lapsed(Checked(u)))
  /\ IF Blocked(u) THEN LoginEnds(h)
     ELSE login' = [login EXCEPT ![h] = [pc |-> next, user |-> u]]

Post(h) ==
  /\ LoginAt(h, "idle")
  /\ IsLoginBlocked(h, Anyone, "captcha")
  /\ UNCHANGED <<captchaStore, guesses>>

\* generateCaptcha, for a page that is shown.
GenerateCaptcha ==
  /\ \E c \in Captchas \ captchaStore :
       /\ captchaStore' = captchaStore \cup {c}
       /\ guesses' = [guesses EXCEPT ![c] = 0]
  /\ UNCHANGED <<loginAttempts, loginBlocked, login, failures>>

\* validateCaptcha: used up whether the answer is right, wrong or too late.
Spent(c) == captchaStore \ {c}

ValidateCaptcha(h) ==
  /\ LoginAt(h, "captcha")
  /\ \E c \in captchaStore :
       /\ captchaStore' = Spent(c)
       /\ guesses' = [guesses EXCEPT ![c] = @ + 1]
       /\ LoginTo(h, "user")
  /\ UNCHANGED <<loginAttempts, loginBlocked, failures>>

\* recordLoginFailure: the keys that reach the limit are blocked and count afresh.
Counted(keys) == [k \in Keys |-> loginAttempts[k] + (IF k \in keys THEN 1 ELSE 0)]
Full(k) == Counted({k})[k] >= MaxAttempts
RecordLoginFailure(keys) ==
  LET full == {k \in keys : Full(k)}
  IN /\ loginBlocked' = [k \in Keys |-> IF k \in full THEN "until" ELSE loginBlocked[k]]
     /\ loginAttempts' = [k \in Keys |-> IF k \in full THEN 0 ELSE Counted(keys)[k]]

WrongCaptcha(h) ==
  /\ LoginAt(h, "captcha")
  /\ \E c \in captchaStore \cup {Anyone} : captchaStore' = captchaStore \ {c}
  /\ RecordLoginFailure({Anyone})
  /\ LoginEnds(h)
  /\ UNCHANGED <<failures, guesses>>

\* Now for the user the form names.
CheckUser(h) ==
  /\ LoginAt(h, "user")
  /\ \E u \in UserNames : IsLoginBlocked(h, u, "password")
  /\ UNCHANGED <<captchaStore, guesses>>

\* ValidateUserCredentials says no, or says yes and clearLoginAttempts follows.
TryInVain(h) ==
  LET u == login[h].user
  IN /\ LoginAt(h, "password")
     /\ failures' = [failures EXCEPT ![u] = @ + 1]
     /\ LoginTo(h, "failed")
     /\ UNCHANGED <<loginAttempts, loginBlocked, captchaStore, guesses>>

CountFailure(h) ==
  /\ LoginAt(h, "failed")
  /\ RecordLoginFailure({Anyone, login[h].user})
  /\ LoginEnds(h)
  /\ UNCHANGED <<captchaStore, failures, guesses>>

LogIn(h) ==
  LET u == login[h].user
  IN /\ LoginAt(h, "password")
     /\ ForgetKeys({Anyone, u})
     /\ failures' = Relieved({u})
     /\ LoginEnds(h)
     /\ UNCHANGED <<captchaStore, guesses>>

-----------------------------------------------------------------------------
\* A block's time passes.
BlockEnds ==
  /\ \E k \in Keys : /\ loginBlocked[k] = "until"
                     /\ loginBlocked' = [loginBlocked EXCEPT ![k] = "over"]
  /\ UNCHANGED <<loginAttempts, captchaStore, login, failures, guesses>>

\* cleanExpiredLoginEntries deletes loginAttempts[key] for a pair too, but pairs
\* are counted in loginAttemptsByUser, which it leaves alone.
CleanExpiredLoginEntries ==
  LET over == Lapsed(Keys)
  IN /\ over # {}
     /\ loginBlocked' = [k \in Keys |-> IF k \in over THEN "no" ELSE loginBlocked[k]]
     /\ loginAttempts' = [loginAttempts EXCEPT ![Anyone] = IF Anyone \in over THEN 0 ELSE @]
     /\ failures' = Relieved(over)
     /\ UNCHANGED <<captchaStore, login, guesses>>

\* cleanExpiredCaptchas
CleanExpiredCaptchas ==
  /\ \E c \in captchaStore : captchaStore' = captchaStore \ {c}
  /\ UNCHANGED <<loginAttempts, loginBlocked, login, failures, guesses>>

LoginNext ==
  \/ \E h \in Handlers : Post(h) \/ ValidateCaptcha(h) \/ WrongCaptcha(h) \/ CheckUser(h)
                         \/ TryInVain(h) \/ CountFailure(h) \/ LogIn(h)
  \/ GenerateCaptcha \/ BlockEnds \/ CleanExpiredLoginEntries \/ CleanExpiredCaptchas

LoginSpec == LoginInit /\ [][LoginNext]_loginVars

-----------------------------------------------------------------------------
(* However the logins overlap, whoever else logs in from the address meanwhile
   and whatever the cleaner does, no user's password is tried in vain from one
   address more often than the limit, beyond the tries that were already under
   way, before the pair's block has run its time or the user has logged in.    *)
GuessesAreBounded == \A u \in UserNames : failures[u] <= MaxAttempts + Cardinality(Handlers) - 1

(* A captcha pays for one try. *)
CaptchaPaysOnce == \A c \in Captchas : guesses[c] <= 1
=============================================================================
