---------------------------- MODULE Access_proofs ----------------------------
(* Who gets in: sessions, what a log-in may try before it is stopped, and the
   password of the administrator.                                              *)
EXTENDS Sessions, LoginGuard, Accounts, FiniteSetTheorems, TLAPS

-----------------------------------------------------------------------------
(* The promises of the session store, for any number of tokens, goroutines and
   failing statements, and through any number of restarts.                   *)
Entries == [created : Nat, original : Nat]

\* The state keeps its type.
SessionsTypeOK ==
  /\ clock \in Nat /\ dbErrors \in Nat
  /\ sessionStore \in [Tokens -> Entries \cup {NoSession}]
  /\ sessionRows \in [Tokens -> Entries \cup {NoSession}]
  /\ visit \in [Visitors -> [pc : {"outside", "renew", "secure"},
                             token : Tokens \cup {NoSession}, age : Int]]
  /\ cleaning \in [pc : {"rest", "memory", "table"}, tokens : SUBSET Tokens]
  /\ born \in [Tokens -> Int]
  /\ loggedOut \subseteq Tokens /\ unsure \subseteq Tokens

(* Memory and table hold sessions that were given out, with the time of their
   login: a renewal leaves it alone and a restart reads it back.               *)
Known(entries) == \A t \in Tokens :
  entries[t] # NoSession => born[t] # -1 /\ entries[t].original = born[t]

(* A token that is being looked at, thrown out or cleaned was given out, so it
   will not be given out again; and one the cleaner has forgotten stays forgotten. *)
VisitsAreKnown == \A v \in Visitors : visit[v].pc # "outside" =>
                    visit[v].token \in Tokens /\ born[visit[v].token] # -1
LeaversAreKnown == \A t \in loggedOut \cup cleaning.tokens : born[t] # -1
ForgottenAreGone == cleaning.pc = "table" => \A t \in cleaning.tokens : ~Stored(t)

SInv == /\ SessionsTypeOK
        /\ Known(sessionStore) /\ Known(sessionRows)
        /\ VisitsAreKnown /\ LeaversAreKnown /\ ForgottenAreGone
        /\ LoggedOutStaysOut /\ SessionsEndInTime /\ RestartKeepsSessions

\* Nobody has logged in yet.
LEMMA SInit == SessionsInit => SInv
<1> SUFFICES ASSUME SessionsInit PROVE SInv
  OBVIOUS
<1>1. SessionsTypeOK
  BY DEF SessionsInit, SessionsTypeOK, Outside, Resting
<1> QED
  BY <1>1, SessionsAssumption DEF SessionsInit, SInv, Known, VisitsAreKnown, LeaversAreKnown,
     ForgottenAreGone, LoggedOutStaysOut, SessionsEndInTime, RestartKeepsSessions, Outside, Resting,
     Stored

\* Every step of every goroutine keeps them.
LEMMA SNext == SInv /\ [SessionsNext]_sessionVars => SInv'
<1> SUFFICES ASSUME SInv, [SessionsNext]_sessionVars
             PROVE  SInv'
  OBVIOUS
<1> USE DEF SInv, SessionsTypeOK
<1>1. ASSUME NEW t \in Tokens, AddSession(t)
      PROVE  SInv'
  <2>1. SessionsTypeOK'
    BY <1>1 DEF AddSession, Execute, Entry, Entries, Stored
  <2>2. Known(sessionStore)'
    BY <1>1 DEF AddSession, Execute, Entry, Entries, Stored, Known, VisitsAreKnown
  <2>3. Known(sessionRows)'
    BY <1>1 DEF AddSession, Execute, Entry, Entries, Stored, Known, VisitsAreKnown
  <2>4. VisitsAreKnown'
    BY <1>1 DEF AddSession, Execute, Entry, Entries, Stored, VisitsAreKnown, Known
  <2>5. LeaversAreKnown'
    BY <1>1 DEF AddSession, Execute, Entry, Entries, Stored, LeaversAreKnown, Known, VisitsAreKnown
  <2>6. ForgottenAreGone'
    BY <1>1 DEF AddSession, Execute, Entry, Entries, Stored, ForgottenAreGone, LeaversAreKnown
  <2>7. LoggedOutStaysOut'
    BY <1>1 DEF AddSession, Execute, Entry, Entries, Stored, LoggedOutStaysOut, LeaversAreKnown
  <2>8. SessionsEndInTime'
    BY <1>1 DEF AddSession, Execute, Entry, Entries, Stored, SessionsEndInTime, Known
  <2>9. RestartKeepsSessions'
    BY <1>1 DEF AddSession, Execute, Entry, Entries, Stored, RestartKeepsSessions, ForgottenAreGone
  <2> QED
    BY <2>1, <2>2, <2>3, <2>4, <2>5, <2>6, <2>7, <2>8, <2>9 DEF SInv
<1>2. ASSUME NEW t \in Tokens, Logout(t)
      PROVE  SInv'
  <2>1. SessionsTypeOK'
    BY <1>2 DEF Logout, Removed, Execute, Stored
  <2>2. Known(sessionStore)'
    BY <1>2 DEF Logout, Removed, Execute, Stored, Known, VisitsAreKnown
  <2>3. Known(sessionRows)'
    BY <1>2 DEF Logout, Removed, Execute, Stored, Known, VisitsAreKnown
  <2>4. VisitsAreKnown'
    BY <1>2 DEF Logout, Removed, Execute, Stored, VisitsAreKnown, Known
  <2>5. LeaversAreKnown'
    BY <1>2 DEF Logout, Removed, Execute, Stored, LeaversAreKnown, Known, VisitsAreKnown
  <2>6. ForgottenAreGone'
    BY <1>2 DEF Logout, Removed, Execute, Stored, ForgottenAreGone, LeaversAreKnown
  <2>7. LoggedOutStaysOut'
    BY <1>2 DEF Logout, Removed, Execute, Stored, LoggedOutStaysOut, LeaversAreKnown
  <2>8. SessionsEndInTime'
    BY <1>2 DEF Logout, Removed, Execute, Stored, SessionsEndInTime, Known
  <2>9. RestartKeepsSessions'
    BY <1>2 DEF Logout, Removed, Execute, Stored, RestartKeepsSessions, ForgottenAreGone
  <2> QED
    BY <2>1, <2>2, <2>3, <2>4, <2>5, <2>6, <2>7, <2>8, <2>9 DEF SInv
<1>3. ASSUME NEW v \in Visitors, NEW t \in Tokens, Enter(v, t)
      PROVE  SInv'
  <2>1. SessionsTypeOK'
    BY <1>3 DEF Enter, Valid, Stored
  <2>2. Known(sessionStore)'
    BY <1>3 DEF Enter, Valid, Stored, Known, VisitsAreKnown
  <2>3. Known(sessionRows)'
    BY <1>3 DEF Enter, Valid, Stored, Known, VisitsAreKnown
  <2>4. VisitsAreKnown'
    BY <1>3 DEF Enter, Valid, Stored, VisitsAreKnown, Known
  <2>5. LeaversAreKnown'
    BY <1>3 DEF Enter, Valid, Stored, LeaversAreKnown, Known, VisitsAreKnown
  <2>6. ForgottenAreGone'
    BY <1>3 DEF Enter, Valid, Stored, ForgottenAreGone, LeaversAreKnown
  <2>7. LoggedOutStaysOut'
    BY <1>3 DEF Enter, Valid, Stored, LoggedOutStaysOut, LeaversAreKnown
  <2>8. SessionsEndInTime'
    BY <1>3 DEF Enter, Valid, Stored, SessionsEndInTime, Known
  <2>9. RestartKeepsSessions'
    BY <1>3 DEF Enter, Valid, Stored, RestartKeepsSessions, ForgottenAreGone
  <2> QED
    BY <2>1, <2>2, <2>3, <2>4, <2>5, <2>6, <2>7, <2>8, <2>9 DEF SInv
<1>4. ASSUME NEW v \in Visitors, RenewSession(v)
      PROVE  SInv'
  <2>0. visit[v].token \in Tokens
    BY <1>4 DEF RenewSession, VisitsAreKnown
  <2>1. SessionsTypeOK'
    <3>1. sessionStore' \in [Tokens -> Entries \cup {NoSession}]
      BY <1>4, <2>0 DEF RenewSession, Stored, Renewal, Entries
    <3>2. UpdatedRows(visit[v].token) \in [Tokens -> Entries \cup {NoSession}]
      BY <2>0 DEF UpdatedRows, Entries
    <3>3. sessionRows' \in [Tokens -> Entries \cup {NoSession}] /\ dbErrors' \in Nat /\ unsure' \subseteq Tokens
      BY <1>4, <2>0, <3>2 DEF RenewSession, Execute
    <3> QED
      BY <1>4, <3>1, <3>3 DEF RenewSession
  <2>2. Known(sessionStore)'
    BY <1>4 DEF RenewSession, Stored, Renewal, UpdatedRows, Execute, Entries, Known, VisitsAreKnown
  <2>3. Known(sessionRows)'
    BY <1>4 DEF RenewSession, Stored, Renewal, UpdatedRows, Execute, Entries, Known, VisitsAreKnown
  <2>4. VisitsAreKnown'
    BY <1>4 DEF RenewSession, Stored, Renewal, UpdatedRows, Execute, Entries, VisitsAreKnown, Known
  <2>5. LeaversAreKnown'
    BY <1>4 DEF RenewSession, Stored, Renewal, UpdatedRows, Execute, Entries, LeaversAreKnown, Known, VisitsAreKnown
  <2>6. ForgottenAreGone'
    BY <1>4 DEF RenewSession, Stored, Renewal, UpdatedRows, Execute, Entries, ForgottenAreGone, LeaversAreKnown
  <2>7. LoggedOutStaysOut'
    BY <1>4 DEF RenewSession, Stored, Renewal, UpdatedRows, Execute, Entries, LoggedOutStaysOut, LeaversAreKnown
  <2>8. SessionsEndInTime'
    BY <1>4 DEF RenewSession, Stored, Renewal, UpdatedRows, Execute, Entries, SessionsEndInTime, Known
  <2>9. RestartKeepsSessions'
    BY <1>4 DEF RenewSession, Stored, Renewal, UpdatedRows, Execute, Entries, RestartKeepsSessions, ForgottenAreGone
  <2> QED
    BY <2>1, <2>2, <2>3, <2>4, <2>5, <2>6, <2>7, <2>8, <2>9 DEF SInv
<1>5. ASSUME NEW v \in Visitors, Alert(v)
      PROVE  SInv'
  <2>0. visit[v].token \in Tokens
    BY <1>5 DEF Alert, VisitsAreKnown
  <2>1. SessionsTypeOK'
    BY <1>5, <2>0 DEF Alert, Removed, Execute, Stored, Outside
  <2>2. Known(sessionStore)'
    BY <1>5 DEF Alert, Removed, Execute, Stored, Outside, Known, VisitsAreKnown
  <2>3. Known(sessionRows)'
    BY <1>5 DEF Alert, Removed, Execute, Stored, Outside, Known, VisitsAreKnown
  <2>4. VisitsAreKnown'
    BY <1>5 DEF Alert, Removed, Execute, Stored, Outside, VisitsAreKnown, Known
  <2>5. LeaversAreKnown'
    BY <1>5 DEF Alert, Removed, Execute, Stored, Outside, LeaversAreKnown, Known, VisitsAreKnown
  <2>6. ForgottenAreGone'
    BY <1>5 DEF Alert, Removed, Execute, Stored, Outside, ForgottenAreGone, LeaversAreKnown
  <2>7. LoggedOutStaysOut'
    BY <1>5, <2>0 DEF Alert, Removed, Execute, Stored, Outside, LoggedOutStaysOut, LeaversAreKnown
  <2>8. SessionsEndInTime'
    BY SessionsAssumption, <1>5 DEF Alert, Removed, Execute, Stored, Outside, SessionsEndInTime, Known
  <2>9. RestartKeepsSessions'
    BY <1>5 DEF Alert, Removed, Execute, Stored, Outside, RestartKeepsSessions, ForgottenAreGone
  <2> QED
    BY <2>1, <2>2, <2>3, <2>4, <2>5, <2>6, <2>7, <2>8, <2>9 DEF SInv
<1>6. ASSUME NEW v \in Visitors, Serve(v)
      PROVE  SInv'
  <2>1. SessionsTypeOK'
    BY <1>6 DEF Serve, Outside
  <2>2. Known(sessionStore)'
    BY <1>6 DEF Serve, Outside, Known, VisitsAreKnown
  <2>3. Known(sessionRows)'
    BY <1>6 DEF Serve, Outside, Known, VisitsAreKnown
  <2>4. VisitsAreKnown'
    BY <1>6 DEF Serve, Outside, VisitsAreKnown, Known
  <2>5. LeaversAreKnown'
    BY <1>6 DEF Serve, Outside, LeaversAreKnown, Known, VisitsAreKnown
  <2>6. ForgottenAreGone'
    BY <1>6 DEF Serve, Outside, ForgottenAreGone, LeaversAreKnown, Stored
  <2>7. LoggedOutStaysOut'
    BY <1>6 DEF Serve, Outside, LoggedOutStaysOut, LeaversAreKnown, Stored
  <2>8. SessionsEndInTime'
    BY SessionsAssumption, <1>6 DEF Serve, Outside, SessionsEndInTime, Known
  <2>9. RestartKeepsSessions'
    BY <1>6 DEF Serve, Outside, RestartKeepsSessions, ForgottenAreGone, Stored
  <2> QED
    BY <2>1, <2>2, <2>3, <2>4, <2>5, <2>6, <2>7, <2>8, <2>9 DEF SInv
<1>7. ASSUME CollectExpired
      PROVE  SInv'
  <2>1. SessionsTypeOK'
    BY <1>7 DEF CollectExpired, Expired, Stored
  <2>2. Known(sessionStore)'
    BY <1>7 DEF CollectExpired, Expired, Stored, Known, VisitsAreKnown
  <2>3. Known(sessionRows)'
    BY <1>7 DEF CollectExpired, Expired, Stored, Known, VisitsAreKnown
  <2>4. VisitsAreKnown'
    BY <1>7 DEF CollectExpired, Expired, Stored, VisitsAreKnown, Known
  <2>5. LeaversAreKnown'
    BY <1>7 DEF CollectExpired, Expired, Stored, LeaversAreKnown, Known, VisitsAreKnown
  <2>6. ForgottenAreGone'
    BY <1>7 DEF CollectExpired, Expired, Stored, ForgottenAreGone, LeaversAreKnown
  <2>7. LoggedOutStaysOut'
    BY <1>7 DEF CollectExpired, Expired, Stored, LoggedOutStaysOut, LeaversAreKnown
  <2>8. SessionsEndInTime'
    BY <1>7 DEF CollectExpired, Expired, Stored, SessionsEndInTime, Known
  <2>9. RestartKeepsSessions'
    BY <1>7 DEF CollectExpired, Expired, Stored, RestartKeepsSessions, ForgottenAreGone
  <2> QED
    BY <2>1, <2>2, <2>3, <2>4, <2>5, <2>6, <2>7, <2>8, <2>9 DEF SInv
<1>8. ASSUME ForgetExpired
      PROVE  SInv'
  <2>1. SessionsTypeOK'
    BY <1>8 DEF ForgetExpired, Stored
  <2>2. Known(sessionStore)'
    BY <1>8 DEF ForgetExpired, Stored, Known, VisitsAreKnown
  <2>3. Known(sessionRows)'
    BY <1>8 DEF ForgetExpired, Stored, Known, VisitsAreKnown
  <2>4. VisitsAreKnown'
    BY <1>8 DEF ForgetExpired, Stored, VisitsAreKnown, Known
  <2>5. LeaversAreKnown'
    BY <1>8 DEF ForgetExpired, Stored, LeaversAreKnown, Known, VisitsAreKnown
  <2>6. ForgottenAreGone'
    BY <1>8 DEF ForgetExpired, Stored, ForgottenAreGone, LeaversAreKnown
  <2>7. LoggedOutStaysOut'
    BY <1>8 DEF ForgetExpired, Stored, LoggedOutStaysOut, LeaversAreKnown
  <2>8. SessionsEndInTime'
    BY <1>8 DEF ForgetExpired, Stored, SessionsEndInTime, Known
  <2>9. RestartKeepsSessions'
    BY <1>8 DEF ForgetExpired, Stored, RestartKeepsSessions, ForgottenAreGone
  <2> QED
    BY <2>1, <2>2, <2>3, <2>4, <2>5, <2>6, <2>7, <2>8, <2>9 DEF SInv
<1>9. ASSUME DeleteExpired
      PROVE  SInv'
  <2>1. SessionsTypeOK'
    BY <1>9 DEF DeleteExpired, Execute, Resting, Stored
  <2>2. Known(sessionStore)'
    BY <1>9 DEF DeleteExpired, Execute, Resting, Stored, Known, VisitsAreKnown
  <2>3. Known(sessionRows)'
    BY <1>9 DEF DeleteExpired, Execute, Resting, Stored, Known, VisitsAreKnown
  <2>4. VisitsAreKnown'
    BY <1>9 DEF DeleteExpired, Execute, Resting, Stored, VisitsAreKnown, Known
  <2>5. LeaversAreKnown'
    BY <1>9 DEF DeleteExpired, Execute, Resting, Stored, LeaversAreKnown, Known, VisitsAreKnown
  <2>6. ForgottenAreGone'
    BY <1>9 DEF DeleteExpired, Execute, Resting, Stored, ForgottenAreGone, LeaversAreKnown
  <2>7. LoggedOutStaysOut'
    BY <1>9 DEF DeleteExpired, Execute, Resting, Stored, LoggedOutStaysOut, LeaversAreKnown
  <2>8. SessionsEndInTime'
    BY <1>9 DEF DeleteExpired, Execute, Resting, Stored, SessionsEndInTime, Known
  <2>9. RestartKeepsSessions'
    BY <1>9 DEF DeleteExpired, Execute, Resting, Stored, RestartKeepsSessions, ForgottenAreGone
  <2> QED
    BY <2>1, <2>2, <2>3, <2>4, <2>5, <2>6, <2>7, <2>8, <2>9 DEF SInv
<1>10. ASSUME RestartSessions
      PROVE  SInv'
  <2>1. SessionsTypeOK'
    BY <1>10 DEF RestartSessions, Reloadable, Outside, Resting, Stored
  <2>2. Known(sessionStore)'
    BY <1>10 DEF RestartSessions, Reloadable, Outside, Resting, Stored, Known, VisitsAreKnown
  <2>3. Known(sessionRows)'
    BY <1>10 DEF RestartSessions, Reloadable, Outside, Resting, Stored, Known, VisitsAreKnown
  <2>4. VisitsAreKnown'
    BY <1>10 DEF RestartSessions, Reloadable, Outside, Resting, Stored, VisitsAreKnown, Known
  <2>5. LeaversAreKnown'
    BY <1>10 DEF RestartSessions, Reloadable, Outside, Resting, Stored, LeaversAreKnown, Known, VisitsAreKnown
  <2>6. ForgottenAreGone'
    BY <1>10 DEF RestartSessions, Reloadable, Outside, Resting, Stored, ForgottenAreGone, LeaversAreKnown
  <2>7. LoggedOutStaysOut'
    BY <1>10 DEF RestartSessions, Reloadable, Outside, Resting, Stored, LoggedOutStaysOut, LeaversAreKnown
  <2>8. SessionsEndInTime'
    BY SessionsAssumption, <1>10 DEF RestartSessions, Reloadable, Outside, Resting, Stored, SessionsEndInTime, Known
  <2>9. RestartKeepsSessions'
    BY <1>10 DEF RestartSessions, Reloadable, Outside, Resting, Stored, RestartKeepsSessions, ForgottenAreGone
  <2> QED
    BY <2>1, <2>2, <2>3, <2>4, <2>5, <2>6, <2>7, <2>8, <2>9 DEF SInv
<1>11. ASSUME TickSessions
      PROVE  SInv'
  <2>1. SessionsTypeOK'
    BY <1>11 DEF TickSessions
  <2>2. Known(sessionStore)'
    BY <1>11 DEF TickSessions, Known, VisitsAreKnown
  <2>3. Known(sessionRows)'
    BY <1>11 DEF TickSessions, Known, VisitsAreKnown
  <2>4. VisitsAreKnown'
    BY <1>11 DEF TickSessions, VisitsAreKnown, Known
  <2>5. LeaversAreKnown'
    BY <1>11 DEF TickSessions, LeaversAreKnown, Known, VisitsAreKnown
  <2>6. ForgottenAreGone'
    BY <1>11 DEF TickSessions, ForgottenAreGone, LeaversAreKnown, Stored
  <2>7. LoggedOutStaysOut'
    BY <1>11 DEF TickSessions, LoggedOutStaysOut, LeaversAreKnown, Stored
  <2>8. SessionsEndInTime'
    BY <1>11 DEF TickSessions, SessionsEndInTime, Known
  <2>9. RestartKeepsSessions'
    BY <1>11 DEF TickSessions, RestartKeepsSessions, ForgottenAreGone, Stored
  <2> QED
    BY <2>1, <2>2, <2>3, <2>4, <2>5, <2>6, <2>7, <2>8, <2>9 DEF SInv
<1>12. ASSUME UNCHANGED sessionVars
      PROVE  SInv'
  BY <1>12 DEF sessionVars, Stored, Known, VisitsAreKnown, LeaversAreKnown, ForgottenAreGone,
             LoggedOutStaysOut, SessionsEndInTime, RestartKeepsSessions
<1> QED
  BY <1>1, <1>2, <1>3, <1>4, <1>5, <1>6, <1>7, <1>8, <1>9, <1>10, <1>11, <1>12 DEF SessionsNext

LEMMA SInvariant == SessionsSpec => []SInv
<1>1. SessionsInit => SInv
  BY SInit
<1>2. SInv /\ [SessionsNext]_sessionVars => SInv'
  BY SNext
<1> QED
  BY <1>1, <1>2, PTL DEF SessionsSpec

(* The store, the table, the visits and the cleaner keep their types. *)
THEOREM SessionsTyping == SessionsSpec => []SessionsTypeOK
<1>1. SInv => SessionsTypeOK
  BY DEF SInv
<1> QED
  BY <1>1, SInvariant, PTL

(* RenewSession (session.go:214) renews only what is still in the store, and a token
   is never given out again: a session that was logged out or thrown out is never
   back, in memory or in the table, unless a statement about it failed.          *)
THEOREM LogoutIsFinal == SessionsSpec => []LoggedOutStaysOut
<1>1. SInv => LoggedOutStaysOut
  BY DEF SInv
<1> QED
  BY <1>1, SInvariant, PTL

(* However often it is renewed, reloaded or looked up by a cleaner, no session is
   accepted beyond the absolute limit after its login (session.go:144-157).      *)
THEOREM NoSessionLastsLonger == SessionsSpec => []SessionsEndInTime
<1>1. SInv => SessionsEndInTime
  BY DEF SInv
<1> QED
  BY <1>1, SInvariant, PTL

(* What the table would give back after a restart is what memory holds, in every
   interleaving of log-ins, renewals and the cleaner's three steps.              *)
THEOREM TableFollowsMemory == SessionsSpec => []RestartKeepsSessions
<1>1. SInv => RestartKeepsSessions
  BY DEF SInv
<1> QED
  BY <1>1, SInvariant, PTL

-----------------------------------------------------------------------------
(* What a log-in may try, for any number of goroutines, users and captchas, and
   any limit.                                                                *)
LoginTypeOK ==
  /\ loginAttempts \in [Keys -> Nat]
  /\ loginBlocked \in [Keys -> {"no", "until", "over"}]
  /\ captchaStore \subseteq Captchas
  /\ login \in [Handlers -> [pc : {"idle", "captcha", "user", "password", "failed"}, user : Keys]]
  /\ failures \in [UserNames -> Nat] /\ guesses \in [Captchas -> Nat]

UsersAreNamed ==
  \A h \in Handlers : LoginAt(h, "password") \/ LoginAt(h, "failed") => login[h].user \in UserNames

(* The goroutines that have passed the checks for a user, and those that have tried
   the password in vain and have not counted it.                               *)
At(u, pc) == {h \in Handlers : login[h].pc = pc /\ login[h].user = u}
Trying(u) == At(u, "password")
Failed(u) == At(u, "failed")

(* As long as a pair is free, every try is counted or about to be, and the count is
   below the limit. Once it is blocked nobody passes the checks: the tries to
   come are those under way.                                                   *)
Bounded(u) ==
  /\ loginAttempts[u] < MaxAttempts
  /\ loginBlocked[u] = "no" => failures[u] <= loginAttempts[u] + Cardinality(Failed(u))
  /\ loginBlocked[u] # "no" =>
       failures[u] + Cardinality(Trying(u)) <= MaxAttempts + Cardinality(Handlers) - 1

OpenIsUnspent == \A c \in captchaStore : guesses[c] = 0

LInv == /\ LoginTypeOK /\ UsersAreNamed
        /\ \A u \in UserNames : Bounded(u)
        /\ OpenIsUnspent /\ CaptchaPaysOnce

-----------------------------------------------------------------------------
\* Nobody is at two places at once, and there are finitely many to count.
LEMMA Counting ==
  ASSUME NEW u
  PROVE  /\ IsFiniteSet(Trying(u)) /\ IsFiniteSet(Failed(u))
         /\ Cardinality(Trying(u)) \in Nat /\ Cardinality(Failed(u)) \in Nat
         /\ Cardinality(Handlers) \in Nat
         /\ Cardinality(Trying(u)) + Cardinality(Failed(u)) <= Cardinality(Handlers)
<1>1. Trying(u) \in SUBSET Handlers /\ Failed(u) \in SUBSET Handlers
  BY DEF Trying, Failed, At
<1>2. IsFiniteSet(Handlers)
  BY LoginAssumption
<1>3. IsFiniteSet(Trying(u)) /\ IsFiniteSet(Failed(u))
  BY <1>1, <1>2, FS_Subset
<1>4. Cardinality(Trying(u)) \in Nat /\ Cardinality(Failed(u)) \in Nat /\ Cardinality(Handlers) \in Nat
  BY <1>2, <1>3, FS_CardinalityType
<1>5. Trying(u) \cap Failed(u) = {}
  BY DEF Trying, Failed, At
<1>6. Cardinality({}) = 0
  BY FS_EmptySet
<1>7. Cardinality(Trying(u) \cup Failed(u)) = Cardinality(Trying(u)) + Cardinality(Failed(u)) - 0
  BY <1>3, <1>5, <1>6, FS_Union
<1>8. Cardinality(Trying(u) \cup Failed(u)) <= Cardinality(Handlers)
  <2>1. Trying(u) \cup Failed(u) \in SUBSET Handlers
    BY <1>1
  <2> QED
    BY <1>2, <2>1, FS_Subset
<1> QED
  BY <1>3, <1>4, <1>7, <1>8

\* A pair nothing happened to stays as it was.
LEMMA Untouched ==
  ASSUME NEW u, Bounded(u), loginAttempts'[u] = loginAttempts[u], loginBlocked'[u] = loginBlocked[u],
         failures'[u] = failures[u], Trying(u)' = Trying(u), Failed(u)' = Failed(u)
  PROVE  Bounded(u)'
  BY DEF Bounded

\* A pair that is relieved starts anew.
LEMMA StartsAnew ==
  ASSUME NEW u, loginAttempts'[u] = 0, loginBlocked'[u] = "no", failures'[u] = 0
  PROVE  Bounded(u)'
<1>1. Failed(u)' \in SUBSET Handlers
  BY DEF Failed, At
<1>2. Cardinality(Failed(u)') \in Nat
  BY <1>1, LoginAssumption, FS_Subset, FS_CardinalityType
<1> QED
  BY <1>2, LoginAssumption DEF Bounded

\* Nothing was tried.
LEMMA LInit == LoginInit => LInv
<1> SUFFICES ASSUME LoginInit
             PROVE  LInv
  OBVIOUS
<1>1. LoginTypeOK /\ UsersAreNamed /\ OpenIsUnspent /\ CaptchaPaysOnce
  BY DEF LoginInit, LoginTypeOK, UsersAreNamed, OpenIsUnspent, CaptchaPaysOnce, Keys, LoginAt
<1>2. ASSUME NEW u \in UserNames
      PROVE  Bounded(u)
  <2>1. Cardinality(Failed(u)) \in Nat
    BY Counting
  <2> QED
    BY <2>1, LoginAssumption DEF LoginInit, Bounded, Keys
<1> QED
  BY <1>1, <1>2 DEF LInv

-----------------------------------------------------------------------------
\* Types, names and captchas, for every step.
LEMMA LTypes == LInv /\ [LoginNext]_loginVars => (LoginTypeOK /\ UsersAreNamed)'
<1> SUFFICES ASSUME LInv, [LoginNext]_loginVars
             PROVE  (LoginTypeOK /\ UsersAreNamed)'
  OBVIOUS
<1> USE DEF LInv, LoginTypeOK, UsersAreNamed, LoginAt, Keys
<1>1. ASSUME NEW h \in Handlers, NEW u \in Keys, NEW next \in {"captcha", "password"},
             IsLoginBlocked(h, u, next), next = "password" => u \in UserNames,
             UNCHANGED <<captchaStore, guesses>>
      PROVE  (LoginTypeOK /\ UsersAreNamed)'
  BY <1>1 DEF IsLoginBlocked, ForgetKeys, Relieved, LoginEnds
<1>2. ASSUME NEW keys \in SUBSET Keys, RecordLoginFailure(keys)
      PROVE  /\ loginAttempts' \in [Keys -> Nat]
             /\ loginBlocked' \in [Keys -> {"no", "until", "over"}]
  BY <1>2 DEF RecordLoginFailure, Counted
<1>3. ASSUME NEW h \in Handlers, Post(h)
      PROVE  (LoginTypeOK /\ UsersAreNamed)'
  BY <1>1, <1>3 DEF Post
<1>4. ASSUME NEW h \in Handlers, ValidateCaptcha(h)
      PROVE  (LoginTypeOK /\ UsersAreNamed)'
  BY <1>4 DEF ValidateCaptcha, Spent, LoginTo
<1>5. ASSUME NEW h \in Handlers, WrongCaptcha(h)
      PROVE  (LoginTypeOK /\ UsersAreNamed)'
  BY <1>2, <1>5 DEF WrongCaptcha, LoginEnds
<1>6. ASSUME NEW h \in Handlers, CheckUser(h)
      PROVE  (LoginTypeOK /\ UsersAreNamed)'
  BY <1>1, <1>6 DEF CheckUser
<1>7. ASSUME NEW h \in Handlers, TryInVain(h)
      PROVE  (LoginTypeOK /\ UsersAreNamed)'
  BY <1>7 DEF TryInVain, LoginTo
<1>8. ASSUME NEW h \in Handlers, CountFailure(h)
      PROVE  (LoginTypeOK /\ UsersAreNamed)'
  BY <1>2, <1>8 DEF CountFailure, LoginEnds
<1>9. ASSUME NEW h \in Handlers, LogIn(h)
      PROVE  (LoginTypeOK /\ UsersAreNamed)'
  BY <1>9 DEF LogIn, ForgetKeys, Relieved, LoginEnds
<1>10. CASE GenerateCaptcha \/ CleanExpiredCaptchas
  BY <1>10 DEF GenerateCaptcha, CleanExpiredCaptchas
<1>11. CASE BlockEnds
  BY <1>11 DEF BlockEnds
<1>12. CASE CleanExpiredLoginEntries
  BY <1>12 DEF CleanExpiredLoginEntries, Relieved
<1>13. CASE UNCHANGED loginVars
  BY <1>13 DEF loginVars
<1> QED
  BY <1>3, <1>4, <1>5, <1>6, <1>7, <1>8, <1>9, <1>10, <1>11, <1>12, <1>13 DEF LoginNext

\* A captcha is taken out by whoever uses it.
LEMMA LCaptchas == LInv /\ [LoginNext]_loginVars => (OpenIsUnspent /\ CaptchaPaysOnce)'
<1> SUFFICES ASSUME LInv, [LoginNext]_loginVars
             PROVE  (OpenIsUnspent /\ CaptchaPaysOnce)'
  OBVIOUS
<1> USE DEF LInv, LoginTypeOK, OpenIsUnspent, CaptchaPaysOnce
<1>1. ASSUME NEW h \in Handlers, ValidateCaptcha(h)
      PROVE  (OpenIsUnspent /\ CaptchaPaysOnce)'
  BY <1>1 DEF ValidateCaptcha, Spent
<1>2. ASSUME NEW h \in Handlers, WrongCaptcha(h)
      PROVE  (OpenIsUnspent /\ CaptchaPaysOnce)'
  BY <1>2 DEF WrongCaptcha
<1>3. CASE GenerateCaptcha
  BY <1>3 DEF GenerateCaptcha
<1>4. CASE CleanExpiredCaptchas
  BY <1>4 DEF CleanExpiredCaptchas
<1>5. CASE UNCHANGED <<captchaStore, guesses>>
  BY <1>5
<1> QED
  BY <1>1, <1>2, <1>3, <1>4, <1>5
  DEF LoginNext, Post, CheckUser, TryInVain, CountFailure, LogIn, BlockEnds,
      CleanExpiredLoginEntries, loginVars

-----------------------------------------------------------------------------
\* A failure that is counted either leaves the pair free or blocks it with at most
\* the other goroutines on their way.
LEMMA Count ==
  ASSUME LInv, NEW h \in Handlers, CountFailure(h)
  PROVE  \A u \in UserNames : Bounded(u)'
<1> USE DEF LInv, LoginTypeOK, UsersAreNamed, LoginAt, Keys
<1>1. login[h].user \in UserNames /\ login[h].pc = "failed"
  BY DEF CountFailure
<1>2. ASSUME NEW u \in UserNames, u # login[h].user
      PROVE  Bounded(u)'
  <2>1. Trying(u)' = Trying(u) /\ Failed(u)' = Failed(u)
    BY <1>1, <1>2, LoginAssumption DEF CountFailure, LoginEnds, Trying, Failed, At
  <2>2. /\ loginAttempts'[u] = loginAttempts[u] /\ loginBlocked'[u] = loginBlocked[u]
        /\ failures'[u] = failures[u]
    BY <1>2, LoginAssumption DEF CountFailure, RecordLoginFailure, Counted
  <2> QED
    BY <2>1, <2>2, Untouched
<1>3. ASSUME NEW u \in UserNames, u = login[h].user
      PROVE  Bounded(u)'
  <2>1. Trying(u)' = Trying(u) /\ Failed(u)' = Failed(u) \ {h} /\ h \in Failed(u)
    BY <1>1, <1>3, LoginAssumption DEF CountFailure, LoginEnds, Trying, Failed, At
  <2>2. Cardinality(Failed(u)') = Cardinality(Failed(u)) - 1
    BY <2>1, Counting, FS_RemoveElement
  <2>3. /\ loginAttempts[u] \in Nat /\ failures[u] \in Nat /\ failures'[u] = failures[u]
        /\ loginAttempts[u] < MaxAttempts /\ MaxAttempts \in Nat \ {0}
    BY LoginAssumption DEF CountFailure, Bounded
  <2>4. CASE loginAttempts[u] + 1 < MaxAttempts
    <3>1. loginAttempts'[u] = loginAttempts[u] + 1 /\ loginBlocked'[u] = loginBlocked[u]
      BY <1>3, <2>3, <2>4 DEF CountFailure, RecordLoginFailure, Full, Counted
    <3> QED
      BY <2>1, <2>2, <2>3, <2>4, <3>1, Counting DEF Bounded
  <2>5. CASE loginAttempts[u] + 1 >= MaxAttempts
    <3>1. loginAttempts'[u] = 0 /\ loginBlocked'[u] = "until"
      BY <1>3, <2>3, <2>5 DEF CountFailure, RecordLoginFailure, Full, Counted
    <3>2. failures[u] + Cardinality(Trying(u)) <= MaxAttempts + Cardinality(Handlers) - 1
      BY <2>3, Counting DEF Bounded
    <3> QED
      BY <2>1, <2>3, <3>1, <3>2 DEF Bounded
  <2> QED
    BY <2>3, <2>4, <2>5
<1> QED
  BY <1>2, <1>3

\* A try in vain moves from those under way to those to be counted.
LEMMA Try ==
  ASSUME LInv, NEW h \in Handlers, TryInVain(h)
  PROVE  \A u \in UserNames : Bounded(u)'
<1> USE DEF LInv, LoginTypeOK, UsersAreNamed, LoginAt, Keys
<1>1. login[h].user \in UserNames /\ login[h].pc = "password"
  BY DEF TryInVain
<1>2. ASSUME NEW u \in UserNames, u # login[h].user
      PROVE  Bounded(u)'
  <2>1. Trying(u)' = Trying(u) /\ Failed(u)' = Failed(u)
    BY <1>1, <1>2 DEF TryInVain, LoginTo, Trying, Failed, At
  <2> QED
    BY <1>2, <2>1, Untouched DEF TryInVain
<1>3. ASSUME NEW u \in UserNames, u = login[h].user
      PROVE  Bounded(u)'
  <2>1. /\ Trying(u)' = Trying(u) \ {h} /\ h \in Trying(u)
        /\ Failed(u)' = Failed(u) \cup {h} /\ h \notin Failed(u)
    BY <1>1, <1>3 DEF TryInVain, LoginTo, Trying, Failed, At
  <2>2. Cardinality(Trying(u)') = Cardinality(Trying(u)) - 1
    BY <2>1, Counting, FS_RemoveElement
  <2>3. Cardinality(Failed(u)') = Cardinality(Failed(u)) + 1
    BY <2>1, Counting, FS_AddElement
  <2>4. /\ failures'[u] = failures[u] + 1 /\ failures[u] \in Nat /\ loginAttempts[u] \in Nat
        /\ loginAttempts' = loginAttempts /\ loginBlocked' = loginBlocked
    BY <1>3 DEF TryInVain
  <2> QED
    BY <2>2, <2>3, <2>4, Counting, LoginAssumption DEF Bounded
<1> QED
  BY <1>2, <1>3

\* The checks let nobody pass for a pair that is blocked.
LEMMA Check ==
  ASSUME LInv, NEW h \in Handlers, CheckUser(h)
  PROVE  \A u \in UserNames : Bounded(u)'
<1> USE DEF LInv, LoginTypeOK, UsersAreNamed, LoginAt, Keys
<1>1. PICK v \in UserNames : IsLoginBlocked(h, v, "password")
  BY DEF CheckUser
<1>2. login[h].pc = "user" /\ v # Anyone
  BY LoginAssumption DEF CheckUser
<1>3. Lapsed(Checked(v)) \subseteq {Anyone, v}
  BY DEF Lapsed, Checked
<1>4. ASSUME NEW u \in UserNames
      PROVE  /\ Failed(u)' = Failed(u)
             /\ u # v => Trying(u)' = Trying(u)
             /\ Blocked(v) => Trying(u)' = Trying(u)
  BY <1>1, <1>2, <1>4, LoginAssumption DEF IsLoginBlocked, LoginEnds, Trying, Failed, At
<1>5. ASSUME NEW u \in UserNames, u \notin Lapsed(Checked(v))
      PROVE  /\ loginAttempts'[u] = loginAttempts[u] /\ loginBlocked'[u] = loginBlocked[u]
             /\ failures'[u] = failures[u]
  BY <1>1, <1>5 DEF IsLoginBlocked, ForgetKeys, Relieved
<1>6. ASSUME NEW u \in UserNames, u \in Lapsed(Checked(v))
      PROVE  Bounded(u)'
  <2>1. loginAttempts'[u] = 0 /\ loginBlocked'[u] = "no" /\ failures'[u] = 0
    BY <1>1, <1>6 DEF IsLoginBlocked, ForgetKeys, Relieved
  <2> QED
    BY <2>1, StartsAnew
<1>7. ASSUME NEW u \in UserNames, u \notin Lapsed(Checked(v)), u # v \/ Blocked(v)
      PROVE  Bounded(u)'
  BY <1>4, <1>5, <1>7, Untouched
<1>8. ASSUME v \notin Lapsed(Checked(v)), ~Blocked(v)
      PROVE  Bounded(v)'
  <2>1. loginBlocked[v] = "no"
    BY <1>8 DEF Lapsed, Checked, Blocked
  <2> QED
    BY <1>4, <1>5, <1>8, <2>1 DEF Bounded
<1> QED
  BY <1>6, <1>7, <1>8

\* The other steps of a log-in.
LEMMA Rest ==
  ASSUME LInv, NEW h \in Handlers,
         Post(h) \/ ValidateCaptcha(h) \/ WrongCaptcha(h) \/ LogIn(h)
  PROVE  \A u \in UserNames : Bounded(u)'
<1> USE DEF LInv, LoginTypeOK, UsersAreNamed, LoginAt, Keys
<1>1. ASSUME NEW u \in UserNames, Post(h)
      PROVE  Bounded(u)'
  <2>1. Lapsed(Checked(Anyone)) \subseteq {Anyone}
    BY DEF Lapsed, Checked
  <2>2. /\ loginAttempts'[u] = loginAttempts[u] /\ loginBlocked'[u] = loginBlocked[u]
        /\ failures'[u] = failures[u]
    BY <1>1, <2>1, LoginAssumption DEF Post, IsLoginBlocked, ForgetKeys, Relieved
  <2>3. Trying(u)' = Trying(u) /\ Failed(u)' = Failed(u)
    BY <1>1 DEF Post, IsLoginBlocked, LoginEnds, Trying, Failed, At
  <2> QED
    BY <2>2, <2>3, Untouched
<1>2. ASSUME NEW u \in UserNames, ValidateCaptcha(h)
      PROVE  Bounded(u)'
  <2>1. Trying(u)' = Trying(u) /\ Failed(u)' = Failed(u)
    BY <1>2 DEF ValidateCaptcha, LoginTo, Trying, Failed, At
  <2> QED
    BY <1>2, <2>1, Untouched DEF ValidateCaptcha
<1>3. ASSUME NEW u \in UserNames, WrongCaptcha(h)
      PROVE  Bounded(u)'
  <2>1. Trying(u)' = Trying(u) /\ Failed(u)' = Failed(u)
    BY <1>3 DEF WrongCaptcha, LoginEnds, Trying, Failed, At
  <2>2. loginAttempts'[u] = loginAttempts[u] /\ loginBlocked'[u] = loginBlocked[u]
    BY <1>3, LoginAssumption DEF WrongCaptcha, RecordLoginFailure, Counted
  <2> QED
    BY <1>3, <2>1, <2>2, Untouched DEF WrongCaptcha
<1>4. ASSUME NEW u \in UserNames, LogIn(h)
      PROVE  Bounded(u)'
  <2>1. CASE u = login[h].user
    BY <1>4, <2>1, StartsAnew DEF LogIn, ForgetKeys, Relieved
  <2>2. CASE u # login[h].user
    <3>1. Trying(u)' = Trying(u) /\ Failed(u)' = Failed(u)
      BY <1>4, <2>2, LoginAssumption DEF LogIn, LoginEnds, Trying, Failed, At
    <3>2. /\ loginAttempts'[u] = loginAttempts[u] /\ loginBlocked'[u] = loginBlocked[u]
          /\ failures'[u] = failures[u]
      BY <1>4, <2>2, LoginAssumption DEF LogIn, ForgetKeys, Relieved
    <3> QED
      BY <3>1, <3>2, Untouched
  <2> QED
    BY <2>1, <2>2
<1> QED
  BY <1>1, <1>2, <1>3, <1>4

\* Time and the cleaner: a pair is relieved of what it failed when it is let free.
LEMMA Time ==
  ASSUME LInv,
         BlockEnds \/ CleanExpiredLoginEntries \/ GenerateCaptcha \/ CleanExpiredCaptchas
         \/ UNCHANGED loginVars
  PROVE  \A u \in UserNames : Bounded(u)'
<1> USE DEF LInv, LoginTypeOK, Keys
<1>1. ASSUME NEW u \in UserNames
      PROVE  Trying(u)' = Trying(u) /\ Failed(u)' = Failed(u)
  BY DEF BlockEnds, CleanExpiredLoginEntries, GenerateCaptcha, CleanExpiredCaptchas, loginVars,
         Trying, Failed, At
<1>2. ASSUME NEW u \in UserNames, BlockEnds
      PROVE  Bounded(u)'
  <2>1. (loginBlocked'[u] = "no") <=> (loginBlocked[u] = "no")
    BY <1>2 DEF BlockEnds
  <2> QED
    BY <1>1, <1>2, <2>1 DEF BlockEnds, Bounded
<1>3. ASSUME NEW u \in UserNames, CleanExpiredLoginEntries
      PROVE  Bounded(u)'
  <2>1. loginAttempts'[u] = loginAttempts[u]
    BY <1>3, LoginAssumption DEF CleanExpiredLoginEntries
  <2>2. CASE u \in Lapsed(Keys)
    <3>1. failures'[u] = 0 /\ loginBlocked'[u] = "no" /\ loginAttempts[u] \in Nat
      BY <1>3, <2>2 DEF CleanExpiredLoginEntries, Relieved
    <3> QED
      BY <1>1, <2>1, <3>1, Counting DEF Bounded
  <2>3. CASE u \notin Lapsed(Keys)
    BY <1>1, <1>3, <2>1, <2>3, Untouched DEF CleanExpiredLoginEntries, Relieved
  <2> QED
    BY <2>2, <2>3
<1>4. ASSUME NEW u \in UserNames, GenerateCaptcha \/ CleanExpiredCaptchas \/ UNCHANGED loginVars
      PROVE  Bounded(u)'
  BY <1>1, <1>4, Untouched DEF GenerateCaptcha, CleanExpiredCaptchas, loginVars
<1> QED
  BY <1>2, <1>3, <1>4

-----------------------------------------------------------------------------
LEMMA LInvariant == LoginSpec => []LInv
<1>1. LInv /\ [LoginNext]_loginVars => LInv'
  <2> SUFFICES ASSUME LInv, [LoginNext]_loginVars
               PROVE  LInv'
    OBVIOUS
  <2>1. \A u \in UserNames : Bounded(u)'
    BY Count, Try, Check, Rest, Time DEF LoginNext
  <2> QED
    BY <2>1, LTypes, LCaptchas DEF LInv
<1> QED
  BY <1>1, LInit, PTL DEF LoginSpec

(* LoginPage checks, tries and counts in critical sections of their own: a user's
   password is tried in vain from an address at most as often as the limit says and
   once more for every other goroutine that was under way (auth.go).           *)
THEOREM TriesAreBounded == LoginSpec => []GuessesAreBounded
<1>1. LInv => GuessesAreBounded
  <2> SUFFICES ASSUME LInv, NEW u \in UserNames
               PROVE  failures[u] <= MaxAttempts + Cardinality(Handlers) - 1
    BY DEF GuessesAreBounded
  <2> QED
    BY Counting, LoginAssumption DEF LInv, LoginTypeOK, Bounded, Keys
<1> QED
  BY <1>1, LInvariant, PTL

(* validateCaptcha deletes a captcha under the lock it is looked up under: it pays
   for one try, however many goroutines show it at once (auth.go).             *)
THEOREM NoCaptchaTwice == LoginSpec => []CaptchaPaysOnce
<1>1. LInv => CaptchaPaysOnce
  BY DEF LInv
<1> QED
  BY <1>1, LInvariant, PTL

-----------------------------------------------------------------------------
(* Which password a start accepts, for any number of callers and passwords. *)
\* As long as nothing disturbed the account, one request at most changes it.
OneAtATime ==
  disturbed = FALSE => \A c, d \in Callers : c = d \/ change[c].pc = "idle" \/ change[d].pc = "idle"

\* As long as nothing disturbed the account: no request is under way if there is
\* no row; the password in memory is the one just set, or what a start would make
\* of the row.
StoredPassword ==
  disturbed = FALSE =>
    /\ hashRow = "" => yaml = "" /\ \A c \in Callers : change[c].pc = "idle"
    /\ \A c \in Callers : change[c].pc = "set" => adminHash = change[c].password
    /\ (\A c \in Callers : change[c].pc # "set") => adminHash = HashAtStart(hashRow)

\* Memory and the row go together but in the middle of a change.
AccountsInv ==
  /\ disturbed \in BOOLEAN /\ DOMAIN change = Callers
  /\ \A c \in Callers : change[c].pc # "idle" => change[c].password \in Passwords
  /\ OneAtATime /\ StoredPassword

\* A start takes the hash of the row.
LEMMA AccountsStart == AccountsInit => AccountsInv
<1> SUFFICES ASSUME AccountsInit PROVE AccountsInv
  OBVIOUS
<1>1. hashRow = yaml /\ adminHash = yaml /\ disturbed \in BOOLEAN /\ DOMAIN change = Callers
      /\ \A c \in Callers : change[c].pc = "idle"
  BY DEF AccountsInit, Unasked
<1>2. adminHash = HashAtStart(hashRow)
  BY <1>1 DEF HashAtStart
<1> QED
  BY <1>1, <1>2 DEF AccountsInv, OneAtATime, StoredPassword

\* Changes of passwords and users, failing statements and restarts.
LEMMA AccountsStep == AccountsInv /\ [AccountsNext]_accountVars => AccountsInv'
<1> SUFFICES ASSUME AccountsInv, [AccountsNext]_accountVars PROVE AccountsInv'
  OBVIOUS
<1>0. disturbed \in BOOLEAN /\ DOMAIN change = Callers
  BY DEF AccountsInv
<1>1. ASSUME NEW c \in Callers, CheckOldPassword(c) PROVE AccountsInv'
  <2>1. CASE UNCHANGED change
    <3>1. UNCHANGED <<yaml, adminHash, hashRow, disturbed>>
      <4>1. disturbed' = (disturbed \/ (change' # change /\ \E d \in Callers : change[d].pc # "idle"))
        BY <1>1 DEF CheckOldPassword
      <4>2. change' = change
        BY <2>1
      <4>3. disturbed' = disturbed
        BY <4>1, <4>2, <1>0
      <4> QED
        BY <1>1, <4>3 DEF CheckOldPassword
    <3> QED
      BY <2>1, <3>1 DEF AccountsInv, OneAtATime, StoredPassword, HashAtStart
  <2>2. CASE change' # change
    <3>1. PICK new \in Passwords : change' = [change EXCEPT ![c] = [pc |-> "checked", password |-> new]]
      BY <1>1, <2>2 DEF CheckOldPassword
    <3>2. change'[c].pc = "checked" /\ change'[c].password \in Passwords
          /\ DOMAIN change' = Callers /\ \A d \in Callers \ {c} : change'[d] = change[d]
      BY <3>1, <1>0
    <3>3. UNCHANGED <<yaml, adminHash, hashRow>> /\ adminHash # ""
      BY <1>1, <2>2 DEF CheckOldPassword
    <3>4. disturbed' = (disturbed \/ \E d \in Callers : change[d].pc # "idle")
      BY <1>1, <2>2 DEF CheckOldPassword
    <3>5. ASSUME disturbed' = FALSE
          PROVE  disturbed = FALSE /\ \A d \in Callers : change[d].pc = "idle"
      BY <3>4, <3>5, <1>0
    <3>6. OneAtATime'
      BY <3>2, <3>5 DEF OneAtATime
    <3>7. StoredPassword'
      BY <3>2, <3>3, <3>5 DEF StoredPassword, HashAtStart, AccountsInv
    <3> QED
      BY <3>2, <3>4, <3>6, <3>7 DEF AccountsInv
  <2> QED
    BY <2>1, <2>2
<1>2. ASSUME NEW c \in Callers, SetHash(c) PROVE AccountsInv'
  <2>1. change[c].pc = "checked" /\ adminHash' = change[c].password
        /\ change' = [change EXCEPT ![c].pc = "set"] /\ UNCHANGED <<yaml, hashRow, disturbed>>
    BY <1>2 DEF SetHash
  <2>2. change'[c].pc = "set" /\ change'[c].password = change[c].password
        /\ DOMAIN change' = Callers /\ \A d \in Callers \ {c} : change'[d] = change[d]
    BY <2>1, <1>0
  <2>3. OneAtATime'
    BY <2>1, <2>2 DEF AccountsInv, OneAtATime
  <2>4. StoredPassword'
    BY <2>1, <2>2 DEF AccountsInv, OneAtATime, StoredPassword
  <2> QED
    BY <2>1, <2>2, <2>3, <2>4 DEF AccountsInv
<1>3. ASSUME NEW c \in Callers, UpdateHashRow(c) PROVE AccountsInv'
  <2>1. change[c].pc = "set" /\ change' = [change EXCEPT ![c] = Unasked] /\ UNCHANGED <<yaml, adminHash>>
    BY <1>3 DEF UpdateHashRow
  <2>2. change'[c].pc = "idle" /\ DOMAIN change' = Callers /\ \A d \in Callers \ {c} : change'[d] = change[d]
    BY <2>1, <1>0 DEF Unasked
  <2>3. CASE disturbed' = TRUE
    BY <2>2, <2>3 DEF AccountsInv, OneAtATime, StoredPassword
  <2>4. CASE hashRow' = (IF hashRow = "" THEN "" ELSE change[c].password) /\ UNCHANGED disturbed
    <3>1. ASSUME disturbed = FALSE
          PROVE  /\ hashRow' # "" /\ hashRow' = adminHash
                 /\ \A d \in Callers : change'[d].pc = "idle"
      <4>1. hashRow # "" /\ adminHash = change[c].password /\ change[c].password \in Passwords
        BY <2>1, <3>1 DEF AccountsInv, StoredPassword
      <4>2. \A d \in Callers \ {c} : change[d].pc = "idle"
        BY <2>1, <3>1 DEF AccountsInv, OneAtATime
      <4> QED
        BY <4>1, <4>2, <2>2, <2>4, AccountsAssumption
    <3> QED
      BY <2>1, <2>2, <2>4, <3>1 DEF AccountsInv, OneAtATime, StoredPassword, HashAtStart
  <2> QED
    BY <1>3, <2>3, <2>4 DEF UpdateHashRow
<1>4. CASE APIUserAdd \/ APIUserDelete \/ APIUserToggle \/ APIPasswordChangeForUser \/ UNCHANGED accountVars
  <2>1. UNCHANGED <<yaml, adminHash, hashRow, change, disturbed>>
    BY <1>4 DEF APIUserAdd, APIUserDelete, APIUserToggle, APIPasswordChangeForUser, ChangesUsers, accountVars
  <2> QED
    BY <2>1 DEF AccountsInv, OneAtATime, StoredPassword, HashAtStart
<1>5. CASE RestartAccounts
  <2>1. DOMAIN change' = Callers /\ (\A c \in Callers : change'[c].pc = "idle") /\ UNCHANGED yaml
    BY <1>5 DEF RestartAccounts, Unasked
  <2>2. CASE disturbed' = TRUE
    BY <2>1, <2>2 DEF AccountsInv, OneAtATime, StoredPassword
  <2>3. CASE adminHash' = HashAtStart(hashRow) /\ hashRow' = adminHash' /\ UNCHANGED disturbed
    <3>1. adminHash' = HashAtStart(hashRow)' /\ (hashRow' = "" => yaml' = "")
      BY <2>1, <2>3 DEF HashAtStart
    <3> QED
      BY <2>1, <2>3, <3>1, <1>0 DEF AccountsInv, OneAtATime, StoredPassword
  <2> QED
    BY <1>5, <2>2, <2>3 DEF RestartAccounts
<1> QED
  BY <1>1, <1>2, <1>3, <1>4, <1>5 DEF AccountsNext, APIChangePassword

(* APIChangePassword (auth.go) sets the hash in memory and writes it to the row
   in steps of its own: unless two of them overlapped or a statement failed, a
   restart accepts the password that memory accepts, for any number of callers
   and passwords.                                                            *)
THEOREM PasswordsSurviveRestarts == AccountsSpec => []RestartKeepsPasswords
<1>1. AccountsInv => RestartKeepsPasswords
  BY DEF AccountsInv, StoredPassword, RestartKeepsPasswords, HashAtStart
<1> QED
  BY <1>1, AccountsStart, AccountsStep, PTL DEF AccountsSpec
=============================================================================
