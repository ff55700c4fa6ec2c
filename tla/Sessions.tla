------------------------------ MODULE Sessions ------------------------------
(* internal/domain/gateway/middleware: the administrator's sessions. session.go
   keeps them in sessionStore, under sessionMu, and in the sessions table; the
   Auth middleware (auth.go) looks a session up, renews it and may throw it out
   in separate critical sections; a ticker removes expired sessions in three
   steps; a restart reads the table back. Errors of the database are logged and
   ignored. Time is in units of the configured hours.

   CSRF tokens, rate limits and the response headers of Auth are left out.     *)
EXTENDS FiniteSets, Integers

CONSTANTS
  Tokens,        \* session tokens: 32 random bytes, never given out twice
  Visitors,      \* goroutines that serve requests of the administration
  IdleTTL,       \* sessionTTL
  AbsoluteTTL,   \* sessionAbsoluteTTL
  MaxClock,      \* bound on time
  MaxDBErrors,   \* bound on statements that fail
  NoSession      \* no entry, no row, no token

ASSUME SessionsAssumption ==
  /\ IdleTTL \in Nat /\ AbsoluteTTL \in Nat /\ MaxClock \in Nat /\ MaxDBErrors \in Nat
  /\ NoSession \notin Tokens

VARIABLES
  clock,         \* now
  sessionStore,  \* memory: token -> createdAt (last renewal), originalCreatedAt
  sessionRows,   \* the table
  visit,         \* each goroutine: its step, its token, the session's age when accepted
  cleaning,      \* CleanExpiredSessions: its step and expiredTokens
  born,          \* when each token was given out, if it was
  loggedOut,     \* tokens removed by Logout, by a new login or by a security alert
  unsure,        \* tokens of which a write to the table failed
  dbErrors

sessionVars ==
  <<clock, sessionStore, sessionRows, visit, cleaning, born, loggedOut, unsure, dbErrors>>

Outside == [pc |-> "outside", token |-> NoSession, age |-> 0]
Resting == [pc |-> "rest", tokens |-> {}]

SessionsInit ==
  /\ clock = 0
  /\ sessionStore = [t \in Tokens |-> NoSession]
  /\ sessionRows = [t \in Tokens |-> NoSession]
  /\ visit = [v \in Visitors |-> Outside]
  /\ cleaning = Resting
  /\ born = [t \in Tokens |-> -1]
  /\ loggedOut = {}
  /\ unsure = {}
  /\ dbErrors = 0

Stored(t) == sessionStore[t] # NoSession
Entry(c, o) == [created |-> c, original |-> o]

\* A statement that writes to the rows of some tokens, or fails.
Execute(rows, tokens) ==
  \/ sessionRows' = rows /\ UNCHANGED <<unsure, dbErrors>>
  \/ /\ dbErrors < MaxDBErrors
     /\ dbErrors' = dbErrors + 1
     /\ unsure' = unsure \cup tokens
     /\ UNCHANGED sessionRows

-----------------------------------------------------------------------------
\* AddSession, after LoginPage has removed the session the browser still had.
\* (sessionMu is held through memory and table.)
AddSession(t) ==
  /\ born[t] = -1
  /\ sessionStore' = [sessionStore EXCEPT ![t] = Entry(clock, clock)]
  /\ Execute([sessionRows EXCEPT ![t] = Entry(clock, clock)], {t})
  /\ born' = [born EXCEPT ![t] = clock]
  /\ UNCHANGED <<clock, visit, cleaning, loggedOut>>

\* RemoveSession
Removed(t) ==
  /\ sessionStore' = [sessionStore EXCEPT ![t] = NoSession]
  /\ Execute([sessionRows EXCEPT ![t] = NoSession], {t})
  /\ loggedOut' = loggedOut \cup {t}

\* Logout, and LoginPage for the cookie it replaces: any cookie, no check.
Logout(t) ==
  /\ born[t] # -1
  /\ Removed(t)
  /\ UNCHANGED <<clock, visit, cleaning, born>>

\* IsValidSession
Valid(t) ==
  /\ Stored(t)
  /\ clock - sessionStore[t].original <= AbsoluteTTL
  /\ clock - sessionStore[t].created < IdleTTL

Enter(v, t) ==
  /\ visit[v].pc = "outside"
  /\ Valid(t)
  /\ visit' = [visit EXCEPT ![v] = [pc |-> "renew", token |-> t, age |-> clock - born[t]]]
  /\ UNCHANGED <<clock, sessionStore, sessionRows, cleaning, born, loggedOut, unsure, dbErrors>>

\* RenewSession: the sliding time only, and only of an entry that is still there.
RenewsBoth(t) == Entry(clock, clock)
Renewal(t) == [sessionStore[t] EXCEPT !.created = clock]

RenewalNotWritten(t) == sessionRows
UpdatedRows(t) ==   \* UPDATE sessions SET created_at = ?
  IF sessionRows[t] = NoSession THEN sessionRows
  ELSE [sessionRows EXCEPT ![t].created = clock]

\* The entry written back as it was when it was looked up, there or not.
RenewStale(v) ==
  LET t == visit[v].token
  IN /\ visit[v].pc = "renew"
     /\ sessionStore' = [sessionStore EXCEPT ![t] = Entry(clock, born[t])]
     /\ Execute([sessionRows EXCEPT ![t] = Entry(clock, born[t])], {t})
     /\ visit' = [visit EXCEPT ![v].pc = "secure"]
     /\ UNCHANGED <<clock, cleaning, born, loggedOut>>

RenewSession(v) ==
  LET t == visit[v].token
  IN /\ visit[v].pc = "renew"
     /\ IF Stored(t)
        THEN /\ sessionStore' = [sessionStore EXCEPT ![t] = Renewal(t)]
             /\ Execute(UpdatedRows(t), {t})
        ELSE UNCHANGED <<sessionStore, sessionRows, unsure, dbErrors>>
     /\ visit' = [visit EXCEPT ![v].pc = "secure"]
     /\ UNCHANGED <<clock, cleaning, born, loggedOut>>

\* CheckSessionSecurity: the address or the browser has changed, or the request
\* goes on to its handler.
Alert(v) ==
  /\ visit[v].pc = "secure"
  /\ Removed(visit[v].token)
  /\ visit' = [visit EXCEPT ![v] = Outside]
  /\ UNCHANGED <<clock, cleaning, born>>

Serve(v) ==
  /\ visit[v].pc = "secure"
  /\ visit' = [visit EXCEPT ![v] = Outside]
  /\ UNCHANGED <<clock, sessionStore, sessionRows, cleaning, born, loggedOut, unsure, dbErrors>>

-----------------------------------------------------------------------------
\* CleanExpiredSessions: collected under the read lock, deleted under the write
\* lock whatever has become of them, then deleted from the table.
Expired == {t \in Tokens : Stored(t) /\ \/ clock - sessionStore[t].created >= IdleTTL
                                        \/ clock - sessionStore[t].original >= AbsoluteTTL}

CollectExpired ==
  /\ cleaning.pc = "rest"
  /\ Expired # {}
  /\ cleaning' = [pc |-> "memory", tokens |-> Expired]
  /\ UNCHANGED <<clock, sessionStore, sessionRows, visit, born, loggedOut, unsure, dbErrors>>

ForgetExpired ==
  /\ cleaning.pc = "memory"
  /\ sessionStore' = [t \in Tokens |-> IF t \in cleaning.tokens THEN NoSession ELSE sessionStore[t]]
  /\ cleaning' = [cleaning EXCEPT !.pc = "table"]
  /\ UNCHANGED <<clock, sessionRows, visit, born, loggedOut, unsure, dbErrors>>

DeleteExpired ==
  /\ cleaning.pc = "table"
  /\ Execute([t \in Tokens |-> IF t \in cleaning.tokens THEN NoSession ELSE sessionRows[t]],
             cleaning.tokens)
  /\ cleaning' = Resting
  /\ UNCHANGED <<clock, sessionStore, visit, born, loggedOut>>

\* The process stops, and loadSessionsFromDB reads what has not expired. With an
\* absolute limit the last renewal is compared with that limit.
Reloadable(t) == sessionRows[t] # NoSession /\ sessionRows[t].created >= clock - AbsoluteTTL

RestartSessions ==
  /\ sessionStore' = [t \in Tokens |-> IF Reloadable(t) THEN sessionRows[t] ELSE NoSession]
  /\ visit' = [v \in Visitors |-> Outside]
  /\ cleaning' = Resting
  /\ UNCHANGED <<clock, sessionRows, born, loggedOut, unsure, dbErrors>>

TickSessions ==
  /\ clock < MaxClock
  /\ clock' = clock + 1
  /\ UNCHANGED <<sessionStore, sessionRows, visit, cleaning, born, loggedOut, unsure, dbErrors>>

SessionsNext ==
  \/ \E t \in Tokens : AddSession(t) \/ Logout(t) \/ \E v \in Visitors : Enter(v, t)
  \/ \E v \in Visitors : RenewSession(v) \/ Alert(v) \/ Serve(v)
  \/ CollectExpired \/ ForgetExpired \/ DeleteExpired
  \/ RestartSessions \/ TickSessions

SessionsSpec == SessionsInit /\ [][SessionsNext]_sessionVars

-----------------------------------------------------------------------------
(* A session that was logged out, or thrown out, is gone for good: no request
   that looked it up before, no cleaner and no restart brings it back, unless
   the statement that was to delete it, or an earlier one, failed.            *)
LoggedOutStaysOut == \A t \in loggedOut \ unsure : ~Stored(t) /\ sessionRows[t] = NoSession

(* However often it is renewed and however often the process restarts, no
   session is accepted longer after the login than the absolute limit.         *)
SessionsEndInTime == \A v \in Visitors : visit[v].age <= AbsoluteTTL

(* What a restart would read is what memory holds, at every step of every
   request, so long as no statement failed.                                    *)
RestartKeepsSessions ==
  \A t \in Tokens \ unsure : Stored(t) => sessionRows[t] = sessionStore[t]
=============================================================================
