------------------------------- MODULE Lifecycle -------------------------------
(* The life of the process (cmd/waf/main.go): main starts the parts in order,
   serves the administration, and runs its deferred calls when that ends, which is
   as soon as the goroutine that handles signals begins to shut it down: both then
   go on side by side, and both stop the proxies.                               *)
EXTENDS Integers, Sequences

CONSTANTS
  Plain, Hijacked,   \* proxied requests; those that became WebSocket connections
  MaxReloads         \* bound: SIGHUPs

Connections == Plain \cup Hijacked

VARIABLES
  at,           \* where main is in its script
  signal,       \* what the signal goroutine does
  up,           \* what is open or running
  managerLock,  \* who holds ProxyServerManager.mu: "main", "signal", "nobody"
  connection,   \* request -> "none", "running", "logged", "lost"
  adminCall,    \* is a request of the administration in progress
  gaveUp,       \* the five seconds of a Shutdown have passed with requests in progress
  reopened,     \* a listener was started after main had stopped them all
  reloads

lifeVars == <<at, signal, up, managerLock, connection, adminCall, gaveUp, reopened, reloads>>

StartUp == <<"config", "managers", "security", "sessions", "proxies", "schedulers">>

\* The deferred calls, last in first out.
LogBeforeProxies == <<"schedulers", "log", "proxies", "admin log", "metrics", "rules",
                      "log database", "config database">>
Defers == <<"schedulers", "proxies", "admin log", "metrics", "rules", "log",
            "log database", "config database">>

Script == StartUp \o <<"serve">> \o Defers \o <<"exited">>
Serving == Len(StartUp) + 1
Exited == Len(Script)

LifeInit ==
  /\ at = 1 /\ signal = "none" /\ up = {} /\ managerLock = "nobody"
  /\ connection = [r \in Connections |-> "none"] /\ adminCall = FALSE
  /\ gaveUp = FALSE /\ reopened = FALSE /\ reloads = 0

Starting(start) ==
  /\ at <= Serving /\ Script[at] = start
  /\ UNCHANGED <<signal, managerLock, connection, adminCall, gaveUp, reopened, reloads>>
Opened(parts) == at' = at + 1 /\ up' = up \cup parts
Fatal == at' = Exited /\ up' = {}   \* without the deferred calls

InitConfigAndDB ==
  Starting("config") /\ (Fatal \/ Opened({"config database", "log", "log database"}))
InitCoreManagers == Starting("managers") /\ (Fatal \/ Opened({"rules", "metrics"}))
InitSecurityManagers == Starting("security") /\ Opened({})
\* That the administration log or the listeners cannot be opened is only logged.
InitAuthAndSession ==
  Starting("sessions") /\ (Fatal \/ \E parts \in {{"admin log"}, {}} : Opened(parts))
InitProxyService ==
  Starting("proxies") /\ (Fatal \/ \E parts \in {{"proxies", "extractor"}, {"extractor"}} : Opened(parts))
InitSchedulers == Starting("schedulers") /\ Opened({"schedulers"})
\* The administration cannot listen.
StartAdminServer == Starting("serve") /\ signal = "none" /\ reloads = 0 /\ ~adminCall /\ Fatal

Start ==
  InitConfigAndDB \/ InitCoreManagers \/ InitSecurityManagers \/ InitAuthAndSession
    \/ InitProxyService \/ InitSchedulers \/ StartAdminServer

\* ListenAndServe returns as soon as the server begins to shut down.
ServeEnds ==
  /\ at = Serving /\ signal # "none" /\ signal # "reloads" /\ at' = at + 1
  /\ UNCHANGED <<signal, up, managerLock, connection, adminCall, gaveUp, reopened, reloads>>

InProgress == \E r \in Plain : connection[r] = "running"

\* stopAllLocked: the listeners are closed, then requests in progress are awaited.
\* Hijacked connections are not.
BeginStopAll(who) == managerLock = "nobody" /\ managerLock' = who /\ up' = up \ {"proxies"}
EndStopAll(who) ==
  /\ managerLock = who /\ managerLock' = "nobody"
  /\ gaveUp' = (gaveUp \/ InProgress)

Deferred ==
  /\ Serving < at /\ at < Exited
  /\ \/ /\ Script[at] # "proxies" /\ at' = at + 1 /\ up' = up \ {Script[at]}
        /\ UNCHANGED <<managerLock, gaveUp>>
     \/ Script[at] = "proxies" /\ BeginStopAll("main") /\ UNCHANGED <<at, gaveUp>>
     \/ Script[at] = "proxies" /\ EndStopAll("main") /\ at' = at + 1 /\ UNCHANGED up
  /\ UNCHANGED <<signal, connection, adminCall, reopened, reloads>>

Running == at < Exited

\* SIGTERM or SIGINT.
Terminate ==
  /\ at = Serving /\ signal = "none" /\ signal' = "stops admin"
  /\ UNCHANGED <<at, up, managerLock, connection, adminCall, gaveUp, reopened, reloads>>

\* Shutdown of the administration: its requests are done, or ten seconds have passed.
AdminIsDown ==
  /\ Running /\ signal = "stops admin" /\ signal' = "stops proxies"
  /\ UNCHANGED <<at, up, managerLock, connection, adminCall, gaveUp, reopened, reloads>>

ShutdownAll ==
  /\ Running /\ signal = "stops proxies"
  /\ \/ BeginStopAll("signal") /\ UNCHANGED <<signal, gaveUp>>
     \/ EndStopAll("signal") /\ signal' = "stops extractor" /\ UNCHANGED up
  /\ UNCHANGED <<at, connection, adminCall, reopened, reloads>>

StopExtractor ==
  /\ Running /\ signal = "stops extractor" /\ signal' = "over" /\ up' = up \ {"extractor"}
  /\ UNCHANGED <<at, managerLock, connection, adminCall, gaveUp, reopened, reloads>>

\* SIGHUP: ReloadAll stops the listeners and starts them again under the lock.
HangUp ==
  /\ \/ /\ at = Serving /\ signal = "none" /\ reloads < MaxReloads /\ reloads' = reloads + 1
        /\ BeginStopAll("signal") /\ signal' = "reloads" /\ UNCHANGED gaveUp
     \/ /\ signal = "reloads" /\ EndStopAll("signal") /\ signal' = "none"
        /\ up' = up \cup {"proxies"} /\ UNCHANGED reloads
  /\ UNCHANGED <<at, connection, adminCall, reopened>>

\* A request of the administration, which main does not wait for; it may add a
\* proxy as long as its row can be written.
AdminRequest ==
  /\ \/ at = Serving /\ signal \in {"none", "reloads"} /\ ~adminCall /\ adminCall' = TRUE
        /\ UNCHANGED <<up, reopened>>
     \/ Running /\ adminCall /\ adminCall' = FALSE /\ UNCHANGED <<up, reopened>>
     \/ /\ Running /\ adminCall /\ managerLock = "nobody" /\ "config database" \in up
        /\ up' = up \cup {"proxies"} /\ adminCall' = FALSE
        /\ reopened' = (reopened \/ at > Serving)
  /\ UNCHANGED <<at, signal, managerLock, connection, gaveUp, reloads>>

Accept(r) ==
  /\ Running /\ "proxies" \in up /\ connection[r] = "none"
  /\ connection' = [connection EXCEPT ![r] = "running"]

\* The line is sent to the log's channel, which panics once it is closed.
LogAccess(r) ==
  /\ Running /\ connection[r] = "running"
  /\ connection' = [connection EXCEPT ![r] = IF "log" \in up THEN "logged" ELSE "lost"]

ServeConnections ==
  /\ \E r \in Connections : Accept(r) \/ LogAccess(r)
  /\ UNCHANGED <<at, signal, up, managerLock, adminCall, gaveUp, reopened, reloads>>

StartAgain ==
  /\ at = Exited /\ at' = 1 /\ signal' = "none" /\ up' = {} /\ managerLock' = "nobody"
  /\ connection' = [r \in Connections |-> "none"] /\ adminCall' = FALSE
  /\ gaveUp' = FALSE /\ reopened' = FALSE /\ UNCHANGED reloads

LifeNext ==
  Start \/ ServeEnds \/ Deferred \/ Terminate \/ AdminIsDown \/ ShutdownAll \/ StopExtractor
    \/ HangUp \/ AdminRequest \/ ServeConnections \/ StartAgain

LifeSpec == LifeInit /\ [][LifeNext]_lifeVars
-------------------------------------------------------------------------------
\* Although main runs its deferred calls beside the goroutine that shuts down, the
\* line of a plain request is lost only if a Shutdown gave up on requests after
\* five seconds, or if the administration opened a listener meanwhile (main).
RequestsAreLogged ==
  \A r \in Plain : connection[r] = "lost" => gaveUp \/ reopened
=============================================================================
