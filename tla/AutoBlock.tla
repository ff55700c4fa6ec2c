----------------------------- MODULE AutoBlock -----------------------------
(* internal/domain/security/ratelimit/autoblock.go: an address that keeps
   failing its challenge is banned for a while. A ban lives in three places: a
   row of autoblock_records, a row of ip_rules with the snapshot built from it,
   and the maps of the AutoBlocker.

   AutoBlocker.mu is held through each operation, so at most one runs; its
   database statements and the steps of the rule engine are steps of the worker
   Blocker, between which other goroutines use the rule engine and the process
   may die. The reconciler of autoblock_reconcile.go is not started by
   cmd/waf/main.go and is no part of the running system.                      *)
EXTENDS IPRules

CONSTANTS
  IPs,            \* client addresses
  Blocker,        \* the worker that holds AutoBlocker.mu
  Threshold,      \* AutoBlockThreshold
  MaxCrashes      \* bound: restarts of the process

ASSUME AutoBlockAssumption ==
  /\ \A ip \in IPs : {ip} \in Rules
  /\ Blocker \in Workers
  /\ Threshold \in Nat \ {0} /\ MaxCrashes \in Nat

VARIABLES
  fails,     \* AutoBlocker.failCount; not counted beyond Threshold
  blocked,   \* AutoBlocker.blockedUntil: absent, in the future or passed
  records,   \* autoblock_records.blocked_until, likewise
  doing,     \* the operation that holds AutoBlocker.mu and how far it is
  crashes

avars == <<fails, blocked, records, doing, crashes>>
vars == <<rvars, avars>>

Ban == {"none", "running", "lapsed"}
Idle == [at |-> "idle"]
Stages == {"rule", "ruled", "rollback", "lifted"}

ABTypeOK ==
  /\ TypeOK
  /\ fails \in [IPs -> 0..Threshold]
  /\ blocked \in [IPs -> Ban]
  /\ records \in [IPs -> Ban]
  /\ doing \in [at : Stages, ip : IPs] \cup {Idle}
  /\ crashes \in 0..MaxCrashes

ABInit ==
  /\ Init
  /\ fails = [ip \in IPs |-> 0]
  /\ blocked = [ip \in IPs |-> "none"]
  /\ records = [ip \in IPs |-> "none"]
  /\ doing = Idle
  /\ crashes = 0

-----------------------------------------------------------------------------
OneFailMore(ip) == fails' = [fails EXCEPT ![ip] = IF @ < Threshold THEN @ + 1 ELSE @]

\* A failed challenge below the threshold, or of an address whose record could
\* not be written.
CountFail(ip) ==
  /\ doing = Idle
  /\ blocked[ip] = "none"
  /\ \/ fails[ip] < Threshold - 1 /\ Works
     \/ fails[ip] >= Threshold - 1 /\ Breaks
  /\ OneFailMore(ip)
  /\ UNCHANGED <<table, snapshot, todo, seen, asked, blocked, records, doing, crashes>>

\* Mutant of PersistBlock: the ban is written to the rules only.
PersistNothing(ip) ==
  /\ doing = Idle
  /\ blocked[ip] = "none"
  /\ fails[ip] >= Threshold - 1
  /\ doing' = [at |-> "rule", ip |-> ip]
  /\ UNCHANGED <<rvars, fails, blocked, records, crashes>>

\* Step 1: the record.
PersistBlock(ip) ==
  /\ doing = Idle
  /\ blocked[ip] = "none"
  /\ fails[ip] >= Threshold - 1
  /\ records' = [records EXCEPT ![ip] = "running"]
  /\ doing' = [at |-> "rule", ip |-> ip]
  /\ UNCHANGED <<rvars, fails, blocked, crashes>>

\* Step 2: the rule, AddIPRuleBySource. An error of its INSERT leads to the
\* rollback, an error of the merge that follows is not reported.
AddRule ==
  /\ doing.at = "rule"
  /\ \/ /\ Works
        /\ Insert(Blocker, {doing.ip}, TRUE)
        /\ doing' = [doing EXCEPT !.at = "ruled"]
     \/ /\ Breaks
        /\ doing' = [doing EXCEPT !.at = "rollback"]
        /\ UNCHANGED <<table, todo, asked>>
  /\ UNCHANGED <<snapshot, seen, fails, blocked, records, crashes>>

\* rollbackPersist: its own error is only logged.
Rollback ==
  /\ doing.at = "rollback"
  /\ \/ Works /\ records' = [records EXCEPT ![doing.ip] = "none"]
     \/ Breaks /\ UNCHANGED records
  /\ OneFailMore(doing.ip)
  /\ doing' = Idle
  /\ UNCHANGED <<table, snapshot, todo, seen, asked, blocked, crashes>>

\* Mutant of EnterBan: the ban is kept in memory when the rule was not written.
EnterBanUnruled ==
  /\ doing.at \in {"ruled", "rollback"}
  /\ Free(Blocker)
  /\ blocked' = [blocked EXCEPT ![doing.ip] = "running"]
  /\ fails' = [fails EXCEPT ![doing.ip] = 0]
  /\ doing' = Idle
  /\ UNCHANGED <<rvars, records, crashes>>

\* Step 3: memory, once the rule engine has returned.
EnterBan ==
  /\ doing.at = "ruled"
  /\ Free(Blocker)
  /\ blocked' = [blocked EXCEPT ![doing.ip] = "running"]
  /\ fails' = [fails EXCEPT ![doing.ip] = 0]
  /\ doing' = Idle
  /\ UNCHANGED <<rvars, records, crashes>>

\* RecordChallengePass.
ChallengePass(ip) ==
  /\ doing = Idle
  /\ fails' = [fails EXCEPT ![ip] = 0]
  /\ UNCHANGED <<rvars, blocked, records, doing, crashes>>

Handling(ip) == doing # Idle /\ doing.ip = ip

\* The ban's time is up: on record first, which keeps whole seconds only. No
\* operation takes as long as a ban lasts.
LapseRecord(ip) ==
  /\ ~Handling(ip)
  /\ records[ip] = "running"
  /\ records' = [records EXCEPT ![ip] = "lapsed"]
  /\ UNCHANGED <<rvars, fails, blocked, doing, crashes>>

LapseBlock(ip) ==
  /\ ~Handling(ip)
  /\ blocked[ip] = "running" /\ records[ip] # "running"
  /\ blocked' = [blocked EXCEPT ![ip] = "lapsed"]
  /\ UNCHANGED <<rvars, fails, records, doing, crashes>>

Lapse(ip) == LapseRecord(ip) \/ LapseBlock(ip)

\* Mutant of ExpireBlock: the record goes, the rule stays.
ExpireBlockOnly(ip) ==
  /\ doing = Idle
  /\ blocked[ip] = "lapsed"
  /\ blocked' = [blocked EXCEPT ![ip] = "none"]
  /\ fails' = [fails EXCEPT ![ip] = 0]
  /\ doing' = [at |-> "lifted", ip |-> ip]
  /\ UNCHANGED <<rvars, records, crashes>>

\* ExpireBlocks on one address: memory first, then RemoveIPRule; if its DELETE
\* fails the rule and the record stay and memory has forgotten both.
ExpireBlock(ip) ==
  /\ doing = Idle
  /\ blocked[ip] = "lapsed"
  /\ blocked' = [blocked EXCEPT ![ip] = "none"]
  /\ fails' = [fails EXCEPT ![ip] = 0]
  /\ \/ /\ Works
        /\ Delete(Blocker, {ip})
        /\ doing' = [at |-> "lifted", ip |-> ip]
     \/ /\ Breaks
        /\ UNCHANGED <<table, todo, doing>>
  /\ UNCHANGED <<snapshot, seen, asked, records, crashes>>

\* deletePersistedBlock, once the rule engine has returned.
DeleteRecord ==
  /\ doing.at = "lifted"
  /\ Free(Blocker)
  /\ \/ Works /\ records' = [records EXCEPT ![doing.ip] = "none"]
     \/ Breaks /\ UNCHANGED records
  /\ doing' = Idle
  /\ UNCHANGED <<table, snapshot, todo, seen, asked, fails, blocked, crashes>>

\* The process dies and starts again: NewEngine builds a snapshot, RecoverFromDB
\* takes back the records still running and leaves the others alone. A record
\* that runs out between the query and the loop is deleted.
Restart ==
  /\ crashes < MaxCrashes
  /\ crashes' = crashes + 1
  /\ snapshot' = UNION enabled
  /\ todo' = [w \in Workers |-> <<>>]
  /\ seen' = [w \in Workers |-> {}]
  /\ \E late \in SUBSET {ip \in IPs : records[ip] = "running"} :
       /\ records' = [ip \in IPs |-> IF ip \in late THEN "none" ELSE records[ip]]
       /\ blocked' = [ip \in IPs |-> IF records'[ip] = "running" THEN "running" ELSE "none"]
  /\ fails' = [ip \in IPs |-> IF blocked'[ip] = "running" THEN Threshold ELSE 0]
  /\ doing' = Idle
  /\ UNCHANGED <<table, asked, failures>>

BlockerStep == \/ AddRule \/ Rollback \/ EnterBan \/ DeleteRecord
               \/ Progress(Blocker) /\ UNCHANGED avars

\* The other goroutines of the rule engine.
Others ==
  /\ \E w \in Workers \ {Blocker} :
       \/ \E r \in Named \cap Rules :
            \/ "AddIPRule" \in Ops /\ AddIPRule(w, r)
            \/ "RemoveIPRule" \in Ops /\ RemoveIPRule(w, r)
       \/ "ReloadRules" \in Ops /\ ReloadRules(w)
       \/ Progress(w)
  /\ UNCHANGED avars

ABNext ==
  \/ \E ip \in IPs : \/ CountFail(ip) \/ PersistBlock(ip) \/ ChallengePass(ip)
                     \/ Lapse(ip) \/ ExpireBlock(ip)
  \/ BlockerStep
  \/ Others
  \/ Restart

\* An operation that has begun is finished, time passes, the cleanup ticker calls
\* ExpireBlocks and the reload ticker ReloadRules for ever.
ABFairness ==
  /\ WF_vars(BlockerStep)
  /\ \A ip \in IPs : WF_vars(Lapse(ip)) /\ SF_vars(ExpireBlock(ip))
  /\ \A w \in Workers \ {Blocker} :
       /\ WF_vars(Progress(w) /\ UNCHANGED avars)
       /\ SF_vars(ReloadRules(w) /\ UNCHANGED avars)

ABSpec == ABInit /\ [][ABNext]_vars
ABFairSpec == ABSpec /\ ABFairness

-----------------------------------------------------------------------------
\* autoblock.go:44-47, the "three-step atomic ban", as far as it goes: until the
\* process dies, an address that memory holds as banned while no operation is
\* under way is blocked by a rule. A crash between the steps leaves a ban that
\* the restart takes for complete.
BannedHasRule ==
  doing = Idle /\ crashes = 0 => \A ip \in IPs : blocked[ip] = "running" => ip \in UNION enabled

\* Before any crash or second failed statement, an address with a rule of its own
\* has the record to lift it by: the record is written before the rule and deleted
\* after it. It takes two failures to lose it: the rule that a failed DELETE of
\* ExpireBlocks leaves keeps its record until an INSERT for the same address fails,
\* whose rollback deletes the record it replaced and puts back none.
RuleHasRecord ==
  crashes = 0 /\ failures < 2 => \A ip \in IPs : {ip} \in rows => records[ip] # "none"

\* Nothing is held in memory alone: at every step of every operation, crashes
\* and failed statements included, an address memory holds has its record, which
\* is all that a restart can take a ban back from or clean it up by.
BansAreOnRecord ==
  \A ip \in IPs : blocked[ip] # "none" => records[ip] # "none"

\* autoblock.go:121, "automatically unblocked": unless a statement fails or the
\* process dies, a banned address is some day neither held as banned nor blocked
\* by any rule.
BansEnd ==
  \A ip \in IPs :
    blocked[ip] # "none" ~> \/ blocked[ip] = "none" /\ ip \notin UNION enabled
                            \/ failures > 0 \/ crashes > 0
=============================================================================
