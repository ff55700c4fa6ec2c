--------------------------- MODULE BackendRouting ---------------------------
(* internal/backend: the backend and group tables, the copy of them that the
   manager keeps in memory, the route cache that every proxied request reads
   without a lock, and the health checker.

   Three kinds of goroutine run at once. Management calls on backends hold
   Manager.mu from the SQL statement to the store of the new cache and are one
   step here. Management calls on groups run the statement first, change memory
   under the lock, rebuild the cache under the read lock and store it after the
   lock is released: each of these is a step, and anything may happen between
   two of them. Health checks are started on a snapshot and report later.

   Weights, policies, addresses and names are left out: which member of a
   non-empty list a policy picks is the subject of WeightedRoundRobin.        *)
EXTENDS Naturals, FiniteSets

CONSTANTS
  Backends,         \* backend ids that may ever be issued
  Groups,           \* group ids that may ever be issued
  Admins,           \* API goroutines running management calls
  Ops,              \* the management calls the administrators use
  Probes,           \* slots of HealthChecker.checkSem
  Probed,           \* backends with health_check on and a public address
  TlsBackends,      \* backends whose scheme list holds https or wss
  PlainBackends,    \* backends whose scheme list holds http or ws
  FailThreshold,
  RecoverThreshold,
  MaxFails,         \* bound: failCount is not counted beyond it
  MaxRestarts       \* bound: process restarts in a behaviour

MemberOps == {"AddGroupMember", "RemoveGroupMember"}
GroupOps == {"AddGroup", "UpdateGroup", "SetGroupEnabled", "DeleteGroup"}
BackendOps == {"AddBackend", "RemoveBackend", "UpdateBackend"}
AllOps == BackendOps \cup GroupOps \cup MemberOps

ASSUME OpsAssumption       == Ops \subseteq AllOps
ASSUME ProbedAssumption    == Probed \subseteq Backends
ASSUME SchemeAssumption    == TlsBackends \cup PlainBackends = Backends
ASSUME ThresholdAssumption == /\ FailThreshold \in Nat \ {0}
                              /\ RecoverThreshold \in Nat \ {0}
                              /\ MaxFails \in Nat
                              /\ MaxFails >= FailThreshold
                              /\ MaxRestarts \in Nat

VARIABLES
  db,        \* tables backends, backend_groups, backend_group_members
  used,      \* ids already issued: they carry a timestamp and never come back
  mem,       \* Manager.backends, groups, groupMembers
  fails,     \* Manager.failCount
  recovers,  \* Manager.recoverCount
  built,     \* Manager.rebuildGroupCacheResult
  cache,     \* Manager.groupCache
  call,      \* the group call each API goroutine is running
  picked,    \* the pointer a goroutine has read from built and not yet stored
  check,     \* the health check in each slot
  up,        \* backends that answer their check path with 2xx (environment)
  restarts

tables == <<db, used>>
health == <<fails, recovers>>
vars == <<db, used, mem, fails, recovers, built, cache, call, picked, check, up, restarts>>

-----------------------------------------------------------------------------
Pairs == Groups \X Backends

Tables == [backends : SUBSET Backends, enabled : SUBSET Backends,
           groups : SUBSET Groups, groupsOn : SUBSET Groups,
           members : SUBSET Pairs]
Memory == [backends : SUBSET Backends, enabled : SUBSET Backends,
           healthy : SUBSET Backends,
           groups : SUBSET Groups, groupsOn : SUBSET Groups,
           members : SUBSET Pairs]
\* A route cache: an entry for each group in `groups`, with its available members.
Caches == [groups : SUBSET Groups, avail : SUBSET Pairs]

Stages == {"apply", "build", "read", "store"}
NoBackend == "none"
GroupCalls == [at : Stages, op : GroupOps, g : Groups, b : {NoBackend}, on : BOOLEAN]
MemberCalls == [at : Stages, op : MemberOps, g : Groups, b : Backends, on : {TRUE}]
InsertCalls == [at : {"exec"}, op : {"AddGroupMember"}, g : Groups, b : Backends, on : {TRUE}]
Calls == GroupCalls \cup MemberCalls \cup InsertCalls
NoCall == [at |-> "idle"]
Checks == [b : Backends, ok : BOOLEAN]
NoCheck == [b |-> NoBackend]

Serving(m) == m.backends \cap m.enabled \cap m.healthy
EnabledGroups(m) == m.groups \cap m.groupsOn

\* Mutant of Projection: disabled groups get an entry.
ProjectionOfAllGroups(m) ==
  [groups |-> m.groups,
   avail  |-> {gb \in m.members : gb[1] \in m.groups /\ gb[2] \in Serving(m)}]

\* doRebuildGroupCache: what memory says a request of each group may be sent to.
Projection(m) ==
  [groups |-> EnabledGroups(m),
   avail  |-> {gb \in m.members : gb[1] \in EnabledGroups(m) /\ gb[2] \in Serving(m)}]

NoCache == [groups |-> {}, avail |-> {}]

\* loadBackends and loadGroups. Nothing but MarkHealthy writes the column
\* `healthy`, and no production code calls it, so every row loads as healthy.
Loaded(t) == [backends |-> t.backends, enabled |-> t.enabled,
              healthy |-> t.backends,
              groups |-> t.groups, groupsOn |-> t.groupsOn, members |-> t.members]

Min2(x, y) == IF x < y THEN x ELSE y

\* The two comparisons with the thresholds, n being the counter before the check.
EnoughFailures(n)  == n + 1 >= FailThreshold
OneSuccessMore(n)  == n + 1 > RecoverThreshold                        \* mutant
EnoughSuccesses(n) == n + 1 >= RecoverThreshold

-----------------------------------------------------------------------------
\* A process that starts on the tables an earlier one left.
Init ==
  /\ db \in Tables
  /\ db.enabled \subseteq db.backends
  /\ db.groupsOn \subseteq db.groups
  /\ db.members \subseteq db.groups \X db.backends
  /\ used = [backends |-> db.backends, groups |-> db.groups]
  /\ mem = Loaded(db)
  /\ fails = [b \in Backends |-> 0]
  /\ recovers = [b \in Backends |-> 0]
  /\ built = Projection(mem)
  /\ cache = built
  /\ call = [a \in Admins |-> NoCall]
  /\ picked = [a \in Admins |-> NoCache]
  /\ check = [p \in Probes |-> NoCheck]
  /\ up \in SUBSET Backends
  /\ restarts = 0

-----------------------------------------------------------------------------
(* Management calls on backends: Manager.mu is held throughout. A statement
   that fails returns its error before memory is touched and is a stutter.    *)

\* Mutant of RebuildLocked: built and never stored.
BuiltNotStored == built' = Projection(mem') /\ cache' = cache

\* rebuildGroupCacheLocked, always called with the lock held.
RebuildLocked == /\ built' = Projection(mem')
                 /\ cache' = built'

AddBackend(a, b) ==
  /\ "AddBackend" \in Ops
  /\ call[a] = NoCall
  /\ b \notin used.backends
  /\ used' = [used EXCEPT !.backends = @ \cup {b}]
  /\ db' = [db EXCEPT !.backends = @ \cup {b}, !.enabled = @ \cup {b}]
  /\ mem' = [mem EXCEPT !.backends = @ \cup {b}, !.enabled = @ \cup {b},
                        !.healthy = @ \cup {b}]
  /\ RebuildLocked
  /\ UNCHANGED <<health, call, picked, check, up, restarts>>

\* `cleaned` is FALSE when the second DELETE fails: that is logged and ignored.
RemoveBackend(a, b) ==
  /\ "RemoveBackend" \in Ops
  /\ call[a] = NoCall
  /\ \E cleaned \in BOOLEAN :
       db' = [db EXCEPT !.backends = @ \ {b}, !.enabled = @ \ {b},
                        !.members = IF cleaned THEN @ \ (Groups \X {b}) ELSE @]
  /\ mem' = [mem EXCEPT !.backends = @ \ {b}, !.enabled = @ \ {b},
                        !.healthy = @ \ {b}, !.members = @ \ (Groups \X {b})]
  /\ fails' = [fails EXCEPT ![b] = 0]
  /\ recovers' = [recovers EXCEPT ![b] = 0]
  /\ RebuildLocked
  /\ UNCHANGED <<used, call, picked, check, up, restarts>>

\* The UPDATE of a missing row succeeds and changes nothing.
UpdateBackend(a, b, on) ==
  /\ "UpdateBackend" \in Ops
  /\ call[a] = NoCall
  /\ LET set(enabled, ids) == (enabled \ {b}) \cup (IF on THEN {b} \cap ids ELSE {})
     IN /\ db' = [db EXCEPT !.enabled = set(@, db.backends)]
        /\ mem' = [mem EXCEPT !.enabled = set(@, mem.backends)]
  /\ RebuildLocked
  /\ UNCHANGED <<used, health, call, picked, check, up, restarts>>

-----------------------------------------------------------------------------
(* Management calls on groups: statement, memory, rebuild, read, store.       *)

Start(a, op, g, b, on, stage) ==
  /\ op \in Ops
  /\ call[a] = NoCall
  /\ call' = [call EXCEPT ![a] = [at |-> stage, op |-> op, g |-> g, b |-> b, on |-> on]]
  /\ UNCHANGED <<mem, health, built, cache, picked, check, up, restarts>>

\* Each call's statement. SetGroupEnabled and UpdateGroup give up on 0 rows.
AddGroup(a, g) ==
  /\ g \notin used.groups
  /\ used' = [used EXCEPT !.groups = @ \cup {g}]
  /\ db' = [db EXCEPT !.groups = @ \cup {g}, !.groupsOn = @ \cup {g}]
  /\ Start(a, "AddGroup", g, NoBackend, TRUE, "apply")

UpdateGroup(a, g) ==
  /\ g \in db.groups
  /\ Start(a, "UpdateGroup", g, NoBackend, TRUE, "apply")
  /\ UNCHANGED tables

SetGroupEnabled(a, g, on) ==
  /\ g \in db.groups
  /\ db' = [db EXCEPT !.groupsOn = IF on THEN @ \cup {g} ELSE @ \ {g}]
  /\ Start(a, "SetGroupEnabled", g, NoBackend, on, "apply")
  /\ UNCHANGED used

DeleteGroup(a, g) ==
  /\ db' = [db EXCEPT !.groups = @ \ {g}, !.groupsOn = @ \ {g},
                      !.members = @ \ ({g} \X Backends)]
  /\ Start(a, "DeleteGroup", g, NoBackend, TRUE, "apply")
  /\ UNCHANGED used

RemoveGroupMember(a, g, b) ==
  /\ db' = [db EXCEPT !.members = @ \ {<<g, b>>}]
  /\ Start(a, "RemoveGroupMember", g, b, TRUE, "apply")
  /\ UNCHANGED used

\* AddGroupMember looks at memory first, releases the lock, then inserts.
AddGroupMember(a, g, b) ==
  /\ g \in mem.groups
  /\ b \in mem.backends
  /\ Start(a, "AddGroupMember", g, b, TRUE, "exec")
  /\ UNCHANGED tables

\* Mutant of InsertGroupMember: the row is never written.
MemberNotInserted(a) ==
  /\ call[a].at = "exec"
  /\ call' = [call EXCEPT ![a].at = "apply"]
  /\ UNCHANGED <<tables, mem, health, built, cache, picked, check, up, restarts>>

InsertGroupMember(a) ==
  /\ call[a].at = "exec"
  /\ db' = [db EXCEPT !.members = @ \cup {<<call[a].g, call[a].b>>}]
  /\ call' = [call EXCEPT ![a].at = "apply"]
  /\ UNCHANGED <<used, mem, health, built, cache, picked, check, up, restarts>>

\* The change each call makes to memory, under the lock.
Applied(m, c) ==
  CASE c.op = "AddGroup" ->
         [m EXCEPT !.groups = @ \cup {c.g}, !.groupsOn = @ \cup {c.g}]
    [] c.op = "SetGroupEnabled" ->
         [m EXCEPT !.groupsOn = IF c.on THEN @ \cup ({c.g} \cap m.groups) ELSE @ \ {c.g}]
    [] c.op = "DeleteGroup" ->
         [m EXCEPT !.groups = @ \ {c.g}, !.groupsOn = @ \ {c.g},
                   !.members = @ \ ({c.g} \X Backends)]
    [] c.op = "AddGroupMember" ->
         [m EXCEPT !.members = @ \cup {<<c.g, c.b>>}]
    [] c.op = "RemoveGroupMember" ->
         [m EXCEPT !.members = @ \ {<<c.g, c.b>>}]
    [] OTHER -> m

Apply(a) ==
  /\ call[a].at = "apply"
  /\ mem' = Applied(mem, call[a])
  /\ call' = [call EXCEPT ![a].at = "build"]
  /\ UNCHANGED <<tables, health, built, cache, picked, check, up, restarts>>

\* rebuildGroupCache: build under the read lock, read the field, store it.
Build(a) ==
  /\ call[a].at = "build"
  /\ built' = Projection(mem)
  /\ call' = [call EXCEPT ![a].at = "read"]
  /\ UNCHANGED <<tables, mem, health, cache, picked, check, up, restarts>>

Read(a) ==
  /\ call[a].at = "read"
  /\ picked' = [picked EXCEPT ![a] = built]
  /\ call' = [call EXCEPT ![a].at = "store"]
  /\ UNCHANGED <<tables, mem, health, built, cache, check, up, restarts>>

\* Mutant of Store: the entries are put into the old cache.
StoreOver(a) ==
  /\ call[a].at = "store"
  /\ cache' = [groups |-> cache.groups \cup picked[a].groups,
               avail |-> cache.avail \cup picked[a].avail]
  /\ picked' = [picked EXCEPT ![a] = NoCache]
  /\ call' = [call EXCEPT ![a] = NoCall]
  /\ UNCHANGED <<tables, mem, health, built, check, up, restarts>>

Store(a) ==
  /\ call[a].at = "store"
  /\ cache' = picked[a]
  /\ picked' = [picked EXCEPT ![a] = NoCache]
  /\ call' = [call EXCEPT ![a] = NoCall]
  /\ UNCHANGED <<tables, mem, health, built, check, up, restarts>>

-----------------------------------------------------------------------------
(* Health checks.                                                             *)

\* checkAll takes a snapshot and starts a goroutine per enabled backend; the
\* goroutine gets a slot and an answer. Its result is handled later.
Sample(p, b) ==
  /\ check[p] = NoCheck
  /\ b \in Probed \cap mem.backends \cap mem.enabled
  /\ check' = [check EXCEPT ![p] = [b |-> b, ok |-> b \in up]]
  /\ UNCHANGED <<tables, mem, health, built, cache, call, picked, up, restarts>>

\* A result whose backend has been removed meanwhile: it counts as unhealthy with
\* a threshold of 0, so a success resets the counters and rebuilds the cache, and
\* a failure counts for an id that is never issued again.
HandleGone(p) ==
  LET b == check[p].b IN
  /\ check[p] # NoCheck
  /\ b \notin mem.backends
  /\ UNCHANGED <<tables, mem, call, picked, up, restarts>>
  /\ recovers' = [recovers EXCEPT ![b] = 0]
  /\ \/ /\ check[p].ok
        /\ fails' = [fails EXCEPT ![b] = 0]
        /\ RebuildLocked
     \/ /\ ~check[p].ok
        /\ fails' = [fails EXCEPT ![b] = Min2(@ + 1, MaxFails)]
        /\ UNCHANGED <<built, cache>>
  /\ check' = [check EXCEPT ![p] = NoCheck]

HandleSuccess(p) ==
  LET b == check[p].b IN
  /\ check[p] # NoCheck
  /\ b \in mem.backends
  /\ check[p].ok
  /\ \/ /\ b \in mem.healthy
        /\ fails' = [fails EXCEPT ![b] = IF @ > 0 THEN @ - 1 ELSE 0]
        /\ recovers' = [recovers EXCEPT ![b] = 0]
        /\ UNCHANGED <<mem, built, cache>>
     \/ /\ b \notin mem.healthy
        /\ ~EnoughSuccesses(recovers[b])
        /\ fails' = [fails EXCEPT ![b] = IF @ > 0 THEN @ - 1 ELSE 0]
        /\ recovers' = [recovers EXCEPT ![b] = @ + 1]
        /\ UNCHANGED <<mem, built, cache>>
     \/ /\ b \notin mem.healthy
        /\ EnoughSuccesses(recovers[b])
        /\ mem' = [mem EXCEPT !.healthy = @ \cup {b}]
        /\ fails' = [fails EXCEPT ![b] = 0]
        /\ recovers' = [recovers EXCEPT ![b] = 0]
        /\ RebuildLocked
  /\ check' = [check EXCEPT ![p] = NoCheck]
  /\ UNCHANGED <<tables, call, picked, up, restarts>>

HandleFail(p) ==
  LET b == check[p].b IN
  /\ check[p] # NoCheck
  /\ b \in mem.backends
  /\ ~check[p].ok
  /\ recovers' = [recovers EXCEPT ![b] = 0]
  /\ \/ /\ b \in mem.healthy
        /\ EnoughFailures(fails[b])
        /\ mem' = [mem EXCEPT !.healthy = @ \ {b}]
        /\ fails' = [fails EXCEPT ![b] = 0]
        /\ RebuildLocked
     \/ /\ b \notin mem.healthy \/ ~EnoughFailures(fails[b])
        /\ fails' = [fails EXCEPT ![b] = Min2(@ + 1, MaxFails)]
        /\ UNCHANGED <<mem, built, cache>>
  /\ check' = [check EXCEPT ![p] = NoCheck]
  /\ UNCHANGED <<tables, call, picked, up, restarts>>

-----------------------------------------------------------------------------
\* NewManager after a crash or a shutdown: whatever was running is gone.
Restart ==
  /\ restarts < MaxRestarts
  /\ restarts' = restarts + 1
  /\ mem' = Loaded(db)
  /\ fails' = [b \in Backends |-> 0]
  /\ recovers' = [b \in Backends |-> 0]
  /\ built' = Projection(mem')
  /\ cache' = built'
  /\ call' = [a \in Admins |-> NoCall]
  /\ picked' = [a \in Admins |-> NoCache]
  /\ check' = [p \in Probes |-> NoCheck]
  /\ UNCHANGED <<tables, up>>

\* A backend starts or stops answering.
Toggle(b) ==
  /\ up' = (up \ {b}) \cup ({b} \ up)
  /\ UNCHANGED <<tables, mem, health, built, cache, call, picked, check, restarts>>

AdminStep(a) == InsertGroupMember(a) \/ Apply(a) \/ Build(a) \/ Read(a) \/ Store(a)
Handle(p) == HandleGone(p) \/ HandleSuccess(p) \/ HandleFail(p)

Next ==
  \/ \E a \in Admins, b \in Backends :
       \/ AddBackend(a, b)
       \/ RemoveBackend(a, b)
       \/ \E on \in BOOLEAN : UpdateBackend(a, b, on)
  \/ \E a \in Admins, g \in Groups :
       \/ AddGroup(a, g)
       \/ UpdateGroup(a, g)
       \/ \E on \in BOOLEAN : SetGroupEnabled(a, g, on)
       \/ DeleteGroup(a, g)
  \/ \E a \in Admins, g \in Groups, b \in Backends :
       \/ AddGroupMember(a, g, b)
       \/ RemoveGroupMember(a, g, b)
  \/ \E a \in Admins : AdminStep(a)
  \/ \E p \in Probes, b \in Backends : Sample(p, b)
  \/ \E p \in Probes : Handle(p)
  \/ \E b \in Probed : Toggle(b)
  \/ Restart

Spec == Init /\ [][Next]_vars

\* A call that has begun goes on. The ticker fires for ever and every check is
\* bounded by its timeout, so no backend waits for a slot for ever.
Fairness ==
  /\ \A a \in Admins : WF_vars(AdminStep(a))
  /\ \A p \in Probes : WF_vars(Handle(p))
  /\ \A b \in Backends : SF_vars(\E p \in Probes : Sample(p, b))

FairSpec == Spec /\ Fairness

-----------------------------------------------------------------------------
(* What the component promises.                                               *)

\* Every variable keeps its shape: a call that writes a membership names a
\* backend, and the counters of the health checker stay within their bounds.
TypeOK ==
  /\ db \in Tables
  /\ used \in [backends : SUBSET Backends, groups : SUBSET Groups]
  /\ mem \in Memory
  /\ fails \in [Backends -> 0..MaxFails]
  /\ recovers \in [Backends -> 0..(RecoverThreshold - 1)]
  /\ built \in Caches
  /\ cache \in Caches
  /\ call \in [Admins -> Calls \cup {NoCall}]
  /\ picked \in [Admins -> Caches]
  /\ check \in [Probes -> Checks \cup {NoCheck}]
  /\ up \subseteq Backends
  /\ restarts \in 0..MaxRestarts

NoCallRuns == \A a \in Admins : call[a] = NoCall

\* The shared field rebuildGroupCacheResult is what memory projects to, whoever
\* wrote it last and in whatever order calls, checks and restarts interleave,
\* save between a group call's change of memory and its own rebuild. So a cache
\* that is out of date can only come from the read and the store that follow.
BuiltIsCurrent == (\A a \in Admins : call[a].at # "build") => built = Projection(mem)

\* SelectBackendForGroup: an entry with available members answers from the
\* cache, after the protocol filter; anything else falls through to memory.
ForProtocol(bs, tls) ==
  LET fit == bs \cap (IF tls THEN TlsBackends ELSE PlainBackends)
  IN IF fit = {} THEN bs ELSE fit
Members(pairs, g) == {b \in Backends : <<g, b>> \in pairs}
RouteSlow(g, tls) ==
  IF g \in EnabledGroups(mem)
  THEN ForProtocol(Members(mem.members, g) \cap Serving(mem), tls)
  ELSE {}
RouteFast(g, tls) ==
  IF g \in cache.groups /\ Members(cache.avail, g) # {}
  THEN ForProtocol(Members(cache.avail, g), tls)
  ELSE RouteSlow(g, tls)

\* Once every management call has returned, a request is offered exactly the
\* backends that the current tables and health of memory allow: a disabled or
\* deleted group, a removed, disabled or unhealthy backend gets no request, and
\* an added one gets its share.
RoutesFollowMemory ==
  NoCallRuns =>
     \A g \in Groups, tls \in BOOLEAN : RouteFast(g, tls) = RouteSlow(g, tls)

\* SelectBackendForGroup keeps the promise of RoutePromise: a request is offered
\* what memory allows or, while a group call is between its change of memory and
\* its store of the cache, what was allowed before that call.
Wanted == [r \in Groups \X BOOLEAN |-> RouteSlow(r[1], r[2])]
Offered == [r \in Groups \X BOOLEAN |-> RouteFast(r[1], r[2])]
Promise == INSTANCE RoutePromise WITH wanted <- Wanted, offered <- Offered
KeepsPromise == Promise!Spec

\* Once every management call has returned, a restart would route requests as
\* memory does, health apart: the two-step calls leave table and memory equal,
\* up to membership rows of backends that are gone, which loading tolerates.
RestartKeepsRoutes ==
  NoCallRuns =>
     /\ Projection(Loaded(db)) = Projection([mem EXCEPT !.healthy = mem.backends])
     /\ db.groups = mem.groups

\* README.md:29, "automatic removal": a backend that is left enabled and stops
\* answering for good is at some point no longer offered to any group's requests,
\* and stays out.
DeadLeavesRoutes ==
  \A b \in Probed :
     <>[](b \in mem.enabled \ up) => <>[](\A g \in Groups : b \notin RouteFast(g, FALSE))

\* README.md:29, "automatic recovery": a backend that answers for good and is a
\* member of an enabled group is at some point offered to requests again.
RecoveredReturns ==
  \A b \in Probed, g \in Groups :
     <>[](/\ b \in up \cap mem.enabled
          /\ <<g, b>> \in mem.members
          /\ g \in EnabledGroups(mem))
       => <>[](<<g, b>> \in cache.avail)
=============================================================================
