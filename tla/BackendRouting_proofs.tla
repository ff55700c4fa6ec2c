------------------------ MODULE BackendRouting_proofs ------------------------
(* Proofs about BackendRouting: type correctness, that the shared rebuild field
   is always current, that routes follow memory when calls come one at a time
   and no health check reports, and that a restart then routes as memory does. *)
EXTENDS BackendRouting, TLAPS

-----------------------------------------------------------------------------
(* The operators. *)

\* A cache built from memory is a cache.
LEMMA ProjectionType ==
  ASSUME NEW m \in Memory
  PROVE  Projection(m) \in Caches
BY DEF Projection, Memory, Caches, EnabledGroups, Serving, Pairs

\* What loading returns has the shape of memory.
LEMMA LoadedType ==
  ASSUME NEW t \in Tables
  PROVE  Loaded(t) \in Memory
BY DEF Loaded, Tables, Memory

\* A group call leaves memory well formed.
LEMMA AppliedType ==
  ASSUME NEW m \in Memory, NEW c \in Calls
  PROVE  Applied(m, c) \in Memory
<1>1. c.op \in GroupOps \cup MemberOps /\ c.g \in Groups
  BY DEF Calls, GroupCalls, MemberCalls, InsertCalls, MemberOps
<1>2. CASE c.op = "AddGroup"
  BY <1>1, <1>2 DEF Applied, Memory
<1>3. CASE c.op = "SetGroupEnabled"
  BY <1>1, <1>3 DEF Applied, Memory
<1>4. CASE c.op = "DeleteGroup"
  BY <1>1, <1>4 DEF Applied, Memory
<1>5. CASE c.op = "AddGroupMember"
  <2>1. <<c.g, c.b>> \in Pairs
    BY <1>5 DEF Calls, GroupCalls, MemberCalls, InsertCalls, GroupOps, Pairs
  <2> QED BY <1>5, <2>1 DEF Applied, Memory
<1>6. CASE c.op = "RemoveGroupMember"
  BY <1>6 DEF Applied, Memory
<1>7. CASE c.op = "UpdateGroup"
  BY <1>7 DEF Applied
<1> QED BY <1>1, <1>2, <1>3, <1>4, <1>5, <1>6, <1>7 DEF GroupOps, MemberOps

-----------------------------------------------------------------------------
(* Type correctness. *)

\* Every state the process can start in is well formed.
LEMMA TypeInit == Init => TypeOK
<1> SUFFICES ASSUME Init PROVE TypeOK
  OBVIOUS
<1>1. mem \in Memory
  BY LoadedType DEF Init
<1>2. built \in Caches
  BY <1>1, ProjectionType DEF Init
<1>3. NoCache \in Caches
  BY DEF NoCache, Caches
<1>4. 0 \in 0..MaxFails /\ 0 \in 0..(RecoverThreshold - 1) /\ 0 \in 0..MaxRestarts
  BY ThresholdAssumption
<1>5. used \in [backends : SUBSET Backends, groups : SUBSET Groups]
  BY DEF Init, Tables
<1> QED BY <1>1, <1>2, <1>3, <1>4, <1>5 DEF Init, TypeOK

\* The two stores of a rebuild under the lock keep their shape.
LEMMA RebuildType ==
  ASSUME mem' \in Memory, RebuildLocked
  PROVE  built' \in Caches /\ cache' \in Caches
BY ProjectionType DEF RebuildLocked

\* Every call, check, restart and change of a backend keeps the types.
LEMMA TypeNext == TypeOK /\ [Next]_vars => TypeOK'
<1> SUFFICES ASSUME TypeOK, [Next]_vars PROVE TypeOK'
  OBVIOUS
<1> USE DEF TypeOK
<1>1. ASSUME NEW a \in Admins, NEW b \in Backends, AddBackend(a, b) PROVE TypeOK'
  <2>1. mem' \in Memory /\ db' \in Tables
        /\ used' \in [backends : SUBSET Backends, groups : SUBSET Groups]
    BY <1>1 DEF AddBackend, Memory, Tables
  <2> QED BY <1>1, <2>1, RebuildType DEF AddBackend, health
<1>2. ASSUME NEW a \in Admins, NEW b \in Backends, RemoveBackend(a, b) PROVE TypeOK'
  <2>1. mem' \in Memory /\ db' \in Tables
    <3> DEFINE gone == Groups \X {b}
    <3>1. mem' = [mem EXCEPT !.backends = @ \ {b}, !.enabled = @ \ {b},
                             !.healthy = @ \ {b}, !.members = @ \ gone]
      BY <1>2 DEF RemoveBackend
    <3>2. PICK cleaned \in BOOLEAN :
            db' = [db EXCEPT !.backends = @ \ {b}, !.enabled = @ \ {b},
                             !.members = IF cleaned THEN @ \ gone ELSE @]
      BY <1>2 DEF RemoveBackend
    <3> HIDE DEF gone
    <3>3. mem' \in Memory
      BY <3>1 DEF Memory
    <3>4. CASE cleaned
      BY <3>2, <3>3, <3>4 DEF Tables
    <3>5. CASE ~cleaned
      BY <3>2, <3>3, <3>5 DEF Tables
    <3> QED BY <3>3, <3>4, <3>5
  <2>2. fails' \in [Backends -> 0..MaxFails] /\ recovers' \in [Backends -> 0..(RecoverThreshold - 1)]
    BY <1>2, ThresholdAssumption DEF RemoveBackend
  <2> QED BY <1>2, <2>1, <2>2, RebuildType DEF RemoveBackend
<1>3. ASSUME NEW a \in Admins, NEW b \in Backends, NEW on \in BOOLEAN, UpdateBackend(a, b, on)
      PROVE TypeOK'
  <2>1. mem' \in Memory /\ db' \in Tables
    BY <1>3 DEF UpdateBackend, Memory, Tables
  <2> QED BY <1>3, <2>1, RebuildType DEF UpdateBackend, health
<1>4. ASSUME NEW a \in Admins, NEW g \in Groups,
             AddGroup(a, g) \/ UpdateGroup(a, g) \/ DeleteGroup(a, g)
             \/ \E on \in BOOLEAN : SetGroupEnabled(a, g, on)
      PROVE TypeOK'
  <2>1. db' \in Tables /\ used' \in [backends : SUBSET Backends, groups : SUBSET Groups]
    <3>1. CASE AddGroup(a, g)
      BY <3>1 DEF AddGroup, Tables
    <3>2. CASE UpdateGroup(a, g)
      BY <3>2 DEF UpdateGroup, tables
    <3>3. CASE DeleteGroup(a, g)
      <4> DEFINE gone == {g} \X Backends
      <4>1. db' = [db EXCEPT !.groups = @ \ {g}, !.groupsOn = @ \ {g}, !.members = @ \ gone]
            /\ used' = used
        BY <3>3 DEF DeleteGroup
      <4> HIDE DEF gone
      <4> QED BY <4>1 DEF Tables
    <3>4. CASE \E on \in BOOLEAN : SetGroupEnabled(a, g, on)
      <4>1. PICK on \in BOOLEAN : SetGroupEnabled(a, g, on)
        BY <3>4
      <4> QED BY <4>1 DEF SetGroupEnabled, Tables
    <3> QED BY <1>4, <3>1, <3>2, <3>3, <3>4
  <2>2. \E op \in GroupOps, on \in BOOLEAN : Start(a, op, g, NoBackend, on, "apply")
    BY <1>4 DEF AddGroup, UpdateGroup, DeleteGroup, SetGroupEnabled, GroupOps
  <2>3. PICK op \in GroupOps, on \in BOOLEAN : Start(a, op, g, NoBackend, on, "apply")
    BY <2>2
  <2>4. [at |-> "apply", op |-> op, g |-> g, b |-> NoBackend, on |-> on] \in Calls
    BY DEF Calls, GroupCalls, Stages
  <2> QED BY <2>1, <2>3, <2>4 DEF Start, health
<1>5. ASSUME NEW a \in Admins, NEW g \in Groups, NEW b \in Backends,
             AddGroupMember(a, g, b) \/ RemoveGroupMember(a, g, b)
      PROVE TypeOK'
  <2>1. db' \in Tables /\ used' = used
    BY <1>5 DEF AddGroupMember, RemoveGroupMember, Tables, tables
  <2>2. [at |-> "apply", op |-> "RemoveGroupMember", g |-> g, b |-> b, on |-> TRUE] \in Calls
    BY DEF Calls, MemberCalls, MemberOps, Stages
  <2>3. [at |-> "exec", op |-> "AddGroupMember", g |-> g, b |-> b, on |-> TRUE] \in Calls
    BY DEF Calls, InsertCalls
  <2> QED BY <1>5, <2>1, <2>2, <2>3 DEF AddGroupMember, RemoveGroupMember, Start, health
<1>6. ASSUME NEW a \in Admins, InsertGroupMember(a) PROVE TypeOK'
  <2>1. call[a] \in InsertCalls
    <3>1. call[a].at = "exec" /\ call[a] \in Calls \cup {NoCall}
      BY <1>6 DEF InsertGroupMember
    <3>2. call[a] \notin GroupCalls /\ call[a] \notin MemberCalls
      BY <3>1 DEF GroupCalls, MemberCalls, Stages
    <3> QED BY <3>1, <3>2 DEF Calls, NoCall
  <2>2. [call[a] EXCEPT !.at = "apply"] \in Calls
    BY <2>1 DEF InsertCalls, Calls, MemberCalls, MemberOps, Stages
  <2>3. db' \in Tables
    BY <1>6, <2>1 DEF InsertGroupMember, InsertCalls, Tables, Pairs
  <2> QED BY <1>6, <2>2, <2>3 DEF InsertGroupMember, health
<1>7. ASSUME NEW a \in Admins, call[a].at \in Stages, NEW s \in Stages
      PROVE  [call[a] EXCEPT !.at = s] \in Calls /\ call[a] \in Calls
  <2>1. call[a] \in GroupCalls \cup MemberCalls
    <3>1. call[a] \notin InsertCalls
      BY <1>7 DEF InsertCalls, Stages
    <3> QED BY <1>7, <3>1 DEF Calls, NoCall, Stages
  <2>2. CASE call[a] \in GroupCalls
    BY <2>2 DEF Calls, GroupCalls
  <2>3. CASE call[a] \in MemberCalls
    BY <2>3 DEF Calls, MemberCalls
  <2> QED BY <2>1, <2>2, <2>3
<1>8. ASSUME NEW a \in Admins, Apply(a) PROVE TypeOK'
  <2>1. call[a] \in Calls /\ [call[a] EXCEPT !.at = "build"] \in Calls
    BY <1>7, <1>8 DEF Apply, Stages
  <2>2. mem' \in Memory
    BY <1>8, <2>1, AppliedType DEF Apply
  <2> QED BY <1>8, <2>1, <2>2 DEF Apply, tables, health
<1>9. ASSUME NEW a \in Admins, Build(a) PROVE TypeOK'
  <2>1. [call[a] EXCEPT !.at = "read"] \in Calls
    BY <1>7, <1>9 DEF Build, Stages
  <2> QED BY <1>9, <2>1, ProjectionType DEF Build, tables, health
<1>10. ASSUME NEW a \in Admins, Read(a) PROVE TypeOK'
  <2>1. [call[a] EXCEPT !.at = "store"] \in Calls
    BY <1>7, <1>10 DEF Read, Stages
  <2> QED BY <1>10, <2>1 DEF Read, tables, health
<1>11. ASSUME NEW a \in Admins, Store(a) PROVE TypeOK'
  <2>1. NoCache \in Caches
    BY DEF NoCache, Caches
  <2> QED BY <1>11, <2>1 DEF Store, tables, health
<1>12. ASSUME NEW p \in Probes, NEW b \in Backends, Sample(p, b) PROVE TypeOK'
  BY <1>12 DEF Sample, Checks, tables, health
<1>13. ASSUME NEW p \in Probes, HandleGone(p) PROVE TypeOK'
  <2>1. check[p].b \in Backends
    BY <1>13 DEF HandleGone, Checks
  <2>2. fails' \in [Backends -> 0..MaxFails] /\ recovers' \in [Backends -> 0..(RecoverThreshold - 1)]
    BY <1>13, <2>1, ThresholdAssumption DEF HandleGone, Min2
  <2>3. built' \in Caches /\ cache' \in Caches
    BY <1>13, RebuildType DEF HandleGone
  <2> QED BY <1>13, <2>2, <2>3 DEF HandleGone, tables
<1>14. ASSUME NEW p \in Probes, HandleSuccess(p) PROVE TypeOK'
  <2>1. check[p].b \in Backends
    BY <1>14 DEF HandleSuccess, Checks
  <2>2. fails' \in [Backends -> 0..MaxFails] /\ recovers' \in [Backends -> 0..(RecoverThreshold - 1)]
    BY <1>14, <2>1, ThresholdAssumption DEF HandleSuccess, EnoughSuccesses
  <2>3. mem' \in Memory
    BY <1>14, <2>1 DEF HandleSuccess, Memory
  <2>4. built' \in Caches /\ cache' \in Caches
    BY <1>14, <2>3, RebuildType DEF HandleSuccess
  <2> QED BY <1>14, <2>2, <2>3, <2>4 DEF HandleSuccess, tables
<1>15. ASSUME NEW p \in Probes, HandleFail(p) PROVE TypeOK'
  <2>1. check[p].b \in Backends
    BY <1>15 DEF HandleFail, Checks
  <2>2. fails' \in [Backends -> 0..MaxFails] /\ recovers' \in [Backends -> 0..(RecoverThreshold - 1)]
    BY <1>15, <2>1, ThresholdAssumption DEF HandleFail, Min2
  <2>3. mem' \in Memory
    BY <1>15, <2>1 DEF HandleFail, Memory
  <2>4. built' \in Caches /\ cache' \in Caches
    BY <1>15, <2>3, RebuildType DEF HandleFail
  <2> QED BY <1>15, <2>2, <2>3, <2>4 DEF HandleFail, tables
<1>16. ASSUME NEW b \in Probed, Toggle(b) PROVE TypeOK'
  BY <1>16, ProbedAssumption DEF Toggle, tables, health
<1>17. CASE Restart
  <2>1. mem' \in Memory
    BY <1>17, LoadedType DEF Restart
  <2>2. built' \in Caches /\ NoCache \in Caches
    BY <1>17, <2>1, ProjectionType DEF Restart, NoCache, Caches
  <2>3. restarts' \in 0..MaxRestarts
    BY <1>17, ThresholdAssumption DEF Restart
  <2> QED BY <1>17, <2>1, <2>2, <2>3, ThresholdAssumption DEF Restart, tables
<1>18. CASE UNCHANGED vars
  BY <1>18 DEF vars
<1> QED
  BY <1>1, <1>2, <1>3, <1>4, <1>5, <1>6, <1>8, <1>9, <1>10, <1>11, <1>12, <1>13, <1>14,
     <1>15, <1>16, <1>17, <1>18 DEF Next, AdminStep, Handle

\* Type correctness of the manager, its tables and the health checker.
THEOREM Typing == Spec => []TypeOK
BY TypeInit, TypeNext, PTL DEF Spec

-----------------------------------------------------------------------------
(* The rebuilt cache. *)

\* Every step keeps the field current, the types being what makes the projection of
\* the new memory comparable with it.
LEMMA BuiltNext == TypeOK /\ BuiltIsCurrent /\ [Next]_vars => BuiltIsCurrent'
<1> SUFFICES ASSUME TypeOK, BuiltIsCurrent, [Next]_vars,
                    \A a \in Admins : call'[a].at # "build"
             PROVE  built' = Projection(mem')
  BY DEF BuiltIsCurrent, Projection, EnabledGroups, Serving
<1> USE DEF BuiltIsCurrent
<1>0. call \in [Admins -> Calls \cup {NoCall}]
  BY DEF TypeOK
<1>1. CASE RebuildLocked
  BY <1>1 DEF RebuildLocked
<1>2. CASE UNCHANGED <<mem, built, call>>
  BY <1>2
<1>3. ASSUME NEW a \in Admins, NEW op, NEW g, NEW b, NEW on, NEW stage,
             Start(a, op, g, b, on, stage)
      PROVE  built' = Projection(mem')
  <2>1. \A c \in Admins : call[c].at # "build"
    BY <1>0, <1>3 DEF Start, NoCall
  <2> QED BY <1>3, <2>1 DEF Start
<1>4. ASSUME NEW a \in Admins, AdminStep(a) PROVE built' = Projection(mem')
  <2>1. CASE Apply(a)
    BY <1>0, <2>1 DEF Apply
  <2>2. CASE Build(a)
    BY <2>2 DEF Build
  <2>3. CASE InsertGroupMember(a)
    <3>1. \A c \in Admins : call[c].at # "build"
      BY <1>0, <2>3 DEF InsertGroupMember
    <3> QED BY <2>3, <3>1 DEF InsertGroupMember
  <2>4. CASE Read(a)
    <3>1. \A c \in Admins : call[c].at # "build"
      BY <1>0, <2>4 DEF Read
    <3> QED BY <2>4, <3>1 DEF Read
  <2>5. CASE Store(a)
    <3>1. \A c \in Admins : call[c].at # "build"
      BY <1>0, <2>5 DEF Store
    <3> QED BY <2>5, <3>1 DEF Store
  <2> QED BY <1>4, <2>1, <2>2, <2>3, <2>4, <2>5 DEF AdminStep
<1>5. ASSUME NEW a \in Admins, NEW b \in Backends,
             AddBackend(a, b) \/ RemoveBackend(a, b)
             \/ \E on \in BOOLEAN : UpdateBackend(a, b, on)
      PROVE  built' = Projection(mem')
  BY <1>1, <1>5 DEF AddBackend, RemoveBackend, UpdateBackend
<1>6. ASSUME NEW a \in Admins, NEW g \in Groups,
             \/ AddGroup(a, g) \/ UpdateGroup(a, g) \/ DeleteGroup(a, g)
             \/ \E on \in BOOLEAN : SetGroupEnabled(a, g, on)
             \/ \E b \in Backends : AddGroupMember(a, g, b) \/ RemoveGroupMember(a, g, b)
      PROVE  built' = Projection(mem')
  BY <1>3, <1>6 DEF AddGroup, UpdateGroup, DeleteGroup, SetGroupEnabled,
                    AddGroupMember, RemoveGroupMember
<1>7. ASSUME NEW p \in Probes, Handle(p) PROVE built' = Projection(mem')
  <2>1. RebuildLocked \/ UNCHANGED <<mem, built, call>>
    BY <1>7 DEF Handle, HandleGone, HandleSuccess, HandleFail
  <2> QED BY <1>1, <1>2, <2>1
<1>8. CASE Restart
  BY <1>8 DEF Restart
<1>9. ASSUME NEW p \in Probes, NEW b \in Backends, Sample(p, b) PROVE built' = Projection(mem')
  BY <1>2, <1>9 DEF Sample
<1>10. ASSUME NEW b \in Probed, Toggle(b) PROVE built' = Projection(mem')
  BY <1>2, <1>10 DEF Toggle
<1>11. CASE UNCHANGED vars
  BY <1>2, <1>11 DEF vars
<1> QED BY <1>4, <1>5, <1>6, <1>7, <1>8, <1>9, <1>10, <1>11 DEF Next

\* The shared rebuild field is current in every interleaving of management
\* calls, health checks and restarts: group.go:515 loses an update, if it does,
\* between the unlock and the atomic store and nowhere else.
THEOREM BuiltIsAlwaysCurrent == Spec => []BuiltIsCurrent
<1>1. Init => BuiltIsCurrent
  BY DEF Init, BuiltIsCurrent
<1> QED BY <1>1, Typing, BuiltNext, PTL DEF Spec

-----------------------------------------------------------------------------
(* One administrator, no reporting health check. *)

\* What the cache, the rebuild field and the administrator's copy hold at each
\* stage of the one call that may be running.
SerialInv ==
  \A a \in Admins :
     /\ call[a].at \in {"idle", "exec", "apply"} => built = Projection(mem) /\ cache = built
     /\ call[a].at = "read" => built = Projection(mem)
     /\ call[a].at = "store" => built = Projection(mem) /\ picked[a] = built

\* With one administrator and no check, a call's own rebuild is the one it stores.
LEMMA SerialNext ==
  ASSUME NEW boss, Admins = {boss}, Probed = {}
  PROVE  TypeOK /\ SerialInv /\ (\A p \in Probes : check[p] = NoCheck) /\ [Next]_vars
           => SerialInv' /\ (\A p \in Probes : check'[p] = NoCheck)
<1> DEFINE Quiet == \A p \in Probes : check[p] = NoCheck
<1> SUFFICES ASSUME TypeOK, SerialInv, Quiet, [Next]_vars PROVE SerialInv' /\ Quiet'
  OBVIOUS
<1>0. call \in [Admins -> Calls \cup {NoCall}] /\ picked \in [Admins -> Caches]
  BY DEF TypeOK
<1> DEFINE at == call[boss].at
<1>a. /\ at \in {"idle", "exec", "apply"} => built = Projection(mem) /\ cache = built
      /\ at = "read" => built = Projection(mem)
      /\ at = "store" => built = Projection(mem) /\ picked[boss] = built
  BY DEF SerialInv
<1>b. ASSUME /\ at' \in {"idle", "exec", "apply"} => built' = Projection(mem') /\ cache' = built'
             /\ at' = "read" => built' = Projection(mem')
             /\ at' = "store" => built' = Projection(mem') /\ picked'[boss] = built'
      PROVE  SerialInv'
  BY <1>b DEF SerialInv, Projection, EnabledGroups, Serving
<1>1. ASSUME NEW b \in Backends,
             AddBackend(boss, b) \/ RemoveBackend(boss, b)
             \/ \E on \in BOOLEAN : UpdateBackend(boss, b, on)
      PROVE  SerialInv' /\ Quiet'
  <2>1. built' = Projection(mem') /\ cache' = built' /\ call' = call /\ check' = check
        /\ call[boss] = NoCall
    BY <1>1 DEF AddBackend, RemoveBackend, UpdateBackend, RebuildLocked
  <2>2. at' = "idle"
    BY <2>1 DEF NoCall
  <2> QED BY <1>b, <2>1, <2>2
<1>2. ASSUME NEW op, NEW g, NEW b, NEW on, NEW stage \in {"exec", "apply"},
             Start(boss, op, g, b, on, stage)
      PROVE  SerialInv' /\ Quiet'
  <2>1. at = "idle"
    BY <1>2 DEF Start, NoCall
  <2>2. at' = stage
    BY <1>0, <1>2 DEF Start
  <2> QED BY <1>a, <1>b, <1>2, <2>1, <2>2 DEF Start
<1>3. ASSUME NEW g \in Groups,
             \/ AddGroup(boss, g) \/ UpdateGroup(boss, g) \/ DeleteGroup(boss, g)
             \/ \E on \in BOOLEAN : SetGroupEnabled(boss, g, on)
             \/ \E b \in Backends : AddGroupMember(boss, g, b) \/ RemoveGroupMember(boss, g, b)
      PROVE  SerialInv' /\ Quiet'
  BY <1>2, <1>3 DEF AddGroup, UpdateGroup, DeleteGroup, SetGroupEnabled,
                    AddGroupMember, RemoveGroupMember
<1>4. CASE InsertGroupMember(boss)
  <2>1. at' = "apply" /\ at = "exec"
    BY <1>0, <1>4 DEF InsertGroupMember
  <2> QED BY <1>a, <1>b, <1>4, <2>1 DEF InsertGroupMember
<1>5. CASE Apply(boss)
  <2>1. at' = "build"
    BY <1>0, <1>5 DEF Apply
  <2> QED BY <1>b, <1>5, <2>1 DEF Apply
<1>6. CASE Build(boss)
  <2>1. at' = "read"
    BY <1>0, <1>6 DEF Build
  <2> QED BY <1>b, <1>6, <2>1 DEF Build
<1>7. CASE Read(boss)
  <2>1. at' = "store" /\ at = "read" /\ picked'[boss] = built
    BY <1>0, <1>7 DEF Read
  <2> QED BY <1>a, <1>b, <1>7, <2>1 DEF Read
<1>8. CASE Store(boss)
  <2>1. at' = "idle" /\ at = "store"
    BY <1>0, <1>8 DEF Store, NoCall
  <2> QED BY <1>a, <1>b, <1>8, <2>1 DEF Store
<1>9. ASSUME NEW p \in Probes, Handle(p) PROVE FALSE
  BY <1>9 DEF Handle, HandleGone, HandleSuccess, HandleFail
<1>10. ASSUME NEW p \in Probes, NEW b \in Backends, Sample(p, b) PROVE FALSE
  BY <1>10 DEF Sample
<1>11. CASE Restart
  <2>1. at' = "idle"
    BY <1>11 DEF Restart, NoCall
  <2>2. built' = Projection(mem') /\ cache' = built' /\ Quiet'
    BY <1>11 DEF Restart
  <2> QED BY <1>b, <2>1, <2>2
<1>12. CASE UNCHANGED vars
  BY <1>a, <1>b, <1>12 DEF vars
<1> QED
  BY <1>1, <1>3, <1>4, <1>5, <1>6, <1>7, <1>8, <1>9, <1>10, <1>11, <1>12
     DEF Next, AdminStep

\* With a current cache the fast path offers what the slow path offers.
LEMMA CurrentRoutes ==
  ASSUME cache = Projection(mem), NEW g \in Groups, NEW tls \in BOOLEAN
  PROVE  RouteFast(g, tls) = RouteSlow(g, tls)
<1>1. CASE g \in EnabledGroups(mem)
  <2>1. Members(cache.avail, g) = Members(mem.members, g) \cap Serving(mem)
    BY <1>1 DEF Members, Projection, Serving
  <2> QED BY <1>1, <2>1 DEF RouteFast, RouteSlow
<1>2. CASE g \notin EnabledGroups(mem)
  <2>1. g \notin cache.groups
    BY <1>2 DEF Projection
  <2> QED BY <2>1 DEF RouteFast
<1> QED BY <1>1, <1>2

\* When calls come one at a time and no check reports, every request follows
\* memory as soon as the call has returned: the lock-free cache adds nothing and
\* hides nothing.
THEOREM SerialRoutesFollowMemory ==
  ASSUME NEW boss, Admins = {boss}, Probed = {}
  PROVE  Spec => []RoutesFollowMemory
<1> DEFINE Quiet == \A p \in Probes : check[p] = NoCheck
<1>1. Init => SerialInv /\ Quiet
  BY DEF Init, SerialInv, NoCall
<1>2. TypeOK /\ SerialInv /\ Quiet /\ [Next]_vars => (SerialInv /\ Quiet)'
  BY SerialNext
<1>3. SerialInv => RoutesFollowMemory
  BY CurrentRoutes DEF SerialInv, RoutesFollowMemory, NoCallRuns, NoCall
<1> QED BY <1>1, <1>2, <1>3, Typing, PTL DEF Spec

-----------------------------------------------------------------------------
(* The promise of RoutePromise, kept by calls that come one at a time.        *)

\* Requests are offered backends and nothing else.
LEMMA RoutesType ==
  Wanted \in [Groups \X BOOLEAN -> SUBSET Backends]
  /\ Offered \in [Groups \X BOOLEAN -> SUBSET Backends]
<1>1. \A g \in Groups, tls \in BOOLEAN : RouteSlow(g, tls) \in SUBSET Backends
  BY DEF RouteSlow, ForProtocol, Members
<1>2. \A g \in Groups, tls \in BOOLEAN : RouteFast(g, tls) \in SUBSET Backends
  BY <1>1 DEF RouteFast, ForProtocol, Members
<1> QED BY <1>1, <1>2 DEF Wanted, Offered

\* With a current cache what is offered is what is wanted.
LEMMA CurrentOffer == cache = Projection(mem) => Offered = Wanted
<1> SUFFICES ASSUME cache = Projection(mem) PROVE Offered = Wanted
  OBVIOUS
<1>1. \A r \in Groups \X BOOLEAN : RouteFast(r[1], r[2]) = RouteSlow(r[1], r[2])
  BY CurrentRoutes
<1> QED BY <1>1 DEF Offered, Wanted

\* A step that leaves the cache as it is: a request that found its answer there
\* finds the same one again, and any other asks memory.
LEMMA SameCacheOffer ==
  ASSUME cache' = cache
  PROVE  \A r \in Groups \X BOOLEAN : Offered'[r] \in {Offered[r], Wanted'[r]}
<1> SUFFICES ASSUME NEW g \in Groups, NEW tls \in BOOLEAN
             PROVE  RouteFast(g, tls)' \in {RouteFast(g, tls), RouteSlow(g, tls)'}
  BY DEF Offered, Wanted
<1>1. CASE g \in cache.groups /\ Members(cache.avail, g) # {}
  BY <1>1 DEF RouteFast, Members, ForProtocol
<1>2. CASE ~(g \in cache.groups /\ Members(cache.avail, g) # {})
  BY <1>2 DEF RouteFast, Members
<1> QED BY <1>1, <1>2

\* Steps that touch neither memory nor the cache change no request's answer.
LEMMA SameRoutes ==
  ASSUME mem' = mem, cache' = cache
  PROVE  Wanted' = Wanted /\ Offered' = Offered
BY DEF Wanted, Offered, RouteFast, RouteSlow, Members, ForProtocol, EnabledGroups, Serving

\* The same of the state after a step.
LEMMA RoutesAfter ==
  /\ (Wanted \in [Groups \X BOOLEAN -> SUBSET Backends])'
  /\ (Offered \in [Groups \X BOOLEAN -> SUBSET Backends])'
  /\ (cache = Projection(mem) => Offered = Wanted)'
BY RoutesType, CurrentOffer, PTL

\* A step that leaves a current cache settles, whatever it was in the middle of.
LEMMA SettledStep ==
  ASSUME cache' = Projection(mem)'
  PROVE  Promise!Next
BY RoutesAfter DEF Promise!Next, Promise!Settle, Promise!Routes

\* Each step of the serial specification settles, starts a change, or is not
\* noticed by any request.
LEMMA PromiseNext ==
  ASSUME NEW boss, Admins = {boss}, Probed = {}, TypeOK, SerialInv,
         \A p \in Probes : check[p] = NoCheck, [Next]_vars
  PROVE  [Promise!Next]_Promise!vars
<1>a. SerialInv'
  BY SerialNext
<1>1. CASE mem' = mem /\ cache' = cache
  BY <1>1, SameRoutes DEF Promise!vars
<1>2. CASE cache' = Projection(mem)'
  BY <1>2, SettledStep
<1>3. CASE Apply(boss)
  <2>1. cache = Projection(mem) /\ cache' = cache
    BY <1>3 DEF Apply, SerialInv
  <2>2. Offered = Wanted
    BY <2>1, CurrentOffer
  <2>3. /\ Wanted' \in [Groups \X BOOLEAN -> SUBSET Backends]
        /\ Offered' \in [Groups \X BOOLEAN -> SUBSET Backends]
    BY RoutesAfter
  <2> QED
    BY <2>1, <2>2, <2>3, SameCacheOffer
       DEF Promise!Next, Promise!Change, Promise!Routes
<1>4. CASE Store(boss)
  <2>1. cache' = Projection(mem) /\ mem' = mem
    BY <1>4 DEF Store, SerialInv
  <2> QED BY <1>2, <2>1 DEF Projection, EnabledGroups, Serving
<1>5. CASE Restart
  BY <1>2, <1>5 DEF Restart
<1>6. CASE \E b \in Backends :
              AddBackend(boss, b) \/ RemoveBackend(boss, b)
              \/ \E on \in BOOLEAN : UpdateBackend(boss, b, on)
  BY <1>2, <1>6 DEF AddBackend, RemoveBackend, UpdateBackend, RebuildLocked
<1>7. ASSUME NEW p \in Probes, Handle(p) PROVE FALSE
  BY <1>7 DEF Handle, HandleGone, HandleSuccess, HandleFail
<1> QED
  BY <1>1, <1>3, <1>4, <1>5, <1>6, <1>7
     DEF Next, AdminStep, Start, AddGroup, UpdateGroup, DeleteGroup, SetGroupEnabled,
         AddGroupMember, RemoveGroupMember, InsertGroupMember, Build, Read, Sample, Toggle, vars

\* The manager with its tables, memory and cache implements the promise that each
\* request is offered what is wanted, or what was wanted before the change that is
\* on its way, as long as management calls do not overlap and no check reports.
THEOREM SerialKeepsPromise ==
  ASSUME NEW boss, Admins = {boss}, Probed = {}
  PROVE  Spec => KeepsPromise
<1> DEFINE Quiet == \A p \in Probes : check[p] = NoCheck
<1>1. Init => SerialInv /\ Quiet
  BY DEF Init, SerialInv, NoCall
<1>2. TypeOK /\ SerialInv /\ Quiet /\ [Next]_vars => (SerialInv /\ Quiet)'
  BY SerialNext
<1>3. Init => Promise!Init
  <2> SUFFICES ASSUME Init PROVE Promise!Init
    OBVIOUS
  <2>1. cache = Projection(mem)
    BY DEF Init
  <2> QED BY <2>1, CurrentOffer, RoutesType DEF Promise!Init, Promise!Routes
<1>4. TypeOK /\ SerialInv /\ Quiet /\ [Next]_vars => [Promise!Next]_Promise!vars
  BY PromiseNext
<1> QED BY <1>1, <1>2, <1>3, <1>4, Typing, PTL DEF Spec, KeepsPromise, Promise!Spec

-----------------------------------------------------------------------------
(* What a restart would load, with one administrator.                         *)

\* Tables and memory say the same of backends and groups, and of the members
\* among the backends there are: a row of one that was removed may be left.
Agree(t, m) ==
  /\ t.backends = m.backends /\ t.enabled = m.enabled
  /\ t.groups = m.groups /\ t.groupsOn = m.groupsOn
  /\ \A gb \in Pairs : gb[2] \in t.backends => (gb \in t.members <=> gb \in m.members)

\* Backends and members have ids that were issued, so that a new backend meets
\* no row that was left by a removed one.
OnlyIssued ==
  /\ db.backends \subseteq used.backends
  /\ \A gb \in Pairs : gb \in db.members \cup mem.members => gb[2] \in used.backends
  /\ \A a \in Admins :
       call[a].at \in {"exec", "apply"} /\ call[a].op = "AddGroupMember" => call[a].b \in used.backends

\* A group call that has run its statement owes memory the same change.
TablesAgree ==
  \A a \in Admins :
    /\ call[a].at # "apply" => Agree(db, mem)
    /\ call[a].at = "apply" => Agree(db, Applied(mem, call[a]))

\* Loading gives what the table holds.
LEMMA LoadedAgrees ==
  ASSUME NEW t \in Tables
  PROVE  Agree(t, Loaded(t))
BY DEF Agree, Loaded

\* The fields a group call changes, whatever the health of backends.
LEMMA AppliedFields ==
  ASSUME NEW m \in Memory, NEW n \in Memory, NEW c \in Calls, NEW t \in Tables,
         n.backends = m.backends, n.enabled = m.enabled, n.groups = m.groups,
         n.groupsOn = m.groupsOn, n.members = m.members, Agree(t, Applied(m, c))
  PROVE  Agree(t, Applied(n, c))
<1>1. c.op \in GroupOps \cup MemberOps
  BY DEF Calls, GroupCalls, MemberCalls, InsertCalls, MemberOps
<1>2. CASE c.op = "AddGroup"
  BY <1>2 DEF Applied, Memory, Agree
<1>3. CASE c.op = "SetGroupEnabled"
  BY <1>3 DEF Applied, Memory, Agree
<1>4. CASE c.op = "DeleteGroup"
  <2> DEFINE gone == {c.g} \X Backends
  <2>1. /\ Applied(m, c) = [m EXCEPT !.groups = @ \ {c.g}, !.groupsOn = @ \ {c.g}, !.members = @ \ gone]
        /\ Applied(n, c) = [n EXCEPT !.groups = @ \ {c.g}, !.groupsOn = @ \ {c.g}, !.members = @ \ gone]
    BY <1>4 DEF Applied
  <2> HIDE DEF gone
  <2> QED BY <2>1 DEF Memory, Agree
<1>5. CASE c.op = "AddGroupMember"
  <2> DEFINE new == {<<c.g, c.b>>}
  <2>1. /\ Applied(m, c) = [m EXCEPT !.members = @ \cup new]
        /\ Applied(n, c) = [n EXCEPT !.members = @ \cup new]
    BY <1>5 DEF Applied
  <2> HIDE DEF new
  <2> QED BY <2>1 DEF Memory, Agree
<1>6. CASE c.op = "RemoveGroupMember"
  <2> DEFINE gone == {<<c.g, c.b>>}
  <2>1. /\ Applied(m, c) = [m EXCEPT !.members = @ \ gone]
        /\ Applied(n, c) = [n EXCEPT !.members = @ \ gone]
    BY <1>6 DEF Applied
  <2> HIDE DEF gone
  <2> QED BY <2>1 DEF Memory, Agree
<1>7. CASE c.op = "UpdateGroup"
  BY <1>7 DEF Applied, Agree
<1> QED BY <1>1, <1>2, <1>3, <1>4, <1>5, <1>6, <1>7 DEF GroupOps, MemberOps

\* The memberships of a backend.
LEMMA PairsOf ==
  ASSUME NEW gb \in Pairs, NEW b
  PROVE  gb \in Groups \X {b} <=> gb[2] = b
BY DEF Pairs

\* What a call on a backend does to tables and memory at once.
LEMMA BackendAgrees ==
  ASSUME TypeOK, OnlyIssued, Agree(db, mem), NEW a \in Admins, NEW b \in Backends,
         AddBackend(a, b) \/ RemoveBackend(a, b)
         \/ \E on \in BOOLEAN : UpdateBackend(a, b, on)
  PROVE  Agree(db, mem)' /\ OnlyIssued'
<1>0. db \in Tables /\ mem \in Memory /\ used \in [backends : SUBSET Backends, groups : SUBSET Groups]
      /\ call' = call
  BY DEF TypeOK, AddBackend, RemoveBackend, UpdateBackend
<1>1. CASE AddBackend(a, b)
  <2>1. /\ b \notin used.backends
        /\ used' = [used EXCEPT !.backends = @ \cup {b}]
        /\ db' = [db EXCEPT !.backends = @ \cup {b}, !.enabled = @ \cup {b}]
        /\ mem' = [mem EXCEPT !.backends = @ \cup {b}, !.enabled = @ \cup {b},
                              !.healthy = @ \cup {b}]
    BY <1>1 DEF AddBackend
  <2>2. /\ db'.backends = db.backends \cup {b} /\ db'.enabled = db.enabled \cup {b}
        /\ db'.groups = db.groups /\ db'.groupsOn = db.groupsOn /\ db'.members = db.members
        /\ mem'.backends = mem.backends \cup {b} /\ mem'.enabled = mem.enabled \cup {b}
        /\ mem'.groups = mem.groups /\ mem'.groupsOn = mem.groupsOn /\ mem'.members = mem.members
        /\ used'.backends = used.backends \cup {b}
    BY <1>0, <2>1 DEF Tables, Memory
  <2>3. \A gb \in Pairs : gb \in db.members \cup mem.members => gb[2] # b
    BY <2>1 DEF OnlyIssued
  <2>4. Agree(db, mem)'
    BY <2>2, <2>3 DEF Agree
  <2> QED BY <1>0, <2>2, <2>4 DEF OnlyIssued
<1>2. CASE RemoveBackend(a, b)
  <2> DEFINE gone == Groups \X {b}
  <2>1. PICK cleaned \in BOOLEAN :
          db' = [db EXCEPT !.backends = @ \ {b}, !.enabled = @ \ {b},
                           !.members = IF cleaned THEN @ \ gone ELSE @]
    BY <1>2 DEF RemoveBackend
  <2>2. /\ mem' = [mem EXCEPT !.backends = @ \ {b}, !.enabled = @ \ {b},
                              !.healthy = @ \ {b}, !.members = @ \ gone]
        /\ used' = used
    BY <1>2 DEF RemoveBackend
  <2>3. \A gb \in Pairs : gb \in gone <=> gb[2] = b
    BY PairsOf
  <2> HIDE DEF gone
  <2>4. /\ db'.backends = db.backends \ {b} /\ db'.enabled = db.enabled \ {b}
        /\ db'.groups = db.groups /\ db'.groupsOn = db.groupsOn
        /\ db'.members = IF cleaned THEN db.members \ gone ELSE db.members
    BY <1>0, <2>1 DEF Tables
  <2>5. /\ mem'.backends = mem.backends \ {b} /\ mem'.enabled = mem.enabled \ {b}
        /\ mem'.groups = mem.groups /\ mem'.groupsOn = mem.groupsOn
        /\ mem'.members = mem.members \ gone
    BY <1>0, <2>2 DEF Memory
  <2>6. \A gb \in Pairs : gb[2] \in db'.backends => (gb \in db'.members <=> gb \in mem'.members)
    BY <2>3, <2>4, <2>5 DEF Agree
  <2>7. Agree(db, mem)'
    BY <2>4, <2>5, <2>6 DEF Agree
  <2> QED BY <1>0, <2>2, <2>4, <2>5, <2>7 DEF OnlyIssued
<1>3. CASE \E on \in BOOLEAN : UpdateBackend(a, b, on)
  <2>1. PICK on \in BOOLEAN : UpdateBackend(a, b, on)
    BY <1>3
  <2>2. /\ db' = [db EXCEPT !.enabled = (@ \ {b}) \cup (IF on THEN {b} \cap db.backends ELSE {})]
        /\ mem' = [mem EXCEPT !.enabled = (@ \ {b}) \cup (IF on THEN {b} \cap mem.backends ELSE {})]
        /\ used' = used
    BY <2>1 DEF UpdateBackend
  <2>3. /\ db'.backends = db.backends /\ db'.groups = db.groups /\ db'.groupsOn = db.groupsOn
        /\ db'.members = db.members
        /\ db'.enabled = (db.enabled \ {b}) \cup (IF on THEN {b} \cap db.backends ELSE {})
        /\ mem'.backends = mem.backends /\ mem'.groups = mem.groups /\ mem'.groupsOn = mem.groupsOn
        /\ mem'.members = mem.members
        /\ mem'.enabled = (mem.enabled \ {b}) \cup (IF on THEN {b} \cap mem.backends ELSE {})
    BY <1>0, <2>2 DEF Tables, Memory
  <2>4. Agree(db, mem)'
    BY <2>3 DEF Agree
  <2> QED BY <1>0, <2>2, <2>3, <2>4 DEF OnlyIssued
<1> QED BY <1>1, <1>2, <1>3

\* The statement of a group call puts the tables where memory is going.
LEMMA StatementAgrees ==
  ASSUME TypeOK, Agree(db, mem), NEW a \in Admins, NEW g \in Groups,
         \/ AddGroup(a, g) \/ UpdateGroup(a, g) \/ DeleteGroup(a, g)
         \/ \E on \in BOOLEAN : SetGroupEnabled(a, g, on)
         \/ \E b \in Backends : RemoveGroupMember(a, g, b)
  PROVE  /\ call'[a].at = "apply" /\ call'[a].op # "AddGroupMember"
         /\ Agree(db', Applied(mem, call'[a]))
         /\ db'.backends = db.backends /\ db'.members \subseteq db.members
         /\ used'.backends = used.backends
<1>0. db \in Tables /\ mem \in Memory /\ call \in [Admins -> Calls \cup {NoCall}]
      /\ used \in [backends : SUBSET Backends, groups : SUBSET Groups]
  BY DEF TypeOK
<1> DEFINE c == call'[a]
<1>1. CASE AddGroup(a, g)
  <2>1. c = [at |-> "apply", op |-> "AddGroup", g |-> g, b |-> NoBackend, on |-> TRUE]
    BY <1>0, <1>1 DEF AddGroup, Start
  <2>2. /\ db' = [db EXCEPT !.groups = @ \cup {g}, !.groupsOn = @ \cup {g}]
        /\ used' = [used EXCEPT !.groups = @ \cup {g}]
    BY <1>1 DEF AddGroup
  <2>3. Applied(mem, c) = [mem EXCEPT !.groups = @ \cup {g}, !.groupsOn = @ \cup {g}]
    BY <2>1 DEF Applied
  <2>4. Agree(db', Applied(mem, c))
    BY <1>0, <2>2, <2>3 DEF Agree, Tables, Memory
  <2> QED BY <1>0, <2>1, <2>2, <2>4 DEF Tables
<1>2. CASE UpdateGroup(a, g)
  <2>1. c = [at |-> "apply", op |-> "UpdateGroup", g |-> g, b |-> NoBackend, on |-> TRUE]
    BY <1>0, <1>2 DEF UpdateGroup, Start
  <2>2. db' = db /\ used' = used
    BY <1>2 DEF UpdateGroup, tables
  <2>3. Applied(mem, c) = mem
    BY <2>1 DEF Applied
  <2> QED BY <2>1, <2>2, <2>3
<1>3. CASE DeleteGroup(a, g)
  <2> DEFINE gone == {g} \X Backends
  <2>1. c = [at |-> "apply", op |-> "DeleteGroup", g |-> g, b |-> NoBackend, on |-> TRUE]
    BY <1>0, <1>3 DEF DeleteGroup, Start
  <2>2. db' = [db EXCEPT !.groups = @ \ {g}, !.groupsOn = @ \ {g}, !.members = @ \ gone]
        /\ used' = used
    BY <1>3 DEF DeleteGroup
  <2>3. Applied(mem, c) = [mem EXCEPT !.groups = @ \ {g}, !.groupsOn = @ \ {g}, !.members = @ \ gone]
    BY <2>1 DEF Applied
  <2> HIDE DEF gone
  <2>4. Agree(db', Applied(mem, c))
    BY <1>0, <2>2, <2>3 DEF Agree, Tables, Memory
  <2> QED BY <1>0, <2>1, <2>2, <2>4 DEF Tables
<1>4. CASE \E on \in BOOLEAN : SetGroupEnabled(a, g, on)
  <2>1. PICK on \in BOOLEAN : SetGroupEnabled(a, g, on)
    BY <1>4
  <2>2. c = [at |-> "apply", op |-> "SetGroupEnabled", g |-> g, b |-> NoBackend, on |-> on]
    BY <1>0, <2>1 DEF SetGroupEnabled, Start
  <2>3. db' = [db EXCEPT !.groupsOn = IF on THEN @ \cup {g} ELSE @ \ {g}]
        /\ used' = used /\ g \in db.groups
    BY <2>1 DEF SetGroupEnabled
  <2>4. Applied(mem, c) = [mem EXCEPT !.groupsOn = IF on THEN @ \cup ({g} \cap mem.groups) ELSE @ \ {g}]
    BY <2>2 DEF Applied
  <2>5. Agree(db', Applied(mem, c))
    BY <1>0, <2>3, <2>4 DEF Agree, Tables, Memory
  <2> QED BY <1>0, <2>2, <2>3, <2>5 DEF Tables
<1>5. CASE \E b \in Backends : RemoveGroupMember(a, g, b)
  <2>1. PICK b \in Backends : RemoveGroupMember(a, g, b)
    BY <1>5
  <2> DEFINE gone == {<<g, b>>}
  <2>2. c = [at |-> "apply", op |-> "RemoveGroupMember", g |-> g, b |-> b, on |-> TRUE]
    BY <1>0, <2>1 DEF RemoveGroupMember, Start
  <2>3. db' = [db EXCEPT !.members = @ \ gone] /\ used' = used
    BY <2>1 DEF RemoveGroupMember
  <2>4. Applied(mem, c) = [mem EXCEPT !.members = @ \ gone]
    BY <2>2 DEF Applied
  <2> HIDE DEF gone
  <2>5. Agree(db', Applied(mem, c))
    BY <1>0, <2>3, <2>4 DEF Agree, Tables, Memory
  <2> QED BY <1>0, <2>2, <2>3, <2>5 DEF Tables
<1> QED BY <1>1, <1>2, <1>3, <1>4, <1>5

\* With one administrator, whatever checks report, tables and memory part only
\* within a group call.
LEMMA AgreeNext ==
  ASSUME NEW boss, Admins = {boss}, TypeOK, OnlyIssued, TablesAgree, [Next]_vars
  PROVE  OnlyIssued' /\ TablesAgree'
<1>0. /\ db \in Tables /\ mem \in Memory /\ call \in [Admins -> Calls \cup {NoCall}]
      /\ used \in [backends : SUBSET Backends, groups : SUBSET Groups] /\ boss \in Admins
  BY DEF TypeOK
<1> DEFINE c == call[boss]
<1>a. /\ c.at # "apply" => Agree(db, mem)
      /\ c.at = "apply" => Agree(db, Applied(mem, c))
  BY DEF TablesAgree
<1>b. ASSUME c'.at # "apply", Agree(db', mem') PROVE TablesAgree'
  BY <1>b DEF TablesAgree, Agree
<1>c. ASSUME c'.at = "apply", Agree(db', Applied(mem', c')) PROVE TablesAgree'
  BY <1>c DEF TablesAgree, Agree, Applied
<1>1. ASSUME NEW b \in Backends,
             AddBackend(boss, b) \/ RemoveBackend(boss, b)
             \/ \E on \in BOOLEAN : UpdateBackend(boss, b, on)
      PROVE  OnlyIssued' /\ TablesAgree'
  <2>1. call' = call /\ c = NoCall
    BY <1>1 DEF AddBackend, RemoveBackend, UpdateBackend
  <2>2. c.at # "apply" /\ c'.at # "apply"
    BY <2>1 DEF NoCall
  <2> QED BY <1>0, <1>1, <1>a, <1>b, <2>2, BackendAgrees DEF Agree
<1>2. ASSUME NEW g \in Groups,
             \/ AddGroup(boss, g) \/ UpdateGroup(boss, g) \/ DeleteGroup(boss, g)
             \/ \E on \in BOOLEAN : SetGroupEnabled(boss, g, on)
             \/ \E b \in Backends : RemoveGroupMember(boss, g, b)
      PROVE  OnlyIssued' /\ TablesAgree'
  <2>1. c = NoCall /\ mem' = mem
    BY <1>2 DEF AddGroup, UpdateGroup, DeleteGroup, SetGroupEnabled, RemoveGroupMember, Start
  <2>2. Agree(db, mem)
    BY <1>a, <2>1 DEF NoCall
  <2>3. /\ c'.at = "apply" /\ c'.op # "AddGroupMember"
        /\ Agree(db', Applied(mem, c'))
        /\ db'.backends = db.backends /\ db'.members \subseteq db.members
        /\ used'.backends = used.backends
    BY <1>0, <1>2, <2>2, StatementAgrees
  <2> QED BY <1>c, <2>1, <2>3 DEF OnlyIssued
<1>3. ASSUME NEW g \in Groups, NEW b \in Backends, AddGroupMember(boss, g, b)
      PROVE  OnlyIssued' /\ TablesAgree'
  <2>1. c = NoCall /\ mem' = mem /\ db' = db /\ used' = used /\ b \in mem.backends
    BY <1>3 DEF AddGroupMember, Start, tables
  <2>2. Agree(db, mem)
    BY <1>a, <2>1 DEF NoCall
  <2>3. c' = [at |-> "exec", op |-> "AddGroupMember", g |-> g, b |-> b, on |-> TRUE]
    BY <1>0, <1>3 DEF AddGroupMember, Start
  <2>4. c'.b \in used.backends
    BY <2>1, <2>2, <2>3 DEF Agree, OnlyIssued
  <2> QED BY <1>b, <2>1, <2>2, <2>3, <2>4 DEF OnlyIssued
<1>4. CASE InsertGroupMember(boss)
  <2> DEFINE new == {<<c.g, c.b>>}
  <2>1. /\ c.at = "exec" /\ mem' = mem /\ used' = used
        /\ db' = [db EXCEPT !.members = @ \cup new]
        /\ c' = [c EXCEPT !.at = "apply"]
    BY <1>0, <1>4 DEF InsertGroupMember
  <2>2. c \in InsertCalls
    <3>1. c \in Calls
      BY <1>0, <2>1 DEF NoCall
    <3>2. c \notin GroupCalls /\ c \notin MemberCalls
      BY <2>1 DEF GroupCalls, MemberCalls, Stages
    <3> QED BY <3>1, <3>2 DEF Calls
  <2>3. c'.at = "apply" /\ c'.op = "AddGroupMember" /\ c'.g = c.g /\ c'.b = c.b /\ c.op = "AddGroupMember"
    BY <2>1, <2>2 DEF InsertCalls
  <2>4. Applied(mem, c') = [mem EXCEPT !.members = @ \cup new]
    BY <2>3 DEF Applied
  <2>5. Agree(db, mem) /\ c.b \in used.backends
    BY <1>0, <1>a, <2>1, <2>3 DEF OnlyIssued
  <2>6. \A gb \in Pairs : gb \in new => gb[2] = c.b
    OBVIOUS
  <2> HIDE DEF new
  <2>7. Agree(db', Applied(mem, c'))
    BY <1>0, <2>1, <2>4, <2>5 DEF Agree, Tables, Memory
  <2>8. db'.backends = db.backends /\ db'.members = db.members \cup new
    BY <1>0, <2>1 DEF Tables
  <2> QED BY <1>0, <1>c, <2>1, <2>3, <2>5, <2>6, <2>7, <2>8 DEF OnlyIssued
<1>5. CASE Apply(boss)
  <2>1. /\ c.at = "apply" /\ mem' = Applied(mem, c) /\ db' = db /\ used' = used
        /\ c'.at = "build"
    BY <1>0, <1>5 DEF Apply, tables
  <2>2. Agree(db', mem')
    BY <1>a, <2>1
  <2>3. c \in GroupCalls \cup MemberCalls
    <3>1. c \in Calls
      BY <1>0, <2>1 DEF NoCall
    <3>2. c \notin InsertCalls
      BY <2>1 DEF InsertCalls
    <3> QED BY <3>1, <3>2 DEF Calls
  <2>4. \A gb \in Pairs : gb \in mem'.members => gb[2] \in used.backends
    <3>1. CASE c.op = "AddGroupMember"
      <4> DEFINE new == {<<c.g, c.b>>}
      <4>1. mem' = [mem EXCEPT !.members = @ \cup new]
        BY <2>1, <3>1 DEF Applied
      <4>2. c.b \in used.backends
        BY <1>0, <2>1, <3>1 DEF OnlyIssued
      <4>3. \A gb \in Pairs : gb \in new => gb[2] = c.b
        OBVIOUS
      <4> HIDE DEF new
      <4> QED BY <1>0, <4>1, <4>2, <4>3 DEF OnlyIssued, Memory
    <3>2. CASE c.op # "AddGroupMember"
      <4>1. mem'.members \subseteq mem.members
        BY <1>0, <2>1, <3>2 DEF Applied, Memory
      <4> QED BY <4>1 DEF OnlyIssued
    <3> QED BY <3>1, <3>2
  <2> QED BY <1>b, <2>1, <2>2, <2>4 DEF OnlyIssued
<1>6. CASE Build(boss) \/ Read(boss) \/ Store(boss)
  <2>1. mem' = mem /\ db' = db /\ used' = used /\ c.at # "apply" /\ c'.at \notin {"exec", "apply"}
    <3>1. CASE Build(boss)
      BY <1>0, <3>1 DEF Build, tables
    <3>2. CASE Read(boss)
      BY <1>0, <3>2 DEF Read, tables
    <3>3. CASE Store(boss)
      BY <1>0, <3>3 DEF Store, tables, NoCall
    <3> QED BY <1>6, <3>1, <3>2, <3>3
  <2> QED BY <1>a, <1>b, <2>1 DEF OnlyIssued
<1>7. ASSUME UNCHANGED <<tables, call>>, mem' \in Memory,
             mem'.backends = mem.backends, mem'.enabled = mem.enabled, mem'.groups = mem.groups,
             mem'.groupsOn = mem.groupsOn, mem'.members = mem.members
      PROVE  OnlyIssued' /\ TablesAgree'
  <2>1. db' = db /\ used' = used /\ call' = call
    BY <1>7 DEF tables
  <2>2. CASE c.at # "apply"
    BY <1>a, <1>b, <1>7, <2>1, <2>2 DEF Agree, OnlyIssued
  <2>3. CASE c.at = "apply"
    <3>1. c \in Calls
      BY <1>0, <2>3 DEF NoCall
    <3>2. Agree(db, Applied(mem', c))
      BY <1>0, <1>7, <1>a, <2>3, <3>1, AppliedFields
    <3> QED BY <1>7, <1>c, <2>1, <2>3, <3>2 DEF OnlyIssued
  <2> QED BY <2>2, <2>3
<1>8. ASSUME NEW p \in Probes, Handle(p) PROVE OnlyIssued' /\ TablesAgree'
  <2>1. UNCHANGED <<tables, call>>
    BY <1>8 DEF Handle, HandleGone, HandleSuccess, HandleFail
  <2>2. mem' = mem \/ \E b : mem' = [mem EXCEPT !.healthy = @ \cup {b}] \/ mem' = [mem EXCEPT !.healthy = @ \ {b}]
    BY <1>8 DEF Handle, HandleGone, HandleSuccess, HandleFail
  <2>3. mem' \in Memory
    BY <1>8, TypeNext DEF TypeOK, Next
  <2> QED BY <1>0, <1>7, <2>1, <2>2, <2>3 DEF Memory
<1>9. CASE \/ \E p \in Probes, b \in Backends : Sample(p, b)
           \/ \E b \in Probed : Toggle(b)
           \/ UNCHANGED vars
  BY <1>0, <1>7, <1>9 DEF Sample, Toggle, vars, tables
<1>10. CASE Restart
  <2>1. mem' = Loaded(db) /\ db' = db /\ used' = used /\ c' = NoCall
    BY <1>0, <1>10 DEF Restart, tables
  <2>2. Agree(db', mem') /\ mem'.members = db.members
    BY <1>0, <2>1, LoadedAgrees DEF Loaded
  <2> QED BY <1>b, <2>1, <2>2 DEF OnlyIssued, NoCall
<1> QED
  BY <1>1, <1>2, <1>3, <1>4, <1>5, <1>6, <1>8, <1>9, <1>10 DEF Next, AdminStep

\* group.go and manager.go write table and memory in two steps: once the calls of
\* one administrator have returned, a restart would route as memory does, whatever
\* checks report, and although memberships of a removed backend may be left over.
THEOREM SerialRestartKeepsRoutes ==
  ASSUME NEW boss, Admins = {boss}
  PROVE  Spec => []RestartKeepsRoutes
<1>1. Init => OnlyIssued /\ TablesAgree
  <2> SUFFICES ASSUME Init PROVE OnlyIssued /\ TablesAgree
    OBVIOUS
  <2>1. mem = Loaded(db) /\ db \in Tables /\ used.backends = db.backends /\ call[boss].at = "idle"
        /\ db.members \subseteq db.groups \X db.backends
    BY DEF Init, NoCall
  <2>2. \A gb \in Pairs : gb \in db.members => gb[2] \in db.backends
    BY <2>1
  <2>3. mem.members = db.members
    BY <2>1 DEF Loaded
  <2> QED BY <2>1, <2>2, <2>3, LoadedAgrees DEF OnlyIssued, TablesAgree
<1>2. TypeOK /\ OnlyIssued /\ TablesAgree /\ [Next]_vars => (OnlyIssued /\ TablesAgree)'
  BY AgreeNext
<1>3. TypeOK /\ TablesAgree => RestartKeepsRoutes
  <2> SUFFICES ASSUME TypeOK, TablesAgree, NoCallRuns PROVE RestartKeepsRoutes
    BY DEF RestartKeepsRoutes
  <2>1. db \in Tables /\ mem \in Memory
    BY DEF TypeOK
  <2>2. Agree(db, mem)
    BY DEF NoCallRuns, TablesAgree, NoCall
  <2> DEFINE m == [mem EXCEPT !.healthy = mem.backends]
  <2>3. /\ m.groups = db.groups /\ m.groupsOn = db.groupsOn /\ m.members = mem.members
        /\ m.backends = db.backends /\ m.enabled = db.enabled /\ m.healthy = db.backends
    BY <2>1, <2>2 DEF Memory, Agree
  <2>4. EnabledGroups(Loaded(db)) = EnabledGroups(m) /\ Serving(Loaded(db)) = Serving(m)
    BY <2>3 DEF EnabledGroups, Serving, Loaded
  <2>5. /\ Serving(m) \subseteq db.backends /\ db.members \subseteq Pairs /\ mem.members \subseteq Pairs
        /\ Loaded(db).members = db.members
    BY <2>1, <2>3 DEF Serving, Tables, Memory, Loaded
  <2> HIDE DEF m
  <2>6. Projection(Loaded(db)) = Projection(m)
    <3> DEFINE x == {gb \in db.members : gb[1] \in EnabledGroups(m) /\ gb[2] \in Serving(m)}
               y == {gb \in mem.members : gb[1] \in EnabledGroups(m) /\ gb[2] \in Serving(m)}
    <3>1. x = y
      BY <2>2, <2>5 DEF Agree
    <3> QED BY <2>3, <2>4, <2>5, <3>1 DEF Projection
  <2> QED BY <2>2, <2>6 DEF RestartKeepsRoutes, Agree, m
<1> QED BY <1>1, <1>2, <1>3, Typing, PTL DEF Spec
=============================================================================
