------------------------- MODULE ProxyServers_proofs -------------------------
(* What holds of the listeners for any number of rows, addresses, servers and
   requests under way, whatever statement fails and with SIGHUP at any moment: the
   type invariant, that no listener is lost from sight, and that the entries of
   settled rows match them.                                                     *)
EXTENDS ProxyServers, FiniteSetTheorems, FunctionTheorems, TLAPS

-----------------------------------------------------------------------------
\* The invariant the steps keep. That a new server can be allocated, which types
\* need, follows from no listener being lost.
IInv == TypeOK /\ NoLostListener

Nets == [addr : Addrs, proto : Protos, state : States]

LEMMA UnusedTyped == Unused \in Nets /\ Unused.state = "closed"
  BY ProxyServersAssumption DEF Unused, Nets, Protos, States

\* What a request under way holds.
LEMMA RequestTyped ==
  ASSUME TypeOK, NEW a \in Admins, request[a] # None
  PROVE  /\ request[a] \in Requests /\ request[a].id \in Ids
         /\ request[a].op \in {"add", "write", "update", "delete", "undoAdd", "undoUpdate"}
         /\ request[a].op \in {"add", "update"} => request[a].new \in Configs
         /\ request[a].op \in {"write", "update"} => request[a].old \in Configs \cup {None}
         /\ request[a].op = "undoUpdate" => request[a].old \in Configs
<1>. DEFINE r == request[a]
<1>1. r \in Requests
  BY DEF TypeOK
<1>. HIDE DEF r
<1>. QED
  <2>1. CASE r \in [op : {"add"}, id : Ids, new : Configs]
    BY <2>1, <1>1 DEF r
  <2>2. CASE r \in [op : {"write"}, id : Ids, old : Configs \cup {None}]
    BY <2>2, <1>1 DEF r
  <2>3. CASE r \in [op : {"update"}, id : Ids, new : Configs, old : Configs \cup {None}]
    BY <2>3, <1>1 DEF r
  <2>4. CASE r \in [op : {"delete", "undoAdd"}, id : Ids]
    BY <2>4, <1>1 DEF r
  <2>5. CASE r \in [op : {"undoUpdate"}, id : Ids, old : Configs]
    BY <2>5, <1>1 DEF r
  <2>. QED
    BY <1>1, <2>1, <2>2, <2>3, <2>4, <2>5 DEF Requests

\* Outside a Shutdown some server is unused, whatever has been started: every
\* other one has an entry of its own, and there are fewer entries than servers.
LEMMA SomeSpare ==
  ASSUME TypeOK, NoLostListener, closing = None
  PROVE  Spare # {}
<1>. SUFFICES ASSUME Spare = {}
              PROVE  FALSE
  OBVIOUS
<1>1. \A s \in Servers : \E id \in Ids : servers[id] = s
  BY ProxyServersAssumption DEF Spare, Users, TypeOK, NoLostListener, States
<1>. DEFINE owner == [s \in Servers |-> CHOOSE id \in Ids : servers[id] = s]
<1>2. owner \in [Servers -> Ids] /\ \A s \in Servers : servers[owner[s]] = s
  BY <1>1
<1>. HIDE DEF owner
<1>3. PICK s, t \in Servers : s # t /\ owner[s] = owner[t]
  BY <1>2, FS_PigeonHole, FS_CardinalityType, ProxyServersAssumption
<1>. QED
  BY <1>2, <1>3

\* ReloadAll can give every row a server of its own.
LEMMA OwnServers == \E f : f \in Injection(Ids, Servers)
<1>. DEFINE n == Cardinality(Ids)
            m == Cardinality(Servers)
<1>1. n \in Nat /\ m \in Nat /\ n < m
  BY FS_CardinalityType, ProxyServersAssumption
<1>2. PICK f : f \in Bijection(Ids, 1..n)
  BY FS_CardinalityType, Fun_ExistsBijSymmetric, ProxyServersAssumption DEF ExistsBijection
<1>3. PICK g : g \in Bijection(1..m, Servers)
  BY FS_CardinalityType, ProxyServersAssumption DEF ExistsBijection
<1>. HIDE DEF n, m
<1>4. /\ f \in [Ids -> 1..n]
      /\ \A x, y \in Ids : f[x] = f[y] => x = y
  BY <1>2, Fun_BijectionProperties
<1>5. /\ g \in [1..m -> Servers]
      /\ \A i, j \in 1..m : g[i] = g[j] => i = j
  BY <1>3, Fun_BijectionProperties
<1>6. 1..n \subseteq 1..m
  BY <1>1
<1>. DEFINE h == [id \in Ids |-> g[f[id]]]
<1>7. h \in [Ids -> Servers] /\ \A x, y \in Ids : h[x] = h[y] => x = y
  BY <1>4, <1>5, <1>6
<1>8. h \in Injection(Ids, Servers)
  BY <1>7 DEF Injection, IsInjective
<1>. QED
  BY <1>8

\* The state NewProxyServerManager leaves.
LEMMA InitIInv == Init => IInv
<1>. SUFFICES ASSUME Init
              PROVE  IInv
  OBVIOUS
<1>1. net \in [Servers -> Nets] /\ \A s \in Servers : net[s].state = "closed"
  BY UnusedTyped DEF Init
<1>. QED
  BY <1>1 DEF Init, IInv, TypeOK, NoLostListener, Nets

-----------------------------------------------------------------------------
\* startServerLocked: whether it shares a server or starts one, the entry of the
\* row has it afterwards, and every server that serves keeps an entry unless it
\* was the one this entry had.
LEMMA StartServerKeeps ==
  ASSUME TypeOK, NoLostListener, closing = None,
         NEW id \in Ids, NEW c \in Configs, StartServer(id, c)
  PROVE  /\ servers' \in [Ids -> Servers \cup {None}]
         /\ net' \in [Servers -> [addr : Addrs, proto : Protos, state : States]]
         /\ \A s \in Servers :
              net'[s].state \in {"starting", "listening"} =>
                (\E user \in Ids : servers'[user] = s) \/ s = servers[id]
<1>1. \A s \in Servers :
        net[s].state \in {"starting", "listening"} => \E user \in Ids : servers[user] = s
  BY ProxyServersAssumption DEF NoLostListener, Users
<1>2. CASE Share(id, c)
  <2>1. PICK other \in Ids \ {id} :
               servers' = [servers EXCEPT ![id] = servers[other]] /\ UNCHANGED net
    BY <1>2 DEF Share, Others
  <2>. QED
    BY <1>1, <2>1 DEF TypeOK
<1>3. CASE StartOwn(id, c)
  <2>1. PICK new \in Spare :
          /\ servers' = [servers EXCEPT ![id] = new]
          /\ net' = [net EXCEPT ![new] = [addr |-> c.addr, proto |-> c.proto, state |-> "starting"]]
    BY <1>3 DEF StartOwn
  <2>2. /\ servers' = [servers EXCEPT ![id] = new]
        /\ net' = [net EXCEPT ![new] = [addr |-> c.addr, proto |-> c.proto, state |-> "starting"]]
    BY <2>1
  <2>3. new \in Servers /\ c.addr \in Addrs /\ c.proto \in Protos
    BY <2>1 DEF Spare, Configs
  <2>4. net' \in [Servers -> [addr : Addrs, proto : Protos, state : States]]
    BY <2>2, <2>3 DEF TypeOK, States
  <2>5. servers' \in [Ids -> Servers \cup {None}]
    BY <2>2, <2>3 DEF TypeOK
  <2>6. \A s \in Servers \ {new} :
          net'[s].state \in {"starting", "listening"} =>
            (\E user \in Ids : servers'[user] = s) \/ s = servers[id]
    BY <1>1, <2>2, <2>3 DEF TypeOK
  <2>7. servers'[id] = new
    BY <2>2 DEF TypeOK
  <2>. QED
    BY <2>4, <2>5, <2>6, <2>7
<1>. QED
  BY <1>2, <1>3 DEF StartServer

\* ReloadAll: what it starts has the entry of the row that decides the address.
LEMMA ReloadKeeps ==
  ASSUME IInv, ReloadAll
  PROVE  IInv'
<1>1. PICK on \in {{}, {id \in Ids : Enabled(id)}}, first \in [Addrs -> Ids] :
        LET own == CHOOSE f \in Injection(Ids, Servers) : TRUE
            lead(id) == first[rows[id].addr]
            leads == {lead(id) : id \in on}
            runs(s) == {id \in leads : own[id] = s}
        IN /\ \A id \in on : lead(id) \in on /\ rows[lead(id)].addr = rows[id].addr
           /\ servers' = [id \in Ids |->
                IF id \in on /\ rows[id].proto = rows[lead(id)].proto THEN own[lead(id)] ELSE None]
           /\ net' = [s \in Servers |->
                IF runs(s) = {} THEN Unused
                ELSE LET c == rows[CHOOSE id \in runs(s) : TRUE]
                     IN [addr |-> c.addr, proto |-> c.proto, state |-> "starting"]]
  BY DEF ReloadAll
<1>. DEFINE own == CHOOSE f \in Injection(Ids, Servers) : TRUE
            lead(id) == first[rows[id].addr]
            leads == {lead(id) : id \in on}
            runs(s) == {id \in leads : own[id] = s}
            chosen(s) == CHOOSE id \in runs(s) : TRUE
<1>2. own \in [Ids -> Servers]
  BY OwnServers, Fun_InjectionProperties
<1>3. /\ \A id \in on : lead(id) \in on /\ rows[lead(id)].addr = rows[id].addr
      /\ servers' = [id \in Ids |->
           IF id \in on /\ rows[id].proto = rows[lead(id)].proto THEN own[lead(id)] ELSE None]
      /\ net' = [s \in Servers |->
           IF runs(s) = {} THEN Unused
           ELSE [addr |-> rows[chosen(s)].addr, proto |-> rows[chosen(s)].proto,
                 state |-> "starting"]]
  BY <1>1
<1>. HIDE DEF own
<1>4. \A id \in on : id \in Ids /\ rows[id] \in Configs
  BY DEF Enabled, IInv, TypeOK
<1>5. \A id \in leads : id \in on /\ lead(id) = id
  BY <1>3
<1>6. \A s \in Servers : runs(s) # {} => chosen(s) \in leads /\ own[chosen(s)] = s
  OBVIOUS
<1>. HIDE DEF runs, chosen, leads
<1>7. servers' \in [Ids -> Servers \cup {None}]
  <2>1. \A id \in on : own[lead(id)] \in Servers
    BY <1>2, <1>3, <1>4
  <2>. QED
    BY <1>3, <2>1
<1>8. net' \in [Servers -> [addr : Addrs, proto : Protos, state : States]]
  <2>1. ASSUME NEW s \in Servers
        PROVE  net'[s] \in [addr : Addrs, proto : Protos, state : States]
    <3>1. CASE runs(s) = {}
      BY <1>3, <3>1, UnusedTyped DEF Nets
    <3>2. CASE runs(s) # {}
      <4>1. rows[chosen(s)] \in Configs
        BY <1>4, <1>5, <1>6, <3>2
      <4>. QED
        BY <1>3, <3>2, <4>1 DEF Configs, States
    <3>. QED
      BY <3>1, <3>2
  <2>. QED
    BY <1>3, <2>1
<1>9. \A s \in Servers : net'[s].state \in {"starting", "listening"} => Users(s)' # {}
  <2>. SUFFICES ASSUME NEW s \in Servers, net'[s].state \in {"starting", "listening"}
                PROVE  \E id \in Ids : servers'[id] = s
    BY DEF Users
  <2>1. runs(s) # {}
    BY <1>3, UnusedTyped
  <2>2. chosen(s) \in on /\ lead(chosen(s)) = chosen(s) /\ own[chosen(s)] = s
    BY <1>5, <1>6, <2>1
  <2>. QED
    BY <1>3, <1>4, <2>2
<1>. QED
  BY <1>7, <1>8, <1>9 DEF IInv, TypeOK, NoLostListener, ReloadAll

-----------------------------------------------------------------------------
\* A request that asks for something or is answered keeps its type, and the rows do.
LEMMA RequestsTyped ==
  ASSUME TypeOK, NEW a \in Admins, NEW r \in Requests \cup {None}, Ask(a, r)
  PROVE  request' \in [Admins -> Requests \cup {None}]
  BY DEF TypeOK, Ask

LEMMA AnswerTyped ==
  ASSUME TypeOK, NEW a \in Admins, Answer(a)
  PROVE  request' \in [Admins -> Requests \cup {None}]
  BY DEF TypeOK, Answer

\* The steps of a handler on its row: no server is touched.
LEMMA RowIInv ==
  ASSUME IInv, NEW a \in Admins,
         \/ \E id \in Ids : \/ \E c \in Asked : AddRow(a, id, c)
                           \/ GetProxy(a, id) \/ DeleteRow(a, id)
         \/ UpdateRow(a) \/ UndoAdd(a) \/ UndoUpdate(a)
  PROVE  IInv'
<1>. USE ProxyServersAssumption
<1>1. TypeOK /\ NoLostListener /\ Asked \subseteq Configs
  BY DEF IInv
<1>2. UNCHANGED <<servers, net, closing>>
  BY DEF AddRow, GetProxy, DeleteRow, UpdateRow, UndoAdd, UndoUpdate
<1>. DEFINE Typed == /\ rows' \in [Ids -> Configs \cup {None}]
                     /\ request' \in [Admins -> Requests \cup {None}]
                     /\ unsettled' \subseteq Ids
<1>3. SUFFICES Typed
  BY <1>1, <1>2 DEF IInv, TypeOK, NoLostListener, Users
<1>4. ASSUME NEW id \in Ids, NEW c \in Asked, AddRow(a, id, c)
      PROVE  Typed
  <2>1. [op |-> "add", id |-> id, new |-> c] \in Requests
    BY <1>1 DEF Requests
  <2>2. request' \in [Admins -> Requests \cup {None}]
    BY <1>1, <1>4, <2>1, RequestsTyped DEF AddRow
  <2>. QED
    BY <1>1, <1>4, <2>2 DEF AddRow, TypeOK
<1>5. ASSUME NEW id \in Ids, GetProxy(a, id)
      PROVE  Typed
  <2>1. PICK old \in {rows[id], None} : Ask(a, [op |-> "write", id |-> id, old |-> old])
    BY <1>5 DEF GetProxy
  <2>2. [op |-> "write", id |-> id, old |-> old] \in Requests
    BY <1>1 DEF Requests, TypeOK
  <2>3. request' \in [Admins -> Requests \cup {None}]
    BY <1>1, <2>1, <2>2, RequestsTyped
  <2>. QED
    BY <1>1, <1>5, <2>3 DEF GetProxy, TypeOK, Overtakes
<1>6. ASSUME NEW id \in Ids, DeleteRow(a, id)
      PROVE  Typed
  <2>1. [op |-> "delete", id |-> id] \in Requests
    BY DEF Requests
  <2>2. request' \in [Admins -> Requests \cup {None}]
    BY <1>1, <1>6, <2>1, RequestsTyped DEF DeleteRow
  <2>. QED
    BY <1>1, <1>6, <2>2 DEF DeleteRow, TypeOK, Overtakes
<1>7. CASE UpdateRow(a)
  <2>1. request[a] # None /\ request[a].op = "write" /\ unsettled' = unsettled
    BY <1>7 DEF UpdateRow
  <2>2. request[a].id \in Ids /\ request[a].old \in Configs \cup {None}
    BY <1>1, <2>1, RequestTyped
  <2>3. CASE rows' = rows /\ Answer(a)
    BY <1>1, <2>1, <2>3, AnswerTyped DEF TypeOK
  <2>4. ASSUME NEW c \in Asked, rows' = [rows EXCEPT ![request[a].id] = c],
               Ask(a, [op |-> "update", id |-> request[a].id, new |-> c, old |-> request[a].old])
        PROVE  Typed
    <3>1. [op |-> "update", id |-> request[a].id, new |-> c, old |-> request[a].old] \in Requests
      BY <1>1, <2>2 DEF Requests
    <3>2. request' \in [Admins -> Requests \cup {None}]
      BY <1>1, <2>4, <3>1, RequestsTyped
    <3>. QED
      BY <1>1, <2>1, <2>4, <3>2 DEF TypeOK
  <2>. QED
    BY <1>7, <2>3, <2>4 DEF UpdateRow
<1>8. CASE UndoAdd(a)
  <2>1. request' \in [Admins -> Requests \cup {None}]
    BY <1>1, <1>8, AnswerTyped DEF UndoAdd
  <2>. QED
    BY <1>1, <1>8, <2>1 DEF UndoAdd, TypeOK
<1>9. CASE UndoUpdate(a)
  <2>1. request' \in [Admins -> Requests \cup {None}]
    BY <1>1, <1>9, AnswerTyped DEF UndoUpdate
  <2>2. request[a].id \in Ids /\ request[a].old \in Configs
    BY <1>1, <1>9, RequestTyped DEF UndoUpdate
  <2>. QED
    BY <1>1, <1>9, <2>1, <2>2 DEF UndoUpdate, TypeOK
<1>. QED
  BY <1>4, <1>5, <1>6, <1>7, <1>8, <1>9

\* The steps of the manager for a request.
LEMMA ManagerIInv ==
  ASSUME IInv, NEW a \in Admins, AddProxy(a) \/ UpdateProxy(a) \/ DeleteProxy(a)
  PROVE  IInv'
<1>. USE ProxyServersAssumption
<1>. DEFINE id == request[a].id
            c == request[a].new
<1>1. TypeOK /\ NoLostListener
  BY DEF IInv
<1>2. request[a] # None /\ closing = None /\ rows' = rows
  BY DEF AddProxy, UpdateProxy, DeleteProxy, Asks
<1>3. id \in Ids
  BY <1>1, <1>2, RequestTyped
<1>4. request' \in [Admins -> Requests \cup {None}] /\ unsettled' \subseteq Ids
  <2>1. ASSUME Answer(a)
        PROVE  request' \in [Admins -> Requests \cup {None}]
    BY <1>1, <2>1, AnswerTyped
  <2>2. CASE AddProxy(a)
    <3>1. [op |-> "undoAdd", id |-> id] \in Requests
      BY <1>3 DEF Requests
    <3>2. Ask(a, [op |-> "undoAdd", id |-> id]) => request' \in [Admins -> Requests \cup {None}]
      BY <1>1, <3>1, RequestsTyped
    <3>. QED
      BY <1>1, <2>1, <2>2, <3>2 DEF AddProxy, TypeOK
  <2>3. CASE UpdateProxy(a)
    <3>1. request[a].op = "update"
      BY <2>3 DEF UpdateProxy, Asks
    <3>2. CASE Restore(a)
      <4>1. request[a].old \in Configs \cup {None}
        BY <1>1, <1>2, <3>1, RequestTyped
      <4>2. CASE request[a].old = None
        BY <1>1, <1>3, <2>1, <3>2, <4>2 DEF Restore, TypeOK
      <4>3. CASE request[a].old # None
        <5>1. [op |-> "undoUpdate", id |-> id, old |-> request[a].old] \in Requests
          BY <1>3, <4>1, <4>3 DEF Requests
        <5>2. request' \in [Admins -> Requests \cup {None}]
          BY <1>1, <3>2, <4>3, <5>1, RequestsTyped DEF Restore
        <5>. QED
          BY <1>1, <3>2, <4>3, <5>2 DEF Restore, TypeOK
      <4>. QED
        BY <4>2, <4>3
    <3>. QED
      BY <1>1, <2>1, <2>3, <3>2 DEF UpdateProxy, TypeOK
  <2>4. CASE DeleteProxy(a)
    BY <1>1, <2>1, <2>4 DEF DeleteProxy, TypeOK
  <2>. QED
    BY <2>2, <2>3, <2>4
<1>5. SUFFICES /\ servers' \in [Ids -> Servers \cup {None}]
               /\ net' \in [Servers -> [addr : Addrs, proto : Protos, state : States]]
               /\ closing' \in Servers \cup {None}
               /\ NoLostListener'
  BY <1>1, <1>2, <1>4 DEF IInv, TypeOK
<1>6. CASE UNCHANGED <<servers, net, closing>>
  BY <1>1, <1>6 DEF TypeOK, NoLostListener, Users
<1>7. CASE c \in Configs /\ StartServer(id, c) /\ closing' \in {closing, servers[id]}
           /\ (servers[id] = None \/ closing' = servers[id])
  <2>1. /\ servers' \in [Ids -> Servers \cup {None}]
        /\ net' \in [Servers -> [addr : Addrs, proto : Protos, state : States]]
        /\ \A s \in Servers :
             net'[s].state \in {"starting", "listening"} =>
               (\E user \in Ids : servers'[user] = s) \/ s = servers[id]
    <3>. HIDE DEF id, c
    <3>. QED
      BY <1>1, <1>2, <1>3, <1>7, StartServerKeeps
  <2>. QED
    BY <1>1, <1>2, <1>3, <1>7, <2>1 DEF TypeOK, NoLostListener, Users
<1>8. CASE servers' = [servers EXCEPT ![id] = None] /\ closing' = servers[id] /\ net' = net
  BY <1>1, <1>2, <1>3, <1>8 DEF TypeOK, NoLostListener, Users
<1>9. CASE DeleteProxy(a)
  <2>1. /\ servers' = [servers EXCEPT ![id] = None]
        /\ closing' = IF Users(servers[id]) = {id} THEN servers[id] ELSE None
        /\ net' = net
    BY <1>9 DEF DeleteProxy
  <2>2. servers' \in [Ids -> Servers \cup {None}] /\ closing' \in Servers \cup {None}
    BY <1>1, <1>3, <2>1 DEF TypeOK
  <2>3. ASSUME NEW s \in Servers, net[s].state \in {"starting", "listening"}, s # closing'
        PROVE  Users(s)' # {}
    <3>1. Users(s) # {} /\ Users(s) # {id}
      BY <1>1, <1>2, <1>3, <2>1, <2>3 DEF NoLostListener, Users
    <3>2. PICK other \in Ids \ {id} : servers[other] = s
      BY <3>1 DEF Users
    <3>. QED
      BY <1>1, <2>1, <3>2 DEF Users, TypeOK
  <2>. QED
    BY <1>1, <2>1, <2>2, <2>3 DEF NoLostListener, TypeOK
<1>10. CASE AddProxy(a)
  <2>1. request[a].op = "add" /\ closing' = closing
    BY <1>10 DEF AddProxy, Asks
  <2>2. c \in Configs
    BY <1>1, <1>2, <2>1, RequestTyped
  <2>3. \/ UNCHANGED <<servers, net>>
        \/ servers[id] = None /\ StartServer(id, c)
    BY <1>10 DEF AddProxy
  <2>. QED
    BY <1>6, <1>7, <2>1, <2>2, <2>3
<1>11. CASE UpdateProxy(a)
  <2>1. request[a].op = "update"
    BY <1>11 DEF UpdateProxy, Asks
  <2>2. c \in Configs
    BY <1>1, <1>2, <2>1, RequestTyped
  <2>3. \/ UNCHANGED <<servers, net, closing>>
        \/ servers' = [servers EXCEPT ![id] = None] /\ closing' = servers[id] /\ net' = net
        \/ StartServer(id, c) /\ closing' = servers[id]
    BY <1>11 DEF UpdateProxy
  <2>. QED
    BY <1>6, <1>7, <1>8, <2>2, <2>3
<1>. QED
  BY <1>9, <1>10, <1>11

\* Every step of the specification, stutters included.
LEMMA NextIInv == IInv /\ [Next]_vars => IInv'
<1>. SUFFICES ASSUME IInv, [Next]_vars
              PROVE  IInv'
  OBVIOUS
<1>. USE ProxyServersAssumption
<1>1. CASE ShutdownOld
  <2>1. closing \in Servers /\ closing' = None /\ UNCHANGED <<rows, servers, request, unsettled>>
    BY <1>1 DEF ShutdownOld, IInv, TypeOK
  <2>. DEFINE n == net'[closing]
  <2>2. n \in Nets /\ n.state \in {"failed", "closed"}
    <3>1. net[closing] \in Nets
      BY <2>1 DEF IInv, TypeOK, Nets
    <3>2. \/ n = net[closing] /\ n.state = "failed"
          \/ n = Unused
          \/ n = [net[closing] EXCEPT !.state = "closed"]
      BY <1>1, <2>1 DEF ShutdownOld, IInv, TypeOK
    <3>. QED
      BY <3>1, <3>2, UnusedTyped DEF Nets, States
  <2>3. net' = [net EXCEPT ![closing] = n]
    BY <1>1, <2>1 DEF ShutdownOld, IInv, TypeOK
  <2>. HIDE DEF n
  <2>4. net' \in [Servers -> Nets]
    BY <2>1, <2>2, <2>3 DEF IInv, TypeOK, Nets
  <2>. QED
    BY <2>1, <2>2, <2>3, <2>4 DEF IInv, TypeOK, NoLostListener, Users, Nets
<1>2. CASE ReloadAll
  BY <1>2, ReloadKeeps
<1>3. ASSUME NEW s \in Servers, Bind(s)
      PROVE  IInv'
  <2>1. PICK state \in {"failed", "listening"} : net' = [net EXCEPT ![s].state = state]
    BY <1>3 DEF Bind
  <2>2. net[s].state = "starting" /\ UNCHANGED <<rows, servers, request, closing, unsettled>>
    BY <1>3 DEF Bind
  <2>. QED
    BY <2>1, <2>2 DEF IInv, TypeOK, NoLostListener, Users, States
<1>4. ASSUME NEW s \in Servers, Forget(s)
      PROVE  IInv'
  <2>1. net' \in [Servers -> Nets] /\ net' = [net EXCEPT ![s] = Unused]
    BY <1>4, UnusedTyped DEF Forget, IInv, TypeOK, Nets
  <2>. QED
    BY <1>4, <2>1, UnusedTyped DEF Forget, IInv, TypeOK, NoLostListener, Users, Nets
<1>5. CASE UNCHANGED vars
  BY <1>5 DEF vars, IInv, TypeOK, NoLostListener, Users
<1>. QED
  BY <1>1, <1>2, <1>3, <1>4, <1>5, RowIInv, ManagerIInv DEF Next

-----------------------------------------------------------------------------
\* Rows, entries, servers and requests keep their types; in particular a server
\* can always be allocated when one is to be started.
THEOREM ProxyTyping == Spec => []TypeOK
<1>1. IInv => TypeOK
  BY DEF IInv
<1>. QED
  BY InitIInv, NextIInv, <1>1, PTL DEF Spec

\* server_manager.go: whatever is added, changed, deleted and reloaded, in any
\* order and with SIGHUP at any moment, a listener that serves or is starting can
\* be found and shut down.
THEOREM ListenersAreKept == Spec => []NoLostListener
<1>1. IInv => NoLostListener
  BY DEF IInv
<1>. QED
  BY InitIInv, NextIInv, <1>1, PTL DEF Spec

-----------------------------------------------------------------------------
(* Entries and rows, for any number of rows, addresses and requests. *)

\* What has an entry is served as a configuration says.
ServedAs(s, n, c) == s # None => c # None /\ c.enabled /\ c.addr = n[s].addr /\ c.proto = n[s].proto
Fits(id, c) == ServedAs(servers[id], net, c)

For(a, id) == request[a] # None /\ request[a].id = id

\* How far a request is with a settled row that it alone is for: the entry is of
\* the row that the request replaces, or there is none yet.
Stage(a, id) ==
  /\ request[a].op = "add" => servers[id] = None /\ rows[id] = request[a].new
  /\ request[a].op = "write" =>
       Fits(id, rows[id]) /\ (request[a].old # None => request[a].old = rows[id])
  /\ request[a].op = "update" =>
       rows[id] = request[a].new /\ (request[a].old # None => Fits(id, request[a].old))
  /\ request[a].op = "undoUpdate" => Fits(id, request[a].old)
  /\ request[a].op = "undoAdd" => servers[id] = None
  /\ request[a].op = "delete" => rows[id] = None

Alone(a, id) == \A b \in Admins : For(b, id) => b = a

Stands(id) == id \notin unsettled =>
  /\ \A a \in Admins : For(a, id) => Alone(a, id) /\ Stage(a, id)
  /\ ~Busy(id) => Fits(id, rows[id])

\* The strengthening under which EntriesMatchRows is inductive.
EntriesStand == \A id \in Ids : Stands(id)

\* startServerLocked serves the row as it asks for, and leaves the other entries
\* as they are.
LEMMA StartServerFits ==
  ASSUME TypeOK, NoLostListener, closing = None,
         NEW id \in Ids, NEW c \in Configs, StartServer(id, c)
  PROVE  /\ net'[servers'[id]].addr = c.addr /\ net'[servers'[id]].proto = c.proto
         /\ \A q \in Ids \ {id} :
              /\ servers'[q] = servers[q]
              /\ servers[q] # None => /\ net'[servers[q]].addr = net[servers[q]].addr
                                     /\ net'[servers[q]].proto = net[servers[q]].proto
<1>1. CASE Share(id, c)
  <2>1. PICK other \in Others(id, c.addr) :
          net[servers[other]].proto = c.proto /\ servers' = [servers EXCEPT ![id] = servers[other]] /\ net' = net
    BY <1>1 DEF Share
  <2>2. servers'[id] = servers[other] /\ net[servers[other]].addr = c.addr
    BY <2>1 DEF Others, TypeOK
  <2>3. \A q \in Ids \ {id} : servers'[q] = servers[q]
    BY <2>1 DEF TypeOK
  <2>. QED
    BY <2>1, <2>2, <2>3
<1>2. CASE StartOwn(id, c)
  <2>1. PICK new \in Spare :
          /\ servers' = [servers EXCEPT ![id] = new]
          /\ net' = [net EXCEPT ![new] = [addr |-> c.addr, proto |-> c.proto, state |-> "starting"]]
    BY <1>2 DEF StartOwn
  <2>2. /\ servers' = [servers EXCEPT ![id] = new]
        /\ net' = [net EXCEPT ![new] = [addr |-> c.addr, proto |-> c.proto, state |-> "starting"]]
    BY <2>1
  <2>3. new \in Servers /\ \A q \in Ids : servers[q] # new
    BY <2>1 DEF Spare, Users
  <2>4. servers'[id] = new /\ net'[new].addr = c.addr /\ net'[new].proto = c.proto
    BY <2>2, <2>3 DEF TypeOK
  <2>5. \A q \in Ids \ {id} : servers'[q] = servers[q] /\ (servers[q] # None => net'[servers[q]] = net[servers[q]])
    BY <2>2, <2>3 DEF TypeOK
  <2>. QED
    BY <2>4, <2>5
<1>. QED
  BY <1>1, <1>2 DEF StartServer

\* A step leaves a row, its entry and the requests for it alone.
SameEntry(id) ==
  /\ rows'[id] = rows[id] /\ servers'[id] = servers[id]
  /\ servers[id] # None => /\ net'[servers[id]].addr = net[servers[id]].addr
                          /\ net'[servers[id]].proto = net[servers[id]].proto
  /\ id \in unsettled => id \in unsettled'
SameRequests(id) == \A b \in Admins : \/ ~For(b, id) /\ ~For(b, id)'
                                      \/ request'[b] = request[b]

\* Nothing is said of such a row that was not said before.
LEMMA OthersStand ==
  ASSUME NEW id \in Ids, Stands(id), SameEntry(id), SameRequests(id)
  PROVE  Stands(id)'
<1>. SUFFICES ASSUME id \notin unsettled'
              PROVE  /\ \A a \in Admins : For(a, id)' => Alone(a, id)' /\ Stage(a, id)'
                     /\ ~Busy(id)' => Fits(id, rows[id])'
  BY DEF Stands
<1>1. id \notin unsettled
  BY DEF SameEntry
<1>2. \A b \in Admins : For(b, id)' <=> For(b, id)
  BY DEF SameRequests, For
<1>3. \A c : ServedAs(servers[id], net, c) => ServedAs(servers'[id], net', c)
  BY DEF SameEntry, ServedAs
<1>4. ASSUME NEW a \in Admins, For(a, id)'
      PROVE  Alone(a, id)' /\ Stage(a, id)'
  <2>1. Alone(a, id) /\ Stage(a, id) /\ For(a, id)
    BY <1>1, <1>2, <1>4 DEF Stands
  <2>2. request'[a] = request[a]
    BY <1>4, <2>1 DEF SameRequests
  <2>3. Alone(a, id)'
    BY <1>2, <2>1 DEF Alone
  <2>4. rows'[id] = rows[id] /\ servers'[id] = servers[id]
    BY DEF SameEntry
  <2>5. Stage(a, id)'
    BY <1>3, <2>1, <2>2, <2>4 DEF Stage, Fits
  <2>. QED
    BY <2>3, <2>5
<1>5. ASSUME ~Busy(id)'
      PROVE  Fits(id, rows[id])'
  <2>1. ~Busy(id)
    BY <1>2, <1>5 DEF Busy, For
  <2>2. Fits(id, rows[id])
    BY <1>1, <2>1 DEF Stands
  <2>3. rows'[id] = rows[id]
    BY DEF SameEntry
  <2>. QED
    BY <1>3, <2>2, <2>3 DEF Fits
<1>. QED
  BY <1>4, <1>5

\* A request touches no other row's requests.
LEMMA OtherRequests ==
  ASSUME TypeOK, NEW a \in Admins, NEW id, NEW q \in Ids \ {id},
         request[a] = None \/ request[a].id = id,
         request' = [request EXCEPT ![a] = request'[a]],
         request'[a] = None \/ request'[a].id = id
  PROVE  SameRequests(q)
  BY DEF SameRequests, For, TypeOK

\* The last request for a settled row has been answered.
LEMMA AnsweredStands ==
  ASSUME TypeOK, NEW a \in Admins, NEW id \in Ids, For(a, id), Stands(id), Answer(a),
         id \in unsettled \/ Fits(id, rows[id])', unsettled \subseteq unsettled'
  PROVE  Stands(id)'
<1>1. CASE id \in unsettled
  BY <1>1 DEF Stands
<1>2. CASE id \notin unsettled
  <2>1. Alone(a, id) /\ Fits(id, rows[id])'
    BY <1>2 DEF Stands
  <2>2. \A b \in Admins : ~For(b, id)'
    BY <2>1 DEF Alone, For, Answer, TypeOK
  <2>. QED
    BY <2>1, <2>2 DEF Stands
<1>. QED
  BY <1>1, <1>2

\* A request for a settled row goes on, or it is the first one for it.
LEMMA AskedStands ==
  ASSUME TypeOK, NEW a \in Admins, NEW id \in Ids, NEW r, Ask(a, r), r # None, r.id = id,
         id \in unsettled' \/ (Alone(a, id) /\ Stage(a, id)')
  PROVE  Stands(id)'
<1>1. CASE id \in unsettled'
  BY <1>1 DEF Stands
<1>2. CASE id \notin unsettled'
  <2>1. Alone(a, id) /\ Stage(a, id)'
    BY <1>2
  <2>2. request'[a] = r /\ \A b \in Admins \ {a} : request'[b] = request[b]
    BY DEF Ask, TypeOK
  <2>3. \A b \in Admins : For(b, id)' <=> b = a
    BY <2>1, <2>2 DEF Alone, For
  <2>4. Busy(id)'
    BY <2>3 DEF Busy, For
  <2>. QED
    BY <2>1, <2>3, <2>4 DEF Stands, Alone
<1>. QED
  BY <1>1, <1>2

\* So does ReloadAll, for every row that it starts.
LEMMA ReloadFits ==
  ASSUME IInv, ReloadAll
  PROVE  EntriesStand'
<1>1. PICK on \in {{}, {id \in Ids : Enabled(id)}}, first \in [Addrs -> Ids] :
        LET own == CHOOSE f \in Injection(Ids, Servers) : TRUE
            lead(id) == first[rows[id].addr]
            leads == {lead(id) : id \in on}
            runs(s) == {id \in leads : own[id] = s}
        IN /\ \A id \in on : lead(id) \in on /\ rows[lead(id)].addr = rows[id].addr
           /\ servers' = [id \in Ids |->
                IF id \in on /\ rows[id].proto = rows[lead(id)].proto THEN own[lead(id)] ELSE None]
           /\ net' = [s \in Servers |->
                IF runs(s) = {} THEN Unused
                ELSE LET c == rows[CHOOSE id \in runs(s) : TRUE]
                     IN [addr |-> c.addr, proto |-> c.proto, state |-> "starting"]]
  BY DEF ReloadAll
<1>. DEFINE own == CHOOSE f \in Injection(Ids, Servers) : TRUE
            lead(id) == first[rows[id].addr]
            leads == {lead(id) : id \in on}
            runs(s) == {id \in leads : own[id] = s}
            chosen(s) == CHOOSE id \in runs(s) : TRUE
<1>2. own \in [Ids -> Servers] /\ \A i, j \in Ids : own[i] = own[j] => i = j
  BY OwnServers, Fun_InjectionProperties DEF Injection, IsInjective
<1>3. /\ \A id \in on : lead(id) \in on /\ rows[lead(id)].addr = rows[id].addr
      /\ servers' = [id \in Ids |->
           IF id \in on /\ rows[id].proto = rows[lead(id)].proto THEN own[lead(id)] ELSE None]
      /\ net' = [s \in Servers |->
           IF runs(s) = {} THEN Unused
           ELSE [addr |-> rows[chosen(s)].addr, proto |-> rows[chosen(s)].proto,
                 state |-> "starting"]]
  BY <1>1
<1>. HIDE DEF own
<1>4. \A id \in on : id \in Ids /\ rows[id] # None /\ rows[id].enabled
  BY DEF Enabled
<1>5. ASSUME NEW id \in Ids, servers'[id] # None
      PROVE  Fits(id, rows[id])'
  <2>1. id \in on /\ rows[id].proto = rows[lead(id)].proto /\ servers'[id] = own[lead(id)]
    BY <1>3, <1>5
  <2>2. lead(id) \in on /\ lead(id) \in runs(own[lead(id)])
    BY <1>3, <2>1
  <2>3. \A i \in runs(own[lead(id)]) : i = lead(id)
    BY <1>2, <1>3, <1>4, <2>2
  <2>4. chosen(own[lead(id)]) = lead(id)
    <3>. HIDE DEF runs
    <3>. QED
      BY <2>2, <2>3
  <2>5. own[lead(id)] \in Servers
    BY <1>2, <1>4, <2>2
  <2>. HIDE DEF runs, chosen, lead
  <2>6. runs(own[lead(id)]) # {}
    BY <2>2
  <2>7. net'[own[lead(id)]].addr = rows[lead(id)].addr /\ net'[own[lead(id)]].proto = rows[lead(id)].proto
    BY <1>3, <2>4, <2>5, <2>6
  <2>8. rows' = rows
    BY DEF ReloadAll
  <2>. QED
    BY <1>3, <1>4, <2>1, <2>7, <2>8 DEF Fits, ServedAs
<1>6. \A id \in Ids : Fits(id, rows[id])'
  BY <1>5 DEF Fits, ServedAs
<1>7. \A id \in Ids : id \in unsettled' \/ \A a \in Admins : ~For(a, id)'
  BY DEF ReloadAll, Busy, For
<1>. QED
  BY <1>6, <1>7 DEF EntriesStand, Stands

\* The handlers: what they do to a row, and that they mark those they leave unsettled.
LEMMA RowStands ==
  ASSUME IInv, EntriesStand, NEW a \in Admins,
         \/ \E id \in Ids : \/ \E c \in Asked : AddRow(a, id, c)
                           \/ GetProxy(a, id) \/ DeleteRow(a, id)
         \/ UpdateRow(a) \/ UndoAdd(a) \/ UndoUpdate(a)
  PROVE  EntriesStand'
<1>. USE ProxyServersAssumption
<1>1. TypeOK /\ \A id \in Ids : Stands(id)
  BY DEF IInv, EntriesStand
<1>2. UNCHANGED <<servers, net, closing>>
  BY DEF AddRow, GetProxy, DeleteRow, UpdateRow, UndoAdd, UndoUpdate
<1>3. ASSUME NEW id \in Ids, Stands(id)', \A q \in Ids \ {id} : SameEntry(q) /\ SameRequests(q)
      PROVE  EntriesStand'
  BY <1>1, <1>3, OthersStand DEF EntriesStand
<1>4. ASSUME NEW id \in Ids, NEW r \in Requests, r.id = id, Ask(a, r),
             request[a] = None \/ request[a].id = id
      PROVE  \A q \in Ids \ {id} : SameRequests(q)
  <2>1. request' = [request EXCEPT ![a] = request'[a]] /\ request'[a] = r
    BY <1>1, <1>4 DEF Ask, TypeOK
  <2>. QED
    BY <1>1, <1>4, <2>1, OtherRequests
<1>5. ASSUME NEW id \in Ids, Answer(a), request[a].id = id
      PROVE  \A q \in Ids \ {id} : SameRequests(q)
  <2>1. request' = [request EXCEPT ![a] = request'[a]] /\ request'[a] = None
    BY <1>1, <1>5 DEF Answer, TypeOK
  <2>. QED
    BY <1>1, <1>5, <2>1, OtherRequests
<1>6. ASSUME NEW id \in Ids, NEW c \in Asked, AddRow(a, id, c)
      PROVE  EntriesStand'
  <2>. DEFINE r == [op |-> "add", id |-> id, new |-> c]
  <2>1. r \in Requests /\ r.id = id /\ r.op = "add" /\ r.new = c
    BY DEF Requests
  <2>2. /\ request[a] = None /\ servers[id] = None /\ ~Busy(id) /\ Ask(a, r)
        /\ rows' = [rows EXCEPT ![id] = c] /\ unsettled' = unsettled \ {id}
    BY <1>6 DEF AddRow
  <2>. HIDE DEF r
  <2>3. request'[a] = r /\ rows'[id] = c /\ Alone(a, id)
    BY <1>1, <2>2 DEF Ask, TypeOK, Busy, Alone, For
  <2>4. Stage(a, id)'
    BY <1>2, <2>1, <2>2, <2>3 DEF Stage
  <2>5. Stands(id)'
    BY <1>1, <2>1, <2>2, <2>3, <2>4, AskedStands
  <2>6. \A q \in Ids \ {id} : SameEntry(q)
    BY <1>1, <1>2, <2>2 DEF SameEntry, TypeOK
  <2>. QED
    BY <1>3, <1>4, <2>1, <2>2, <2>5, <2>6
<1>7. ASSUME NEW id \in Ids, GetProxy(a, id)
      PROVE  EntriesStand'
  <2>1. PICK old \in {rows[id], None} : Ask(a, [op |-> "write", id |-> id, old |-> old])
    BY <1>7 DEF GetProxy
  <2>. DEFINE r == [op |-> "write", id |-> id, old |-> old]
  <2>2. r \in Requests /\ r.id = id /\ r.op = "write" /\ r.old = old
    BY <1>1 DEF Requests, TypeOK
  <2>3. request[a] = None /\ Ask(a, r) /\ rows' = rows /\ Overtakes(id)
    BY <1>7, <2>1 DEF GetProxy
  <2>. HIDE DEF r
  <2>4. Stands(id)'
    <3>1. CASE Busy(id)
      BY <2>3, <3>1 DEF Overtakes, Stands
    <3>2. CASE ~Busy(id)
      <4>1. CASE id \in unsettled
        BY <2>3, <4>1 DEF Overtakes, Stands
      <4>2. CASE id \notin unsettled
        <5>1. Fits(id, rows[id])
          BY <1>1, <3>2, <4>2 DEF Stands
        <5>2. request'[a] = r /\ Alone(a, id)
          BY <1>1, <2>3, <3>2 DEF Ask, TypeOK, Busy, Alone, For
        <5>3. Stage(a, id)'
          BY <1>2, <2>2, <2>3, <5>1, <5>2 DEF Stage, Fits
        <5>. QED
          BY <1>1, <2>2, <2>3, <5>2, <5>3, AskedStands
      <4>. QED
        BY <4>1, <4>2
    <3>. QED
      BY <3>1, <3>2
  <2>5. \A q \in Ids \ {id} : SameEntry(q)
    BY <1>1, <1>2, <2>3 DEF SameEntry, TypeOK, Overtakes
  <2>. QED
    BY <1>3, <1>4, <2>2, <2>3, <2>4, <2>5
<1>8. ASSUME NEW id \in Ids, DeleteRow(a, id)
      PROVE  EntriesStand'
  <2>. DEFINE r == [op |-> "delete", id |-> id]
  <2>1. r \in Requests /\ r.id = id /\ r.op = "delete"
    BY DEF Requests
  <2>2. request[a] = None /\ Ask(a, r) /\ rows' = [rows EXCEPT ![id] = None] /\ Overtakes(id)
    BY <1>8 DEF DeleteRow
  <2>. HIDE DEF r
  <2>3. Stands(id)'
    <3>1. CASE Busy(id)
      BY <2>2, <3>1 DEF Overtakes, Stands
    <3>2. CASE ~Busy(id)
      <4>1. request'[a] = r /\ Alone(a, id) /\ rows'[id] = None
        BY <1>1, <2>2, <3>2 DEF Ask, TypeOK, Busy, Alone, For
      <4>2. Stage(a, id)'
        BY <2>1, <4>1 DEF Stage
      <4>. QED
        BY <1>1, <2>1, <2>2, <4>1, <4>2, AskedStands
    <3>. QED
      BY <3>1, <3>2
  <2>4. \A q \in Ids \ {id} : SameEntry(q)
    BY <1>1, <1>2, <2>2 DEF SameEntry, TypeOK, Overtakes
  <2>. QED
    BY <1>3, <1>4, <2>1, <2>2, <2>3, <2>4
<1>9. CASE UpdateRow(a)
  <2>1. request[a] # None /\ request[a].op = "write" /\ unsettled' = unsettled
    BY <1>9 DEF UpdateRow
  <2>. PICK id \in Ids, old \in Configs \cup {None} : id = request[a].id /\ old = request[a].old
    BY <1>1, <2>1, RequestTyped
  <2>2. Stands(id) /\ For(a, id) /\ id = request[a].id /\ old = request[a].old
    BY <1>1, <2>1 DEF For
  <2>3. id \in unsettled \/ (Alone(a, id) /\ Fits(id, rows[id]) /\ (old # None => old = rows[id]))
    BY <2>1, <2>2 DEF Stands, Stage
  <2>4. CASE rows' = rows /\ Answer(a)
    <3>1. id \in unsettled \/ Fits(id, rows[id])'
      BY <1>2, <2>3, <2>4 DEF Fits, ServedAs
    <3>2. Stands(id)'
      BY <1>1, <2>1, <2>2, <2>4, <3>1, AnsweredStands
    <3>3. \A q \in Ids \ {id} : SameEntry(q)
      BY <1>2, <2>1, <2>4 DEF SameEntry
    <3>. QED
      BY <1>3, <1>5, <2>2, <2>4, <3>2, <3>3
  <2>5. ASSUME NEW c \in Asked, rows' = [rows EXCEPT ![id] = c],
               Ask(a, [op |-> "update", id |-> id, new |-> c, old |-> old])
        PROVE  EntriesStand'
    <3>. DEFINE r == [op |-> "update", id |-> id, new |-> c, old |-> old]
    <3>1. r \in Requests /\ r.id = id /\ r.op = "update" /\ r.new = c /\ r.old = old
      BY <2>2 DEF Requests
    <3>2. Ask(a, r)
      BY <2>5
    <3>. HIDE DEF r
    <3>3. request'[a] = r /\ rows'[id] = c
      BY <1>1, <2>2, <2>5, <3>2 DEF Ask, TypeOK
    <3>4. id \in unsettled' \/ (Alone(a, id) /\ Stage(a, id)')
      <4>1. CASE id \in unsettled
        BY <2>1, <4>1
      <4>2. CASE Alone(a, id) /\ Fits(id, rows[id]) /\ (old # None => old = rows[id])
        <5>1. old # None => Fits(id, old)'
          BY <1>2, <4>2 DEF Fits, ServedAs
        <5>. QED
          BY <3>1, <3>3, <4>2, <5>1 DEF Stage
      <4>. QED
        BY <2>3, <4>1, <4>2
    <3>5. Stands(id)'
      BY <1>1, <2>2, <3>1, <3>2, <3>4, AskedStands
    <3>6. \A q \in Ids \ {id} : SameEntry(q)
      BY <1>1, <1>2, <2>1, <2>5 DEF SameEntry, TypeOK
    <3>. QED
      BY <1>3, <1>4, <2>2, <3>1, <3>2, <3>5, <3>6
  <2>. QED
    BY <1>9, <2>2, <2>4, <2>5 DEF UpdateRow
<1>10. CASE UndoAdd(a)
  <2>. PICK id \in Ids : id = request[a].id
    BY <1>1, <1>10, RequestTyped DEF UndoAdd
  <2>1. /\ request[a] # None /\ request[a].op = "undoAdd" /\ unsettled' = unsettled
        /\ rows' \in {rows, [rows EXCEPT ![id] = None]} /\ Answer(a)
    BY <1>10 DEF UndoAdd
  <2>2. Stands(id) /\ For(a, id) /\ id = request[a].id
    BY <1>1, <2>1 DEF For
  <2>3. id \in unsettled \/ servers[id] = None
    BY <2>1, <2>2 DEF Stands, Stage
  <2>4. id \in unsettled \/ Fits(id, rows[id])'
    BY <1>2, <2>3 DEF Fits, ServedAs
  <2>5. Stands(id)'
    BY <1>1, <2>1, <2>2, <2>4, AnsweredStands
  <2>6. \A q \in Ids \ {id} : SameEntry(q)
    BY <1>1, <1>2, <2>1 DEF SameEntry, TypeOK
  <2>. QED
    BY <1>3, <1>5, <2>1, <2>2, <2>5, <2>6
<1>11. CASE UndoUpdate(a)
  <2>. PICK id \in Ids, old \in Configs : id = request[a].id /\ old = request[a].old
    BY <1>1, <1>11, RequestTyped DEF UndoUpdate
  <2>1. /\ request[a] # None /\ request[a].op = "undoUpdate" /\ Answer(a)
        /\ \/ rows' = [rows EXCEPT ![id] = old] /\ unsettled' = unsettled
           \/ rows' = rows /\ unsettled' = unsettled \cup {id}
    BY <1>11 DEF UndoUpdate
  <2>2. Stands(id) /\ For(a, id) /\ id = request[a].id /\ old = request[a].old
    BY <1>1, <2>1 DEF For
  <2>3. id \in unsettled \/ Fits(id, old)
    BY <2>1, <2>2 DEF Stands, Stage
  <2>4. \A q \in Ids \ {id} : SameEntry(q)
    BY <1>1, <1>2, <2>1 DEF SameEntry, TypeOK
  <2>5. CASE rows' = [rows EXCEPT ![id] = old] /\ unsettled' = unsettled
    <3>1. id \in unsettled \/ Fits(id, rows[id])'
      <4>1. rows'[id] = old
        BY <1>1, <2>2, <2>5 DEF TypeOK
      <4>. QED
        BY <1>2, <2>3, <4>1 DEF Fits, ServedAs
    <3>2. Stands(id)'
      BY <1>1, <2>1, <2>2, <2>5, <3>1, AnsweredStands
    <3>. QED
      BY <1>3, <1>5, <2>1, <2>2, <2>4, <3>2
  <2>6. CASE unsettled' = unsettled \cup {id}
    <3>1. Stands(id)'
      BY <2>6 DEF Stands
    <3>. QED
      BY <1>3, <1>5, <2>1, <2>2, <2>4, <3>1
  <2>. QED
    BY <2>1, <2>5, <2>6
<1>. QED
  BY <1>6, <1>7, <1>8, <1>9, <1>10, <1>11

\* The manager: what it does to the entry, and what it asks the handler to put back.
LEMMA ManagerStands ==
  ASSUME IInv, EntriesStand, NEW a \in Admins, AddProxy(a) \/ UpdateProxy(a) \/ DeleteProxy(a)
  PROVE  EntriesStand'
<1>. USE ProxyServersAssumption
<1>1. TypeOK /\ NoLostListener /\ \A q \in Ids : Stands(q)
  BY DEF IInv, EntriesStand
<1>2. request[a] # None /\ closing = None /\ rows' = rows
  BY DEF AddProxy, UpdateProxy, DeleteProxy, Asks
<1>. PICK id \in Ids : id = request[a].id
  BY <1>1, <1>2, RequestTyped
<1>3. For(a, id) /\ Stands(id) /\ id = request[a].id
  BY <1>1, <1>2 DEF For
<1>4. ASSUME Stands(id)', Answer(a) \/ \E r \in Requests : r.id = id /\ Ask(a, r),
             \A q \in Ids \ {id} : SameEntry(q)
      PROVE  EntriesStand'
  <2>1. /\ request' = [request EXCEPT ![a] = request'[a]]
        /\ request'[a] = None \/ request'[a].id = id
    BY <1>1, <1>4 DEF Answer, Ask, TypeOK
  <2>2. \A q \in Ids \ {id} : SameRequests(q)
    BY <1>1, <2>1, OtherRequests
  <2>. QED
    BY <1>1, <1>4, <2>2, OthersStand DEF EntriesStand
<1>5. ASSUME Answer(a), \A q \in Ids \ {id} : SameEntry(q), unsettled \subseteq unsettled',
             id \in unsettled \/ Fits(id, rows[id])'
      PROVE  EntriesStand'
  <2>1. Stands(id)'
    BY <1>1, <1>3, <1>5, AnsweredStands
  <2>. QED
    BY <1>4, <1>5, <2>1
<1>6. ASSUME UNCHANGED <<servers, net>>, unsettled \subseteq unsettled'
      PROVE  \A q \in Ids : SameEntry(q)
  BY <1>2, <1>6 DEF SameEntry
<1>7. ASSUME NEW c \in Configs, c.enabled, StartServer(id, c), Answer(a), unsettled' = unsettled,
             id \in unsettled \/ rows[id] = c
      PROVE  EntriesStand'
  <2>1. /\ net'[servers'[id]].addr = c.addr /\ net'[servers'[id]].proto = c.proto
        /\ \A q \in Ids \ {id} :
             /\ servers'[q] = servers[q]
             /\ servers[q] # None => /\ net'[servers[q]].addr = net[servers[q]].addr
                                    /\ net'[servers[q]].proto = net[servers[q]].proto
    BY <1>1, <1>2, <1>7, StartServerFits
  <2>2. \A q \in Ids \ {id} : SameEntry(q)
    BY <1>2, <1>7, <2>1 DEF SameEntry
  <2>3. id \in unsettled \/ Fits(id, rows[id])'
    BY <1>2, <1>7, <2>1 DEF Fits, ServedAs
  <2>. QED
    BY <1>5, <1>7, <2>2, <2>3
<1>8. CASE AddProxy(a)
  <2>1. request[a].op = "add" /\ unsettled' = unsettled
    BY <1>8 DEF AddProxy, Asks
  <2>. PICK c \in Configs : c = request[a].new
    BY <1>1, <1>2, <2>1, RequestTyped
  <2>2. c = request[a].new
    OBVIOUS
  <2>3. id \in unsettled \/ (servers[id] = None /\ rows[id] = c /\ Alone(a, id))
    BY <1>3, <2>1, <2>2 DEF Stands, Stage
  <2>4. CASE Answer(a) /\ UNCHANGED <<servers, net>>
    <3>1. id \in unsettled \/ Fits(id, rows[id])'
      BY <2>3, <2>4 DEF Fits, ServedAs
    <3>. QED
      BY <1>5, <1>6, <2>1, <2>4, <3>1
  <2>5. CASE Ask(a, [op |-> "undoAdd", id |-> id]) /\ UNCHANGED <<servers, net>>
    <3>. DEFINE r == [op |-> "undoAdd", id |-> id]
    <3>1. r \in Requests /\ r.id = id /\ r.op = "undoAdd" /\ Ask(a, r)
      BY <1>3, <2>5 DEF Requests
    <3>. HIDE DEF r
    <3>2. request'[a] = r
      BY <1>1, <3>1 DEF Ask, TypeOK
    <3>3. id \in unsettled' \/ (Alone(a, id) /\ Stage(a, id)')
      BY <2>1, <2>3, <2>5, <3>1, <3>2 DEF Stage
    <3>4. Stands(id)'
      BY <1>1, <1>3, <3>1, <3>3, AskedStands
    <3>. QED
      BY <1>4, <1>6, <2>1, <2>5, <3>1, <3>4
  <2>6. CASE c.enabled /\ StartServer(id, c) /\ Answer(a)
    BY <1>7, <2>1, <2>2, <2>3, <2>6
  <2>. QED
    BY <1>3, <1>8, <2>2, <2>4, <2>5, <2>6 DEF AddProxy
<1>9. CASE UpdateProxy(a)
  <2>1. request[a].op = "update"
    BY <1>9 DEF UpdateProxy, Asks
  <2>. PICK c \in Configs, old \in Configs \cup {None} : c = request[a].new /\ old = request[a].old
    BY <1>1, <1>2, <2>1, RequestTyped
  <2>2. c = request[a].new /\ old = request[a].old
    OBVIOUS
  <2>3. \/ id \in unsettled
        \/ rows[id] = c /\ Alone(a, id) /\ (old # None => Fits(id, old))
    BY <1>3, <2>1, <2>2 DEF Stands, Stage
  <2>4. CASE servers' = [servers EXCEPT ![id] = None] /\ Answer(a) /\ UNCHANGED <<net, unsettled>>
    <3>1. servers'[id] = None /\ \A q \in Ids \ {id} : servers'[q] = servers[q]
      BY <1>1, <1>3, <2>4 DEF TypeOK
    <3>2. \A q \in Ids \ {id} : SameEntry(q)
      BY <1>2, <2>4, <3>1 DEF SameEntry
    <3>. QED
      BY <1>5, <2>4, <3>1, <3>2 DEF Fits, ServedAs
  <2>5. CASE Restore(a) /\ UNCHANGED <<servers, net>>
    <3>1. CASE old = None
      <4>1. Answer(a) /\ unsettled' = unsettled \cup {id}
        BY <1>3, <2>2, <2>5, <3>1 DEF Restore
      <4>2. Stands(id)'
        BY <4>1 DEF Stands
      <4>. QED
        BY <1>4, <1>6, <2>5, <4>1, <4>2
    <3>2. CASE old # None
      <4>. DEFINE r == [op |-> "undoUpdate", id |-> id, old |-> old]
      <4>1. r \in Requests /\ r.id = id /\ r.op = "undoUpdate" /\ r.old = old
        BY <3>2 DEF Requests
      <4>2. Ask(a, r) /\ unsettled' = unsettled
        BY <1>3, <2>2, <2>5, <3>2 DEF Restore
      <4>. HIDE DEF r
      <4>3. request'[a] = r
        BY <1>1, <4>2 DEF Ask, TypeOK
      <4>4. id \in unsettled \/ (Alone(a, id) /\ Fits(id, old))
        BY <2>3, <3>2
      <4>5. id \in unsettled \/ Fits(id, old)'
        BY <2>5, <4>4 DEF Fits, ServedAs
      <4>6. id \in unsettled' \/ (Alone(a, id) /\ Stage(a, id)')
        BY <4>1, <4>2, <4>3, <4>4, <4>5 DEF Stage
      <4>7. Stands(id)'
        BY <1>1, <1>3, <4>1, <4>2, <4>6, AskedStands
      <4>. QED
        BY <1>4, <1>6, <2>5, <4>1, <4>2, <4>7
    <3>. QED
      BY <3>1, <3>2
  <2>6. CASE c.enabled /\ StartServer(id, c) /\ Answer(a) /\ UNCHANGED unsettled
    BY <1>7, <2>2, <2>3, <2>6
  <2>. QED
    BY <1>3, <1>9, <2>2, <2>4, <2>5, <2>6 DEF UpdateProxy
<1>10. CASE DeleteProxy(a)
  <2>1. servers' = [servers EXCEPT ![id] = None] /\ Answer(a) /\ UNCHANGED <<net, unsettled>>
    BY <1>3, <1>10 DEF DeleteProxy
  <2>2. servers'[id] = None /\ \A q \in Ids \ {id} : servers'[q] = servers[q]
    BY <1>1, <1>3, <2>1 DEF TypeOK
  <2>3. \A q \in Ids \ {id} : SameEntry(q)
    BY <1>2, <2>1, <2>2 DEF SameEntry
  <2>. QED
    BY <1>5, <2>1, <2>2, <2>3 DEF Fits, ServedAs
<1>. QED
  BY <1>8, <1>9, <1>10

\* Every step of requests, goroutines and reloads keeps it so.
LEMMA EntriesStep ==
  ASSUME IInv, EntriesStand, [Next]_vars
  PROVE  EntriesStand'
<1>. USE ProxyServersAssumption
<1>1. TypeOK /\ NoLostListener
  BY DEF IInv
<1>2. ASSUME UNCHANGED <<rows, request, unsettled>>,
             \A id \in Ids : servers'[id] = servers[id] \/ servers'[id] = None,
             \A s \in Servers : (\E id \in Ids : servers'[id] = s) =>
               net'[s].addr = net[s].addr /\ net'[s].proto = net[s].proto
      PROVE  EntriesStand'
  <2>1. ASSUME NEW id \in Ids
        PROVE  Stands(id)'
    <3>1. CASE servers'[id] = servers[id]
      <4>1. SameEntry(id) /\ SameRequests(id)
        BY <1>1, <1>2, <3>1 DEF SameEntry, SameRequests, TypeOK
      <4>. QED
        BY <4>1, OthersStand DEF EntriesStand
    <3>2. CASE servers'[id] = None
      <4>1. \A c : ServedAs(servers'[id], net', c)
        BY <3>2 DEF ServedAs
      <4>2. SUFFICES ASSUME id \notin unsettled'
                     PROVE  /\ \A a \in Admins : For(a, id)' => Alone(a, id)' /\ Stage(a, id)'
                            /\ ~Busy(id)' => Fits(id, rows[id])'
        BY DEF Stands
      <4>3. ASSUME NEW a \in Admins, For(a, id)'
            PROVE  Alone(a, id)' /\ Stage(a, id)'
        <5>1. For(a, id)
          BY <1>2, <4>3 DEF For
        <5>2. Alone(a, id) /\ Stage(a, id)
          BY <1>2, <4>2, <5>1 DEF EntriesStand, Stands
        <5>3. Alone(a, id)'
          BY <1>2, <5>2 DEF Alone, For
        <5>4. Stage(a, id)'
          BY <1>2, <3>2, <4>1, <5>2 DEF Stage, Fits
        <5>. QED
          BY <5>3, <5>4
      <4>. QED
        BY <4>1, <4>3 DEF Fits
    <3>. QED
      BY <1>2, <3>1, <3>2
  <2>. QED
    BY <2>1 DEF EntriesStand
<1>3. CASE ShutdownOld
  <2>1. /\ closing \in Servers /\ UNCHANGED <<rows, servers, request, unsettled>>
        /\ \A s \in Servers \ {closing} : net'[s] = net[s]
    BY <1>1, <1>3 DEF ShutdownOld, TypeOK
  <2>2. Users(closing) # {} => net'[closing].addr = net[closing].addr /\ net'[closing].proto = net[closing].proto
    <3>1. \/ Users(closing) = {}
          \/ net'[closing] = net[closing]
          \/ net'[closing] = [net[closing] EXCEPT !.state = "closed"]
      BY <1>1, <1>3, <2>1 DEF ShutdownOld, TypeOK
    <3>. QED
      BY <1>1, <2>1, <3>1 DEF TypeOK
  <2>3. \A s \in Servers : (\E id \in Ids : servers'[id] = s) =>
          net'[s].addr = net[s].addr /\ net'[s].proto = net[s].proto
    BY <2>1, <2>2 DEF Users
  <2>. QED
    BY <1>2, <2>1, <2>3
<1>4. ASSUME NEW s \in Servers, Bind(s)
      PROVE  EntriesStand'
  <2>1. \A t \in Servers : net'[t].addr = net[t].addr /\ net'[t].proto = net[t].proto
    BY <1>1, <1>4 DEF Bind, TypeOK
  <2>. QED
    BY <1>2, <1>4, <2>1 DEF Bind
<1>5. ASSUME NEW s \in Servers, Forget(s)
      PROVE  EntriesStand'
  <2>1. \A t \in Servers \ {s} : net'[t] = net[t]
    BY <1>1, <1>5 DEF Forget, TypeOK
  <2>2. \A id \in Ids : (servers'[id] = servers[id] \/ servers'[id] = None) /\ servers'[id] # s
    BY <1>5 DEF Forget
  <2>. QED
    BY <1>2, <1>5, <2>1, <2>2 DEF Forget
<1>6. CASE ReloadAll
  BY <1>6, ReloadFits
<1>7. CASE UNCHANGED vars
  BY <1>2, <1>7 DEF vars
<1>. QED
  BY <1>3, <1>4, <1>5, <1>6, <1>7, RowStands, ManagerStands DEF Next

(* server_manager.go with the handlers of proxyconfig.go: whatever has an entry
   is an enabled row with the address and protocol it is served on, if nobody is
   changing the row and it is settled; for any number of rows, addresses and
   requests under way, whichever statement fails, with SIGHUP at any moment and
   however binding fails.                                                      *)
THEOREM EntriesAreRows == Spec => []EntriesMatchRows
<1>. DEFINE Inv == IInv /\ EntriesStand
<1>1. Init => Inv
  BY InitIInv DEF Init, EntriesStand, Stands, For, Fits, ServedAs
<1>2. Inv /\ [Next]_vars => Inv'
  BY NextIInv, EntriesStep
<1>3. Inv => EntriesMatchRows
  BY DEF EntriesStand, Stands, Fits, ServedAs, EntriesMatchRows, Enabled
<1>. QED
  BY <1>1, <1>2, <1>3, PTL DEF Spec
=============================================================================
