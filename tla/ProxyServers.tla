---------------------------- MODULE ProxyServers ----------------------------
(* internal/domain/proxy/server_manager.go with the handlers of
   gateway/handler/proxyconfig.go: the listeners of the reverse proxy. A row of
   proxy_config names an address and a protocol; rows that agree on both share
   one http.Server. A goroutine per server binds the address, and takes every
   entry of the server out again if that fails.

   ProxyServerManager.mu is held through each operation, the Shutdown of the old
   server included; goroutines bind without it, and a handler changes its row
   before it asks for it. Administrators send requests that may be for one row,
   any statement of a handler may fail, and SIGHUP reloads at any moment.       *)
EXTENDS FiniteSets, Functions, Naturals

CONSTANTS
  Ids,           \* rows: ProxyConfig.ID
  Addrs,         \* ListenAddr
  Taken,         \* addresses some other process listens on
  Servers,       \* http.Servers; one nothing refers to may be allocated again
  Admins,        \* requests that may be under way
  Asked,         \* bound: configurations that are asked for
  None           \* no row, no server, no request

Protos == {"http", "https"}        \* ListenProtocol: ws is http, wss is https
Configs == [addr : Addrs, proto : Protos, enabled : BOOLEAN]
States == {"starting", "listening", "failed", "closed"}

\* A server that nothing refers to.
Unused == [addr |-> CHOOSE addr \in Addrs : TRUE, proto |-> "http", state |-> "closed"]

\* A handler keeps the row it is to write, and the one it replaces if it could read it.
Requests == [op : {"add"}, id : Ids, new : Configs]
            \cup [op : {"write"}, id : Ids, old : Configs \cup {None}]
            \cup [op : {"update"}, id : Ids, new : Configs, old : Configs \cup {None}]
            \cup [op : {"delete", "undoAdd"}, id : Ids]
            \cup [op : {"undoUpdate"}, id : Ids, old : Configs]

ASSUME ProxyServersAssumption ==
  /\ IsFiniteSet(Servers) /\ IsFiniteSet(Ids) /\ Cardinality(Servers) > Cardinality(Ids)
  /\ Addrs # {} /\ None \notin Servers \cup Configs \cup Requests /\ Taken \subseteq Addrs
  /\ Asked \subseteq Configs

VARIABLES
  rows,      \* proxy_config
  servers,   \* ProxyServerManager.servers
  net,       \* each server: its address and protocol, and how far it is
  request,   \* the handlers' requests
  closing,   \* the server a Shutdown under mu is closing
  unsettled  \* history: rows of which table and manager may disagree

vars == <<rows, servers, net, request, closing, unsettled>>

TypeOK ==
  /\ rows \in [Ids -> Configs \cup {None}]
  /\ servers \in [Ids -> Servers \cup {None}]
  /\ net \in [Servers -> [addr : Addrs, proto : Protos, state : States]]
  /\ request \in [Admins -> Requests \cup {None}]
  /\ closing \in Servers \cup {None}
  /\ unsettled \subseteq Ids

Init ==
  /\ rows = [id \in Ids |-> None]
  /\ servers = [id \in Ids |-> None]
  /\ net = [s \in Servers |-> Unused]
  /\ request = [a \in Admins |-> None]
  /\ closing = None
  /\ unsettled = {}

-----------------------------------------------------------------------------
Enabled(id) == rows[id] # None /\ rows[id].enabled
Users(s) == {id \in Ids : servers[id] = s}
Others(id, addr) ==
  {other \in Ids \ {id} : servers[other] # None /\ net[servers[other]].addr = addr}
Spare == {s \in Servers : net[s].state \in {"closed", "failed"} /\ Users(s) = {} /\ s # closing}

\* startServerLocked: share the server at the address, or start one.
Share(id, c) ==
  \E other \in Others(id, c.addr) :
    /\ net[servers[other]].proto = c.proto
    /\ servers' = [servers EXCEPT ![id] = servers[other]]
    /\ UNCHANGED net

StartOwn(id, c) ==
  /\ Others(id, c.addr) = {}
  /\ \E s \in Spare :
       /\ servers' = [servers EXCEPT ![id] = s]
       /\ net' = [net EXCEPT ![s] = [addr |-> c.addr, proto |-> c.proto, state |-> "starting"]]

StartServer(id, c) == Share(id, c) \/ StartOwn(id, c)

\* The address is in use with the other protocol.
Refused(id, c) == \E other \in Others(id, c.addr) : net[servers[other]].proto # c.proto

-----------------------------------------------------------------------------
(* The handlers: first the row, then the server manager, which takes the
   configuration of the request. A request for a row that another one is under
   way for leaves the row unsettled.                                          *)

Busy(id) == \E a \in Admins : request[a] # None /\ request[a].id = id
Answer(a) == request' = [request EXCEPT ![a] = None]
Ask(a, r) == request' = [request EXCEPT ![a] = r]
Overtakes(id) == unsettled' = IF Busy(id) THEN unsettled \cup {id} ELSE unsettled

\* APIProxyAdd, with an id that is new.
AddRow(a, id, c) ==
  /\ request[a] = None
  /\ rows[id] = None /\ servers[id] = None /\ ~Busy(id)
  /\ rows' = [rows EXCEPT ![id] = c]
  /\ Ask(a, [op |-> "add", id |-> id, new |-> c])
  /\ unsettled' = unsettled \ {id}
  /\ UNCHANGED <<servers, net, closing>>

\* APIProxyUpdate: GetProxy may find no row or fail; the handler goes on all the same.
GetProxy(a, id) ==
  /\ request[a] = None
  /\ \E old \in {rows[id], None} : Ask(a, [op |-> "write", id |-> id, old |-> old])
  /\ Overtakes(id)
  /\ UNCHANGED <<rows, servers, net, closing>>

\* The row is overwritten; there may be none, or the statement may fail.
UpdateRow(a) ==
  /\ request[a] # None /\ request[a].op = "write"
  /\ LET r == request[a]
     IN \/ \E c \in Asked :
             /\ rows[r.id] # None /\ rows' = [rows EXCEPT ![r.id] = c]
             /\ Ask(a, [op |-> "update", id |-> r.id, new |-> c, old |-> r.old])
        \/ UNCHANGED rows /\ Answer(a)
  /\ UNCHANGED <<servers, net, closing, unsettled>>

\* APIProxyDelete: no error if there is no such row.
DeleteRow(a, id) ==
  /\ request[a] = None
  /\ rows' = [rows EXCEPT ![id] = None]
  /\ Ask(a, [op |-> "delete", id |-> id])
  /\ Overtakes(id)
  /\ UNCHANGED <<servers, net, closing>>

\* The manager's mutex is free for it.
Asks(a, op) == request[a] # None /\ request[a].op = op /\ closing = None

\* AddProxy; a reload may have started the row's server before it.
AddProxy(a) ==
  /\ Asks(a, "add")
  /\ LET id == request[a].id
         c == request[a].new
     IN \/ ~c.enabled /\ Answer(a) /\ UNCHANGED <<servers, net>>
        \/ /\ c.enabled /\ (servers[id] # None \/ Refused(id, c))
           /\ Ask(a, [op |-> "undoAdd", id |-> id])
           /\ UNCHANGED <<servers, net>>
        \/ c.enabled /\ servers[id] = None /\ StartServer(id, c) /\ Answer(a)
  /\ UNCHANGED <<rows, closing, unsettled>>

\* Mutant of Restore: a refused row stays.
RestoreNothing(a) == Answer(a) /\ UNCHANGED unsettled

\* The handler of a refused update puts the row back that it has read, if any.
Restore(a) ==
  LET r == request[a]
  IN IF r.old # None
     THEN Ask(a, [op |-> "undoUpdate", id |-> r.id, old |-> r.old]) /\ UNCHANGED unsettled
     ELSE Answer(a) /\ unsettled' = unsettled \cup {r.id}

\* Mutant of UpdateProxy: the old server is never shut down.
UpdateProxyLeavesOld(a) ==
  /\ Asks(a, "update")
  /\ LET id == request[a].id
         c == request[a].new
     IN \/ /\ ~c.enabled /\ servers' = [servers EXCEPT ![id] = None]
           /\ Answer(a)
           /\ UNCHANGED <<net, unsettled>>
        \/ c.enabled /\ Refused(id, c) /\ Restore(a) /\ UNCHANGED <<servers, net>>
        \/ c.enabled /\ StartServer(id, c) /\ Answer(a) /\ UNCHANGED unsettled
  /\ UNCHANGED <<rows, closing>>

\* UpdateProxy: the entry is replaced or, if the new one is refused, put back; the
\* old server is then shut down, whoever else uses it.
UpdateProxy(a) ==
  /\ Asks(a, "update")
  /\ LET id == request[a].id
         c == request[a].new
     IN \/ /\ ~c.enabled /\ servers' = [servers EXCEPT ![id] = None]
           /\ closing' = servers[id] /\ Answer(a)
           /\ UNCHANGED <<net, unsettled>>
        \/ c.enabled /\ Refused(id, c) /\ Restore(a) /\ UNCHANGED <<servers, net, closing>>
        \/ /\ c.enabled /\ StartServer(id, c)
           /\ closing' = servers[id] /\ Answer(a)
           /\ UNCHANGED unsettled
  /\ UNCHANGED rows

\* DeleteProxy: the last user of a server shuts it down.
DeleteProxy(a) ==
  /\ Asks(a, "delete")
  /\ LET id == request[a].id
     IN /\ servers' = [servers EXCEPT ![id] = None]
        /\ closing' = IF Users(servers[id]) = {id} THEN servers[id] ELSE None
  /\ Answer(a)
  /\ UNCHANGED <<rows, net, unsettled>>

\* The row of a refused AddProxy is deleted; an error is ignored, and the row stays
\* without an entry.
UndoAdd(a) ==
  /\ request[a] # None /\ request[a].op = "undoAdd"
  /\ rows' \in {rows, [rows EXCEPT ![request[a].id] = None]}
  /\ Answer(a)
  /\ UNCHANGED <<servers, net, closing, unsettled>>

\* The row as it was before the request; an error is only logged.
UndoUpdate(a) ==
  /\ request[a] # None /\ request[a].op = "undoUpdate"
  /\ LET r == request[a]
     IN \/ /\ rows[r.id] # None /\ rows' = [rows EXCEPT ![r.id] = r.old]
           /\ UNCHANGED unsettled
        \/ UNCHANGED rows /\ unsettled' = unsettled \cup {r.id}
  /\ Answer(a)
  /\ UNCHANGED <<servers, net, closing>>

\* http.Server.Shutdown of the old server, mu still held. The goroutine of one that
\* could not bind, and has no entry left, will find nothing to take out.
ShutdownOld ==
  /\ closing # None
  /\ net' = [net EXCEPT ![closing] =
               IF Users(closing) = {} THEN Unused
               ELSE IF @.state = "failed" THEN @ ELSE [@ EXCEPT !.state = "closed"]]
  /\ closing' = None
  /\ UNCHANGED <<rows, servers, request, unsettled>>

-----------------------------------------------------------------------------
\* ReloadAll: every server is shut down, then the enabled rows are started in
\* some order; of two that name one address the first decides the protocol. If
\* the rows cannot be read nothing is started. This settles each row, unless a request
\* for it is between the row and the manager.
ReloadAll ==
  /\ closing = None
  /\ \E on \in {{}, {id \in Ids : Enabled(id)}}, first \in [Addrs -> Ids] :
       LET own == CHOOSE f \in Injection(Ids, Servers) : TRUE
           lead(id) == first[rows[id].addr]
           leads == {lead(id) : id \in on}
           runs(s) == {id \in leads : own[id] = s}
       IN /\ \A id \in on : lead(id) \in on /\ rows[lead(id)].addr = rows[id].addr
          /\ servers' = [id \in Ids |->
               IF id \in on /\ rows[id].proto = rows[lead(id)].proto THEN own[lead(id)] ELSE None]
          /\ net' = [s \in Servers |->
               IF runs(s) = {} THEN Unused
               ELSE LET c == rows[CHOOSE id \in runs(s) : TRUE]
                    IN [addr |-> c.addr, proto |-> c.proto, state |-> "starting"]]
  /\ unsettled' = {id \in Ids : Busy(id)}
  /\ UNCHANGED <<rows, request, closing>>

\* The server's goroutine binds the address, or cannot.
Bind(s) ==
  /\ net[s].state = "starting"
  /\ LET busy == \/ net[s].addr \in Taken
                 \/ \E t \in Servers : net[t].state = "listening" /\ net[t].addr = net[s].addr
     IN net' = [net EXCEPT ![s].state = IF busy THEN "failed" ELSE "listening"]
  /\ UNCHANGED <<rows, servers, request, closing, unsettled>>

\* The goroutine of a server that could not bind takes its entries out.
Forget(s) ==
  /\ net[s].state = "failed" /\ closing = None
  /\ servers' = [id \in Ids |-> IF servers[id] = s THEN None ELSE servers[id]]
  /\ net' = [net EXCEPT ![s] = Unused]
  /\ UNCHANGED <<rows, request, closing, unsettled>>

Next ==
  \/ \E a \in Admins :
       \/ \E id \in Ids : \/ \E c \in Asked : AddRow(a, id, c)
                         \/ GetProxy(a, id) \/ DeleteRow(a, id)
       \/ UpdateRow(a)
       \/ AddProxy(a) \/ UpdateProxy(a) \/ DeleteProxy(a)
       \/ UndoAdd(a) \/ UndoUpdate(a)
  \/ ShutdownOld
  \/ ReloadAll
  \/ \E s \in Servers : Bind(s) \/ Forget(s)

Spec == Init /\ [][Next]_vars

-----------------------------------------------------------------------------
\* No listener is lost from sight: one that serves or is about to has an entry
\* through which it can be shut down, or is being shut down. Otherwise its port
\* would stay open, and taken, until the process ends.
NoLostListener ==
  \A s \in Servers : net[s].state \in {"starting", "listening"} => Users(s) # {} \/ s = closing

\* A row that nobody is changing has no entry, or is enabled and has the address and
\* protocol it is served on: refused changes are rolled back in table and manager
\* alike, and no request, goroutine or reload disturbs the row of another one
\* (APIProxyAdd, APIProxyUpdate, APIProxyDelete, ReloadAll). Except, until a reload
\* finds it at rest, a row for which requests crossed, whose request a reload came
\* into, or whose refused update could not be put back: its old row was not read, was
\* gone, or the statement failed.
EntriesMatchRows ==
  \A id \in Ids \ unsettled : ~Busy(id) /\ servers[id] # None =>
    Enabled(id) /\ rows[id].addr = net[servers[id]].addr /\ rows[id].proto = net[servers[id]].proto

\* server_manager.go:468, "failed to start the new proxy, the old one is
\* restored", and DeleteProxy's check for other users: an entry that an operation
\* leaves behind has a server that serves, is starting, or is yet to be forgotten.
EntriesServe ==
  closing = None => \A id \in Ids : servers[id] # None => net[servers[id]].state # "closed"
=============================================================================
