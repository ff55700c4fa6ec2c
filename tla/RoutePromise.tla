---------------------------- MODULE RoutePromise ----------------------------
(* What internal/backend promises to the requests it routes, whatever tables,
   locks and caches it keeps: a request of a group is offered the backends that
   are wanted for it, and while a change is on its way either those or the ones
   wanted before, never a mixture and never something older.                  *)
CONSTANTS Groups, Backends

VARIABLES
  wanted,    \* for each group and transport, the backends requests should get
  offered    \* the backends they are offered

vars == <<wanted, offered>>
Routes == [Groups \X BOOLEAN -> SUBSET Backends]

Init == wanted \in Routes /\ offered = wanted

\* A change, or the rest of one, takes effect for all requests at once.
Settle == wanted' \in Routes /\ offered' = wanted'

\* When nothing is on its way a change may reach some requests before others.
Change ==
  /\ offered = wanted
  /\ wanted' \in Routes
  /\ offered' \in Routes
  /\ \A r \in Groups \X BOOLEAN : offered'[r] \in {offered[r], wanted'[r]}

Next == Settle \/ Change
Spec == Init /\ [][Next]_vars
=============================================================================
