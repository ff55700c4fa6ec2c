------------------------- MODULE WeightedRoundRobin -------------------------
(* internal/backend, policy weighted_round_robin: Manager.selectWeightedRR and
   the credits it keeps per backend. The credits belong to the backend and not
   to the group, so groups that share a member share its credit, and they are
   kept when a member leaves the available list and comes back.

   wrrMu is held for the whole selection, so a selection is one step. The API
   stores no member weight below 1, so the branch for a total weight of 0 is
   not reached and is left out.                                               *)
EXTENDS Integers, Sequences, Functions

CONSTANTS
  Order,       \* all backends, in the order the lists are built
  Weight,      \* for each group, the weight of each of its members
  MaxForgets   \* bound: removals of a member in a behaviour

Groups == DOMAIN Weight
Backends == {Order[i] : i \in DOMAIN Order}
MembersOf(g) == DOMAIN Weight[g]

ASSUME OrderAssumption == Order \in Seq(Backends)
ASSUME WeightAssumption ==
  \A g \in Groups : MembersOf(g) \subseteq Backends
                    /\ \A b \in MembersOf(g) : Weight[g][b] \in Nat \ {0}
ASSUME BoundAssumption == MaxForgets \in Nat

VARIABLES
  credit,     \* wrrState[b].currentWeight; 0 when there is no entry
  available,  \* backends that are enabled and healthy (environment)
  last,       \* the group served last and the backend it was sent to
  turn,       \* history: selections of one group since all its credits were 0
  forgets     \* removals so far

vars == <<credit, available, last, turn, forgets>>

None == "none"
ASSUME NoneAssumption == None \notin Groups
NoTurn == [g |-> None, list |-> {}, count |-> <<>>]

Init ==
  /\ credit = [b \in Backends |-> 0]
  /\ available = Backends
  /\ last = [g |-> None, b |-> None]
  /\ turn = NoTurn
  /\ forgets = 0

Total(g, list) == SumFunctionOnSet(Weight[g], list)

\* Mutant of Credited: the weight replaces the credit.
CreditedAfresh(g, list) ==
  [b \in Backends |-> IF b \in list THEN Weight[g][b] ELSE credit[b]]

\* Credits after every member of the list has been given its weight.
Credited(g, list) ==
  [b \in Backends |-> IF b \in list THEN credit[b] + Weight[g][b] ELSE credit[b]]

Position(b) == CHOOSE i \in DOMAIN Order : Order[i] = b

\* The scan keeps the first of the highest credits, and none below 0.
Best(c, list) ==
  {b \in list : /\ c[b] >= 0
                /\ \A x \in list : x # b => \/ c[b] > c[x]
                                            \/ c[b] = c[x] /\ Position(b) < Position(x)}

Counted(g, list, b) ==
  LET begun == turn.g = g /\ turn.list = list
      zero  == \A x \in list : credit[x] = 0
  IN IF begun \/ zero
     THEN [g |-> g, list |-> list,
           count |-> LET old == IF zero THEN [x \in list |-> 0] ELSE turn.count
                     IN [old EXCEPT ![b] = @ + 1]]
     ELSE NoTurn

\* Mutant of Charged: the backend that is sent the request pays its own weight.
ChargedItsWeight(g, list, c, b) == [c EXCEPT ![b] = @ - Weight[g][b]]

\* The backend that is sent the request pays the weight of the whole list.
Charged(g, list, c, b) == [c EXCEPT ![b] = @ - Total(g, list)]

\* One request of group g. When every credit of the list is negative the scan
\* finds nothing, the round-robin index picks any member and nobody pays.
Select(g) ==
  LET list == MembersOf(g) \cap available
      c    == Credited(g, list)
  IN /\ list # {}
     /\ \E b \in IF Best(c, list) # {} THEN Best(c, list) ELSE list :
          /\ credit' = IF Best(c, list) # {} THEN Charged(g, list, c, b) ELSE c
          /\ last' = [g |-> g, b |-> b]
          /\ turn' = Counted(g, list, b)
     /\ UNCHANGED <<available, forgets>>

\* A backend fails its checks or recovers; its credit stays as it is.
Flip(b) ==
  /\ available' = (available \ {b}) \cup ({b} \ available)
  /\ turn' = NoTurn
  /\ UNCHANGED <<credit, last, forgets>>

\* RemoveGroupMember and RemoveBackend drop the entry: the next credit starts at
\* 0. The member is taken back by a later AddGroupMember.
Forget(b) ==
  /\ forgets < MaxForgets
  /\ forgets' = forgets + 1
  /\ credit[b] # 0
  /\ credit' = [credit EXCEPT ![b] = 0]
  /\ turn' = NoTurn
  /\ UNCHANGED <<available, last>>

Next ==
  \/ \E g \in Groups : Select(g)
  \/ \E b \in Backends : Flip(b) \/ Forget(b)

\* Requests of every group keep coming.
Fairness == \A g \in Groups : WF_vars(Select(g))
Spec == Init /\ [][Next]_vars /\ Fairness

-----------------------------------------------------------------------------
Largest(S) == CHOOSE x \in S : \A y \in S : y <= x
\* The largest price any group charges for a request.
TopPrice == Largest({Total(g, MembersOf(g)) : g \in Groups})

\* Every variable keeps its shape, and a credit never falls below the price of
\* one request of the dearest group nor climbs to twice that price, however the
\* groups that share a member alternate and however members come and go.
TypeOK ==
  /\ credit \in [Backends -> -TopPrice..(2 * TopPrice - 1)]
  /\ available \subseteq Backends
  /\ last \in [g : Groups \cup {None}, b : Backends \cup {None}]
  /\ turn.list \subseteq Backends

\* From equal credits, a group that is served alone gives each of its available
\* members exactly its weight in every round of as many requests as the weights
\* add up to, and the credits are equal again at the end of the round.
RoundsFollowWeights ==
  turn.g # None /\ SumFunction(turn.count) = Total(turn.g, turn.list) =>
     /\ \A b \in turn.list : turn.count[b] = Weight[turn.g][b]
     /\ \A b \in turn.list : credit[b] = 0

\* A member that stays available is served again and again, whatever the other
\* groups it belongs to and the other members do: credits lost to another group
\* or piled up before an absence delay it, they do not starve it.
NobodyStarves ==
  \A b \in Backends : <>[](b \in available) => []<>(last.b = b)
=============================================================================
