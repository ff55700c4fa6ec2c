--------------------------- MODULE RuleListPromise ---------------------------
(* What the engine of internal/domain/security/rules promises of a list of
   addresses, whatever rules, blocks, tables and steps it is kept in: requests are
   matched against a list that was read at one moment, and no address comes onto the
   list or leaves it that nobody named, but for what a merge had read before.  *)
CONSTANTS
  Ranged,       \* those that a merge keeps whatever happens
  Readers,
  Nameable      \* the sets of addresses that callers name

VARIABLES
  list,         \* the addresses that are listed
  live,         \* those that requests are matched against
  held          \* the list as each reader has read it, nothing if it has not

vars == <<list, live, held>>

Init == list = {} /\ live = {} /\ held = [r \in Readers |-> {}]

\* Somebody names addresses to be listed,
Enter(named) == list' = list \cup named /\ UNCHANGED <<live, held>>

\* or to be listed no more, which those stay that something else lists.
Leave(named) ==
  /\ list \ named \subseteq list' /\ list' \subseteq list
  /\ UNCHANGED <<live, held>>

\* A reader takes the list as it is; a reader may lose what it has.
Read(r) == held' = [held EXCEPT ![r] = list] /\ UNCHANGED <<list, live>>
Lose(r) == held' = [held EXCEPT ![r] = {}] /\ UNCHANGED <<list, live>>

\* What a reader holds comes into force.
Publish(r) ==
  /\ live' = held[r] /\ held' = [held EXCEPT ![r] = {}]
  /\ UNCHANGED list

\* What a merge holds becomes the list, with what it has no range for or without.
Merge(r) ==
  /\ list' \in {held[r], held[r] \cap Ranged}
  /\ held' = [held EXCEPT ![r] = {}]
  /\ UNCHANGED live

Next ==
  \/ \E named \in Nameable : Enter(named) \/ Leave(named)
  \/ \E r \in Readers : Read(r) \/ Lose(r) \/ Publish(r) \/ Merge(r)

Spec == Init /\ [][Next]_vars
=============================================================================
