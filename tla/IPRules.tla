------------------------------ MODULE IPRules ------------------------------
(* internal/domain/security/rules: the table ip_rules, the merging of adjacent
   addresses into CIDR blocks, and the snapshot that every request is matched
   against without a lock.

   A rule is the set of addresses it matches. IPv4 is a small aligned piece of
   the address space that touches neither end of it; IPv6 addresses are values
   of their own, which no IPv4 block contains. One rule type is modelled, the
   blacklist: the whitelist goes through the same code on rows of its own.

   Nothing locks the table: each SQL statement, each transaction, each scan of
   the rows and each store of a snapshot is a step of the goroutine (a worker)
   that runs the operation, and the steps of several workers interleave.      *)
EXTENDS FiniteSets, Sequences, AddressBlocks

CONSTANTS
  IPv6,          \* IPv6 addresses that rules may name
  Named,         \* bound: the rules callers name
  Workers,       \* goroutines that run operations of the rule engine
  Ops,           \* the operations they may run
  MaxFailures    \* bound: statements that fail

AllOps == {"AddIPRule", "RemoveIPRule", "SetIPRuleEnabled", "ReloadRules"}
ASSUME NamedAssumption == Named \subseteq SUBSET (IPv6 \cup 0..(2^Bits - 1))
ASSUME IPRulesAssumption == /\ Ops \subseteq AllOps
                            /\ MaxFailures \in Nat
                            /\ IPv6 \cap (0..(2^Bits - 1)) = {}

VARIABLES
  rows,       \* ip_rules: the rules present
  enabled,    \* those with enabled = 1
  snapshot,   \* Engine.snapshot: the addresses it blocks
  todo,       \* what each worker still has to do, in order
  seen,       \* rows or addresses a worker has scanned and not yet used
  asked,      \* history: addresses some rule was ever added for
  failures    \* failed statements so far

table == <<rows, enabled>>
rvars == <<rows, enabled, snapshot, todo, seen, asked, failures>>

-----------------------------------------------------------------------------
Rules == Blocks \cup {{a} : a \in IPv6}

\* Mutant of Merged: gaps between the outermost addresses are filled.
MergedAcrossGaps(S) ==
  IF Cardinality(S \cap Blocks) <= 1 THEN S
  ELSE LargestBlocks({x \in IPv4 : \E y, z \in UNION (S \cap Blocks) : y <= x /\ x <= z})

\* mergeIPsToCIDRs, see CidrMerge. Addresses of IPv6 have no range: with fewer than
\* two ranges the list is returned as it is, with more they are left out of it.
Merged(S) ==
  IF Cardinality(S \cap Blocks) <= 1 THEN S ELSE LargestBlocks(UNION (S \cap Blocks))
Shrinks(S) == Cardinality(S) > 1 /\ Cardinality(Merged(S)) < Cardinality(S)

Steps == {"select", "commit", "build", "store"}

TypeOK ==
  /\ rows \subseteq Rules
  /\ enabled \subseteq rows
  /\ snapshot \subseteq UNION Rules
  /\ todo \in [Workers -> Seq(Steps)]
  /\ seen \in [Workers -> SUBSET Rules]
  /\ asked \subseteq UNION Rules
  /\ failures \in 0..MaxFailures

Init ==
  /\ rows = {}
  /\ enabled = {}
  /\ snapshot = {}
  /\ todo = [w \in Workers |-> <<>>]
  /\ seen = [w \in Workers |-> {}]
  /\ asked = {}
  /\ failures = 0

-----------------------------------------------------------------------------
Load == <<"build", "store">>       \* loadAllRules
Merge == <<"select">>              \* tryMergeIPRules, as far as it is known to go
Free(w) == todo[w] = <<>>

\* INSERT OR IGNORE. A row that exists is left as it is; AddIPRule returns then,
\* AddIPRuleWithSource tries to merge all the same.
Insert(w, r, always) ==
  /\ rows' = rows \cup {r}
  /\ enabled' = IF r \in rows THEN enabled ELSE enabled \cup {r}
  /\ todo' = [todo EXCEPT ![w] = IF r \in rows /\ ~always THEN <<>> ELSE Merge]
  /\ asked' = asked \cup r

AddIPRule(w, r) ==
  /\ Free(w)
  /\ Insert(w, r, FALSE)
  /\ UNCHANGED <<snapshot, seen, failures>>

\* Mutant of Delete: the rule is gone from the list and still in force.
DeleteLeavesEnabled(w, r) ==
  /\ rows' = rows \ {r}
  /\ todo' = [todo EXCEPT ![w] = Load \o Merge]
  /\ UNCHANGED enabled

\* DELETE of the exact text, reload, then a merge of what is left.
Delete(w, r) ==
  /\ rows' = rows \ {r}
  /\ enabled' = enabled \ {r}
  /\ todo' = [todo EXCEPT ![w] = Load \o Merge]

RemoveIPRule(w, r) ==
  /\ Free(w)
  /\ Delete(w, r)
  /\ UNCHANGED <<snapshot, seen, asked, failures>>

SetIPRuleEnabled(w, r, on) ==
  /\ Free(w)
  /\ r \in rows
  /\ enabled' = IF on THEN enabled \cup {r} ELSE enabled \ {r}
  /\ todo' = [todo EXCEPT ![w] = Load]
  /\ UNCHANGED <<rows, snapshot, seen, asked, failures>>

\* The reload ticker, SIGHUP and the change detector.
ReloadRules(w) ==
  /\ Free(w)
  /\ todo' = [todo EXCEPT ![w] = Load]
  /\ UNCHANGED <<table, snapshot, seen, asked, failures>>

-----------------------------------------------------------------------------
Doing(w, step) == ~Free(w) /\ Head(todo[w]) = step

\* A statement works, or fails: MaxFailures of them in all.
Works == UNCHANGED failures
Breaks == failures < MaxFailures /\ failures' = failures + 1

\* tryMergeIPRules reads the enabled rules and gives up unless merging shrinks
\* the list.
Select(w) ==
  /\ Doing(w, "select")
  /\ \/ /\ Works
        /\ Shrinks(enabled)
        /\ seen' = [seen EXCEPT ![w] = enabled]
        /\ todo' = [todo EXCEPT ![w] = <<"commit">> \o Load]
     \/ /\ IF Shrinks(enabled) THEN Breaks ELSE Works
        /\ todo' = [todo EXCEPT ![w] = <<>>]
        /\ UNCHANGED seen
  /\ UNCHANGED <<table, snapshot, asked>>

\* One transaction: every row of the type goes, the merged ones come in. When a
\* statement of it fails nothing is reloaded, when its COMMIT fails all is.
Commit(w) ==
  /\ Doing(w, "commit")
  /\ \/ /\ Works
        /\ rows' = Merged(seen[w])
        /\ enabled' = rows'
        /\ todo' = [todo EXCEPT ![w] = Tail(@)]
     \/ /\ Breaks
        /\ \E rest \in {<<>>, Tail(todo[w])} : todo' = [todo EXCEPT ![w] = rest]
        /\ UNCHANGED table
  /\ seen' = [seen EXCEPT ![w] = {}]
  /\ UNCHANGED <<snapshot, asked>>

\* buildIPRules. A query that fails builds a snapshot with no IP rule at all.
Build(w) ==
  /\ Doing(w, "build")
  /\ \/ Works /\ seen' = [seen EXCEPT ![w] = enabled]
     \/ Breaks /\ seen' = [seen EXCEPT ![w] = {}]
  /\ todo' = [todo EXCEPT ![w] = Tail(@)]
  /\ UNCHANGED <<table, snapshot, asked>>

\* Mutant of Store: the new snapshot is added to the old one.
StoreOnTop(w) ==
  /\ Doing(w, "store")
  /\ snapshot' = snapshot \cup UNION seen[w]
  /\ seen' = [seen EXCEPT ![w] = {}]
  /\ todo' = [todo EXCEPT ![w] = Tail(@)]
  /\ UNCHANGED <<table, asked, failures>>

\* The lock around the store does not cover the scan.
Store(w) ==
  /\ Doing(w, "store")
  /\ snapshot' = UNION seen[w]
  /\ seen' = [seen EXCEPT ![w] = {}]
  /\ todo' = [todo EXCEPT ![w] = Tail(@)]
  /\ UNCHANGED <<table, asked, failures>>

Progress(w) == Select(w) \/ Commit(w) \/ Build(w) \/ Store(w)

Next ==
  \E w \in Workers :
    \/ \E r \in Named \cap Rules :
         \/ "AddIPRule" \in Ops /\ AddIPRule(w, r)
         \/ "RemoveIPRule" \in Ops /\ RemoveIPRule(w, r)
         \/ \E on \in BOOLEAN : "SetIPRuleEnabled" \in Ops /\ SetIPRuleEnabled(w, r, on)
    \/ "ReloadRules" \in Ops /\ ReloadRules(w)
    \/ Progress(w)

Spec == Init /\ [][Next]_rvars

\* Every operation runs to its end, and the reload ticker never stops.
Fairness == \A w \in Workers : WF_rvars(Progress(w)) /\ SF_rvars(ReloadRules(w))
FairSpec == Spec /\ Fairness

-----------------------------------------------------------------------------
\* The engine keeps the promise of RuleListPromise: what requests are matched
\* against is a list that was in force when somebody read it, and the list changes
\* by what a caller named or, address for address, to what a merge had read.
ListPromise == INSTANCE RuleListPromise
  WITH Ranged <- IPv4, Readers <- Workers,
       Nameable <- Named \cap Rules,
       list <- UNION enabled, live <- snapshot, held <- [w \in Workers |-> UNION seen[w]]
KeepsListPromise == ListPromise!Spec

\* Nobody is blocked by accident: every address the table, a scan of it or the
\* snapshot names belongs to a rule somebody added. Merging widens no block beyond what it
\* replaces, however the transactions of several goroutines interleave.
NoCollateral ==
  /\ UNION rows \subseteq asked
  /\ snapshot \subseteq asked
  /\ \A w \in Workers : UNION seen[w] \subseteq asked

\* README.md, "hot reload": once the table is left alone, requests are matched
\* against exactly its enabled rules from some moment on. A snapshot built before
\* the last change and stored after it, and one built from a failed query, do not
\* survive.
LiveFollowsTable ==
  []<><<TRUE>>_table \/ <>[](snapshot = UNION enabled)

\* ip.go:106, "adds a rule (and merges adjacent addresses into CIDR blocks)": one
\* administrator who adds a rule takes nothing off the blacklist.
AddingLosesNothing ==
  [][\A w \in Workers : (\/ \E r \in Named : AddIPRule(w, r)
                         \/ Commit(w))
        => UNION enabled \subseteq UNION enabled']_rvars
=============================================================================
