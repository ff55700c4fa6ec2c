------------------------------ MODULE CidrMerge ------------------------------
(* internal/domain/security/rules/cidr_merge.go: how a list of addresses and
   networks becomes a shorter one. Each turn of its loops is a step. A word has 32
   bits in the code and Bits of them here, and arithmetic wraps as it does there.
   Blocks are sets of addresses.                                               *)
EXTENDS FiniteSets, AddressBlocks

CONSTANTS
  Written,      \* bound: the texts that lists are made of
  MaxListed     \* bound: the length of a list

\* An address or a network as it is written: of IPv4 by its first address and the
\* ones of its mask, of IPv6 by the ones alone, since To4 gives none of its bits.
SizeOf(ones) == 2^(Bits - ones)
Texts ==
  {t \in [v6 : {FALSE}, start : IPv4, ones : 0..Bits] : t.start % SizeOf(t.ones) = 0}
  \cup [v6 : {TRUE}, start : {0}, ones : 0..(4 * Bits)]
ASSUME TextsAssumption == Written \subseteq Texts /\ MaxListed \in Nat

VARIABLES
  ipList,       \* the argument of the call
  mergeStep,
  unscanned,    \* texts whose range is not yet merged
  run,          \* [first, last]: the range that grows, then the one that is cut
  runs,         \* those that were merged before it, or are still to be cut
  cidrs         \* the result, text by text

mergeVars == <<ipList, mergeStep, unscanned, run, runs, cidrs>>

Nowhere == [first |-> 0, last |-> 0]
MergeInit ==
  /\ ipList = {} /\ mergeStep = "idle" /\ unscanned = {} /\ run = Nowhere /\ runs = {} /\ cidrs = {}

\* The mask of everything has no range, nor has one of more ones than a word has
\* bits: its size overflows to 0.
HasRange(t) == t.ones \in 1..Bits

\* ipToUint32 gives 0 for what is not IPv4: a network of IPv6 whose mask is short
\* enough has a range at 0.
RangeOf(t) == [first |-> t.start, last |-> t.start + SizeOf(t.ones) - 1]

Lowest(ts) == {t \in ts : \A u \in ts : t.start <= u.start}

\* With fewer than two ranges the list is returned as it is: nothing happens.
Call(texts) ==
  LET ranged == {t \in texts : HasRange(t)}
  IN /\ Cardinality(ranged) > 1
     /\ mergeStep' = "scan" /\ ipList' = texts
     /\ \E t \in Lowest(ranged) : unscanned' = ranged \ {t} /\ run' = RangeOf(t)
     /\ UNCHANGED <<runs, cidrs>>

\* Ranges come in the order of their first addresses. One that begins in the run or
\* next to its end makes it longer, if it reaches further.
Touches(t) == RangeOf(t).first <= (run.last + 1) % 2^Bits
Scan ==
  /\ mergeStep = "scan"
  /\ \E t \in Lowest(unscanned) :
       /\ unscanned' = unscanned \ {t}
       /\ IF Touches(t)
          THEN /\ run' = IF RangeOf(t).last > run.last THEN [run EXCEPT !.last = RangeOf(t).last] ELSE run
               /\ UNCHANGED runs
          ELSE runs' = runs \cup {run} /\ run' = RangeOf(t)
  /\ UNCHANGED <<ipList, mergeStep, cidrs>>

\* Another run is cut, or there is none.
NextRun ==
  \/ \E r \in runs : run' = r /\ runs' = runs \ {r} /\ UNCHANGED mergeStep
  \/ runs = {} /\ mergeStep' = "done" /\ UNCHANGED <<run, runs>>

EndScan ==
  /\ mergeStep = "scan" /\ unscanned = {}
  /\ \E r \in runs \cup {run} : run' = r /\ runs' = (runs \cup {run}) \ {r}
  /\ mergeStep' = "cut"
  /\ UNCHANGED <<ipList, unscanned, cidrs>>

\* Mutant of BlockFits: whether a block may begin at the first address is not asked.
BlockFitsAnywhere(r) == {k \in 0..(Bits - 1) : 2^k - 1 <= r.last - r.first}

\* rangeToCIDRs cuts off the largest block that begins with the run and ends within it.
BlockFits(r) == {k \in 0..(Bits - 1) : r.first % 2^k = 0 /\ 2^k - 1 <= r.last - r.first}
MaxBits(r) == CHOOSE k \in BlockFits(r) : \A j \in BlockFits(r) : j <= k

CutOff ==
  LET next == (run.first + 2^MaxBits(run)) % 2^Bits
  IN /\ mergeStep = "cut"
     /\ cidrs' = cidrs \cup {run.first..(run.first + 2^MaxBits(run) - 1)}
     /\ IF run.first < next /\ next <= run.last
        THEN run' = [run EXCEPT !.first = next] /\ UNCHANGED <<mergeStep, runs>>
        ELSE NextRun
     /\ UNCHANGED <<ipList, unscanned>>

Return ==
  /\ mergeStep = "done"
  /\ ipList' = {} /\ mergeStep' = "idle" /\ run' = Nowhere /\ cidrs' = {}
  /\ UNCHANGED <<unscanned, runs>>

MergeNext ==
  \/ mergeStep = "idle" /\ \E texts \in SUBSET Written : Cardinality(texts) <= MaxListed /\ Call(texts)
  \/ Scan \/ EndScan \/ CutOff \/ Return

MergeSpec == MergeInit /\ [][MergeNext]_mergeVars
-----------------------------------------------------------------------------
\* The addresses that a list matches, of which IPv6 has none.
Matched(texts) == UNION {t.start..(t.start + SizeOf(t.ones) - 1) : t \in {u \in texts : ~u.v6}}

\* A network of IPv6 with a short mask is taken for one of IPv4, and the network of
\* all addresses is lost.
Proper(texts) == \A t \in texts : IF t.v6 THEN ~HasRange(t) ELSE HasRange(t)

\* mergeIPsToCIDRs: whatever networks overlap or touch, the blocks of the result match
\* what the list matched; and they are the largest there are, so nothing can be
\* merged further, unless the list reaches the last address, where the end of a
\* range plus one wraps to 0.
MergeIsRight ==
  mergeStep = "done" /\ Proper(ipList) =>
    /\ UNION cidrs = Matched(ipList)
    /\ 2^Bits - 1 \notin Matched(ipList) => cidrs = LargestBlocks(Matched(ipList))
=============================================================================
