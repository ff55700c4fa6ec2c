-------------------------- MODULE AutoBlock_proofs --------------------------
(* What holds of the rules on addresses and of automatic bans. Of the merging of a
   list, for words of any number of bits and lists of any length: that its loops
   give the largest blocks of what the list matched. Of the rules, for every
   address space, every set of callers and every interleaving of their operations:
   the type invariant, that a merge is exact, that nobody is blocked by accident,
   that the engine keeps the promise of RuleListPromise, and that one caller loses
   no IPv4 address. Of bans, for every set of addresses, every threshold and
   any number of crashes and failed statements: the type invariant, and that memory
   holds no address without a record of it; and until the first crash, that a
   banned address is on the list, and every rule on record.                   *)
EXTENDS AutoBlock, CidrMerge, SequenceTheorems, FiniteSetTheorems, WellFoundedInduction, TLAPS

-----------------------------------------------------------------------------
(* Powers of two, and the blocks they make. *)

\* The numbers by their order.
Below == {ss \in Nat \X Nat : ss[1] < ss[2]}

\* No number has numbers below it without end.
LEMMA BelowIsWellFounded == IsWellFoundedOn(Below, Nat)
BY NatLessThanWellFounded DEF OpToRel, Below

\* Induction over the numbers, for a set that is named.
LEMMA FromZero ==
  ASSUME NEW G, 0 \in G, \A n \in Nat : n \in G => n + 1 \in G
  PROVE  Nat \subseteq G
<1>. DEFINE outside == Nat \ G
<1>. SUFFICES ASSUME outside # {} PROVE FALSE
  OBVIOUS
<1>1. PICK n \in outside : \A m \in outside : <<m, n>> \notin Below
  <2>1. outside \subseteq Nat
    OBVIOUS
  <2>. HIDE DEF outside
  <2>2. QED
    BY <2>1, BelowIsWellFounded, WFMin
<1>2. n \in Nat /\ n - 1 \in Nat /\ n - 1 < n
  BY <1>1
<1>3. n - 1 \notin outside
  <2>1. <<n - 1, n>> \in Below
    BY <1>2 DEF Below
  <2>2. QED
    BY <1>1, <2>1
<1>4. n - 1 \in G /\ (n - 1) + 1 = n
  BY <1>2, <1>3
<1>5. n \in G
  BY <1>2, <1>4
<1>6. QED
  BY <1>1, <1>5

\* A set of n members has 2^n subsets: so many more with one member more.
LEMMA PowersDouble ==
  /\ 2^0 = 1
  /\ \A n \in Nat : 2^n \in Nat /\ 2^n >= 1 /\ 2^(n + 1) = 2 * 2^n
<1>1. ASSUME NEW n \in Nat
      PROVE  2^n \in Nat /\ 2^n >= 1
  <2>1. IsFiniteSet(1..n) /\ Cardinality(1..n) = n
    BY FS_Interval
  <2>2. IsFiniteSet(SUBSET (1..n)) /\ Cardinality(SUBSET (1..n)) = 2^n
    BY <2>1, FS_SUBSET
  <2>3. Cardinality(SUBSET (1..n)) \in Nat /\ Cardinality(SUBSET (1..n)) # 0
    BY <2>2, FS_CardinalityType, FS_EmptySet
  <2>4. QED
    BY <2>2, <2>3
<1>2. ASSUME NEW n \in Nat
      PROVE  2^(n + 1) = 2 * 2^n
  <2>. DEFINE S == SUBSET (1..n)
              T == {s \cup {n + 1} : s \in S}
  <2>1. IsFiniteSet(1..n) /\ Cardinality(1..n) = n /\ IsFiniteSet(1..(n + 1)) /\ Cardinality(1..(n + 1)) = n + 1
    BY FS_Interval
  <2>2. IsFiniteSet(S) /\ Cardinality(S) = 2^n /\ Cardinality(SUBSET (1..(n + 1))) = 2^(n + 1)
    BY <2>1, FS_SUBSET
  <2>3. SUBSET (1..(n + 1)) = S \cup T
    <3>1. 1..(n + 1) = (1..n) \cup {n + 1}
      OBVIOUS
    <3>2. ASSUME NEW s \in SUBSET (1..(n + 1))
          PROVE  s \in S \cup T
      <4>1. CASE n + 1 \in s
        <5>1. s \ {n + 1} \in S /\ s = (s \ {n + 1}) \cup {n + 1}
          BY <3>1, <4>1
        <5>2. QED
          BY <5>1
      <4>2. CASE n + 1 \notin s
        BY <3>1, <4>2
      <4>3. QED
        BY <4>1, <4>2
    <3>3. S \subseteq SUBSET (1..(n + 1)) /\ T \subseteq SUBSET (1..(n + 1))
      BY <3>1
    <3>4. QED
      BY <3>2, <3>3
  <2>4. \A s \in S : n + 1 \notin s
    OBVIOUS
  <2>5. S \cap T = {}
    BY <2>4
  <2>6. IsFiniteSet(T) /\ Cardinality(T) = Cardinality(S)
    <3>. DEFINE f == [s \in S |-> s \cup {n + 1}]
    <3>1. f \in Bijection(S, T)
      <4>1. \A s \in S : (s \cup {n + 1}) \ {n + 1} = s
        BY <2>4
      <4>2. \A s, t \in S : f[s] = f[t] => s = t
        BY <4>1
      <4>3. f \in [S -> T] /\ \A t \in T : \E s \in S : f[s] = t
        OBVIOUS
      <4>4. QED
        BY <4>2, <4>3 DEF Bijection, Injection, Surjection, IsInjective
    <3>. HIDE DEF f, S, T
    <3>2. QED
      BY <2>2, <3>1, FS_Bijection DEF ExistsBijection
  <2>7. Cardinality(S \cup T) = Cardinality(S) + Cardinality(T) - Cardinality(S \cap T)
    <3>. HIDE DEF S, T
    <3>1. QED
      BY <2>2, <2>6, FS_Union
  <2>8. Cardinality({}) = 0
    BY FS_EmptySet
  <2>9. 2^n \in Nat /\ 2^(n + 1) \in Nat
    BY <1>1
  <2>. HIDE DEF S, T
  <2>10. 2^(n + 1) = 2^n + 2^n - 0
    BY <2>2, <2>3, <2>5, <2>6, <2>7, <2>8
  <2>11. QED
    BY <2>9, <2>10
<1>3. 2^0 = 1
  <2>1. Cardinality(SUBSET {}) = 2^0
    BY FS_EmptySet, FS_SUBSET
  <2>2. SUBSET {} = {{}} /\ Cardinality({{}}) = 1
    BY FS_Singleton
  <2>3. QED
    BY <2>1, <2>2
<1>4. QED
  BY <1>1, <1>2, <1>3

\* Exponents add up.
LEMMA PowersMultiply == \A a, b \in Nat : 2^(a + b) = 2^a * 2^b
<1>. DEFINE G == {b \in Nat : \A a \in Nat : 2^(a + b) = 2^a * 2^b}
<1>1. 0 \in G
  <2>1. ASSUME NEW a \in Nat PROVE 2^(a + 0) = 2^a * 2^0
    <3>1. a + 0 = a /\ 2^0 = 1 /\ 2^a \in Nat
      BY PowersDouble
    <3>2. QED
      BY <3>1
  <2>2. QED
    BY <2>1
<1>2. ASSUME NEW b \in Nat, b \in G
      PROVE  b + 1 \in G
  <2>1. ASSUME NEW a \in Nat PROVE 2^(a + (b + 1)) = 2^a * 2^(b + 1)
    <3>1. 2^(a + b) = 2^a * 2^b
      BY <1>2
    <3>2. 2^(b + 1) = 2 * 2^b /\ 2^((a + b) + 1) = 2 * 2^(a + b)
      BY PowersDouble
    <3>3. 2^a \in Nat /\ 2^b \in Nat
      BY PowersDouble
    <3>4. a + (b + 1) = (a + b) + 1
      OBVIOUS
    <3>5. \A p, q \in Nat : 2 * (p * q) = p * (2 * q)
      OBVIOUS
    <3>6. QED
      BY <3>1, <3>2, <3>3, <3>4, <3>5
  <2>2. QED
    BY <2>1
<1>3. Nat \subseteq G
  <2>. HIDE DEF G
  <2>1. QED
    BY <1>1, <1>2, FromZero
<1>4. QED
  BY <1>3

\* Powers in order, each the other's multiple.
LEMMA PowersInOrder ==
  ASSUME NEW a \in Nat, NEW b \in Nat, a <= b
  PROVE  \E m \in Nat \ {0} : 2^b = m * 2^a /\ m = 2^(b - a)
<1>1. b - a \in Nat /\ a + (b - a) = b
  OBVIOUS
<1>2. 2^(a + (b - a)) = 2^a * 2^(b - a)
  BY <1>1, PowersMultiply
<1>3. 2^(b - a) \in Nat /\ 2^(b - a) >= 1 /\ 2^a \in Nat
  BY <1>1, PowersDouble
<1>4. \A p, q \in Nat : p * q = q * p
  OBVIOUS
<1>5. 2^b = 2^(b - a) * 2^a
  BY <1>1, <1>2, <1>3, <1>4
<1>6. QED
  BY <1>3, <1>5

\* A block begins at a multiple of its size and ends within the space.
LEMMA BlockForm ==
  /\ \A B \in Blocks : \E k \in 0..Bits, i \in Nat :
       B = (i * 2^k)..(i * 2^k + 2^k - 1) /\ (i + 1) * 2^k <= 2^Bits
  /\ \A k \in 0..Bits, x \in Nat :
       x % 2^k = 0 /\ x + 2^k <= 2^Bits => x..(x + 2^k - 1) \in Blocks
<1>1. ASSUME NEW k \in 0..Bits
      PROVE  /\ k \in Nat /\ 2^k \in Nat \ {0} /\ 2^(Bits - k) \in Nat \ {0}
             /\ 2^Bits = 2^(Bits - k) * 2^k
  <2>1. k \in Nat /\ Bits \in Nat /\ k <= Bits /\ Bits - k \in Nat
    BY BitsAssumption
  <2>2. 2^Bits = 2^(Bits - k) * 2^k
    BY <2>1, PowersInOrder
  <2>3. 2^k \in Nat \ {0} /\ 2^(Bits - k) \in Nat \ {0}
    BY <2>1, PowersDouble
  <2>4. QED
    BY <2>1, <2>2, <2>3
<1>2. \A a, b \in Nat, p \in Nat \ {0} : a * p <= b * p <=> a <= b
  OBVIOUS
<1>3. ASSUME NEW B \in Blocks
      PROVE  \E k \in 0..Bits, i \in Nat :
               B = (i * 2^k)..(i * 2^k + 2^k - 1) /\ (i + 1) * 2^k <= 2^Bits
  <2>. PICK k \in 0..Bits : B \in {(i * 2^k)..(i * 2^k + 2^k - 1) : i \in 0..(2^(Bits - k) - 1)}
    BY <1>3 DEF Blocks
  <2>1. PICK i \in 0..(2^(Bits - k) - 1) : B = (i * 2^k)..(i * 2^k + 2^k - 1)
    OBVIOUS
  <2>2. i \in Nat /\ i + 1 \in Nat /\ i + 1 <= 2^(Bits - k)
    BY <1>1, <2>1
  <2>3. (i + 1) * 2^k <= 2^(Bits - k) * 2^k
    BY <1>1, <1>2, <2>2
  <2>4. QED
    BY <1>1, <2>1, <2>2, <2>3
<1>4. ASSUME NEW k \in 0..Bits, NEW x \in Nat, x % 2^k = 0, x + 2^k <= 2^Bits
      PROVE  x..(x + 2^k - 1) \in Blocks
  <2>. DEFINE p == 2^k
  <2>1. p \in Nat \ {0} /\ x % p = 0 /\ x + p <= 2^(Bits - k) * p /\ 2^(Bits - k) \in Nat
    BY <1>1, <1>4
  <2>. HIDE DEF p
  <2>2. PICK i \in Nat : x = i * p
    <3>1. x = p * (x \div p) /\ x \div p \in Nat
      BY <2>1
    <3>2. \A a \in Nat : p * a = a * p
      BY <2>1
    <3>3. QED
      BY <3>1, <3>2
  <2>3. (i + 1) * p <= 2^(Bits - k) * p
    BY <2>1, <2>2
  <2>4. i + 1 <= 2^(Bits - k)
    <3>1. i + 1 \in Nat
      OBVIOUS
    <3>2. QED
      BY <1>2, <2>1, <2>3, <3>1
  <2>5. i \in 0..(2^(Bits - k) - 1) /\ x..(x + p - 1) = (i * p)..(i * p + p - 1)
    BY <2>1, <2>2, <2>4
  <2>6. QED
    BY <2>5 DEF Blocks, p
<1>5. QED
  BY <1>3, <1>4

\* Blocks lie in the space, and none is empty.
LEMMA BlocksLieInSpace == \A B \in Blocks : B \subseteq IPv4 /\ B # {}
<1>. SUFFICES ASSUME NEW B \in Blocks PROVE B \subseteq IPv4 /\ B # {}
  OBVIOUS
<1>1. PICK k \in 0..Bits, i \in Nat : B = (i * 2^k)..(i * 2^k + 2^k - 1) /\ (i + 1) * 2^k <= 2^Bits
  BY BlockForm
<1>2. 2^k \in Nat \ {0} /\ 2^Bits \in Nat
  BY BitsAssumption, PowersDouble
<1>3. \A p \in Nat : i * p \in Nat /\ (i + 1) * p = i * p + p
  OBVIOUS
<1>4. i * 2^k \in Nat /\ i * 2^k + 2^k - 1 <= 2^Bits - 1
  BY <1>1, <1>2, <1>3
<1>5. i * 2^k \in B
  BY <1>1, <1>2, <1>4
<1>6. \A a, b, c \in Int : 0 <= a /\ b <= c => a..b \subseteq 0..c
  OBVIOUS
<1>7. i * 2^k \in Int /\ i * 2^k + 2^k - 1 \in Int /\ 2^Bits - 1 \in Int /\ 0 <= i * 2^k
  BY <1>2, <1>4
<1>8. B \subseteq IPv4
  BY <1>1, <1>4, <1>6, <1>7 DEF IPv4
<1>9. QED
  BY <1>5, <1>8

\* Of two blocks that meet, the larger one holds the other.
LEMMA SmallerIsInside ==
  ASSUME NEW k \in Nat, NEW j \in Nat, k <= j, NEW i \in Nat, NEW h \in Nat, NEW x,
         x \in (i * 2^k)..(i * 2^k + 2^k - 1), x \in (h * 2^j)..(h * 2^j + 2^j - 1)
  PROVE  (i * 2^k)..(i * 2^k + 2^k - 1) \subseteq (h * 2^j)..(h * 2^j + 2^j - 1)
<1>. DEFINE p == 2^k
<1>1. PICK m \in Nat \ {0} : 2^j = m * p
  BY PowersInOrder
<1>2. p \in Nat \ {0}
  BY PowersDouble
<1>. HIDE DEF p
<1>3. h * m \in Nat /\ h * (m * p) = (h * m) * p /\ (h * m + m) * p = (h * m) * p + m * p
  BY <1>2
<1>4. (i + 1) * p = i * p + p /\ i * p \in Nat /\ (h * m) * p \in Nat /\ m * p \in Nat
  BY <1>2
<1>5. x \in (i * p)..(i * p + p - 1) /\ x \in (h * (m * p))..(h * (m * p) + m * p - 1)
  BY <1>1 DEF p
<1>6. (h * m) * p < (i + 1) * p /\ i * p < (h * m + m) * p
  BY <1>2, <1>3, <1>4, <1>5
<1>7. \A a, b \in Nat : a * p < b * p => a < b
  BY <1>2
<1>8. i + 1 \in Nat /\ h * m + m \in Nat
  BY <1>3
<1>9. h * m < i + 1 /\ i < h * m + m
  BY <1>3, <1>6, <1>7, <1>8
<1>10. \A a, b \in Nat : a <= b => a * p <= b * p
  BY <1>2
<1>11. (h * m) * p <= i * p /\ (i + 1) * p <= (h * m + m) * p
  BY <1>3, <1>8, <1>9, <1>10
<1>12. (i * p)..(i * p + p - 1) \subseteq (h * (m * p))..(h * (m * p) + m * p - 1)
  BY <1>2, <1>3, <1>4, <1>11
<1>13. QED
  BY <1>1, <1>12 DEF p

\* Whichever that is.
LEMMA BlocksNest ==
  ASSUME NEW B \in Blocks, NEW C \in Blocks, NEW x \in B, x \in C
  PROVE  B \subseteq C \/ C \subseteq B
<1>1. PICK k \in 0..Bits, i \in Nat : B = (i * 2^k)..(i * 2^k + 2^k - 1)
  BY BlockForm
<1>2. PICK j \in 0..Bits, h \in Nat : C = (h * 2^j)..(h * 2^j + 2^j - 1)
  BY BlockForm
<1>3. k \in Nat /\ j \in Nat
  BY BitsAssumption
<1>4. CASE k <= j
  BY <1>1, <1>2, <1>3, <1>4, SmallerIsInside
<1>5. CASE j <= k
  BY <1>1, <1>2, <1>3, <1>5, SmallerIsInside
<1>6. QED
  BY <1>3, <1>4, <1>5

\* What meets a largest block lies in it,
LEMMA LargestAreApart ==
  ASSUME NEW A, NEW B \in LargestBlocks(A), NEW C \in Blocks, C \subseteq A, NEW x \in B, x \in C
  PROVE  C \subseteq B
<1>1. B \in Blocks /\ B \subseteq A /\ (B \subseteq C => C = B)
  BY DEF LargestBlocks
<1>2. B \subseteq C \/ C \subseteq B
  BY <1>1, BlocksNest
<1>3. QED
  BY <1>1, <1>2

\* so largest blocks that fill a set are all it has.
LEMMA LargestFillAll ==
  ASSUME NEW A, NEW F \in SUBSET LargestBlocks(A), UNION F = A
  PROVE  F = LargestBlocks(A)
<1>. SUFFICES ASSUME NEW C \in LargestBlocks(A) PROVE C \in F
  OBVIOUS
<1>1. C \in Blocks /\ C \subseteq A /\ C # {}
  BY BlocksLieInSpace DEF LargestBlocks
<1>2. PICK x \in C, B \in F : x \in B
  BY <1>1
<1>3. C \subseteq B
  BY <1>1, <1>2, LargestAreApart
<1>4. B \in Blocks /\ B \subseteq A
  BY DEF LargestBlocks
<1>5. C = B
  BY <1>3, <1>4 DEF LargestBlocks
<1>6. QED
  BY <1>5

-----------------------------------------------------------------------------
(* The merging of addresses and networks, turn by turn of its loops. *)

\* The addresses of a range, and those that a list of texts has ranges for.
Span(r) == r.first..r.last
Spans(rs) == UNION {Span(r) : r \in rs}
Ranged(texts) == {t \in texts : HasRange(t)}
Cover(texts) == UNION {Span(RangeOf(t)) : t \in Ranged(texts)}
Top == 2^Bits - 1

\* Ranges that lie in the space, and those with an address between them.
Ranges == {r \in [first : IPv4, last : IPv4] : r.first <= r.last}
Apart(r, q) == r.last + 1 < q.first \/ q.last + 1 < r.first

\* The space, in numbers.
LEMMA SpaceIsInt == 2^Bits \in Nat \ {0} /\ Top \in Nat /\ IPv4 = 0..Top /\ IPv4 \subseteq Nat
BY BitsAssumption, PowersDouble DEF IPv4, Top

\* A text that has a range is aligned, so its range ends within the space.
LEMMA TextsHaveRanges ==
  ASSUME NEW t \in Texts, HasRange(t)
  PROVE  /\ RangeOf(t) \in Ranges /\ RangeOf(t).first = t.start /\ Bits >= 1
         /\ t.start \in IPv4
<1>1. /\ t.ones \in 1..Bits /\ t.start \in IPv4 /\ t.start % SizeOf(t.ones) = 0
      /\ t.start \in Nat /\ t.start < 2^Bits
  <2>1. t.ones \in 1..Bits
    BY DEF HasRange
  <2>2. CASE t \in {u \in [v6 : {FALSE}, start : IPv4, ones : 0..Bits] : u.start % SizeOf(u.ones) = 0}
    BY <2>1, <2>2, SpaceIsInt DEF Top
  <2>3. CASE t \in [v6 : {TRUE}, start : {0}, ones : 0..(4 * Bits)]
    <3>1. SizeOf(t.ones) \in Nat \ {0}
      <4>1. Bits - t.ones \in Nat
        BY <2>1, BitsAssumption
      <4>2. QED
        BY <4>1, PowersDouble DEF SizeOf
    <3>2. t.start = 0 /\ 0 % SizeOf(t.ones) = 0
      BY <2>3, <3>1
    <3>3. QED
      BY <2>1, <3>2, SpaceIsInt DEF Top
  <2>4. QED
    BY <2>2, <2>3 DEF Texts
<1>2. Bits \in Nat /\ Bits - t.ones \in 0..Bits /\ Bits >= 1 /\ Bits - t.ones \in Nat /\ Bits - t.ones <= Bits
  BY <1>1, BitsAssumption
<1>. DEFINE s == SizeOf(t.ones)
<1>3. PICK m \in Nat \ {0} : 2^Bits = m * s
  BY <1>2, PowersInOrder DEF SizeOf
<1>4. s \in Nat \ {0}
  BY <1>2, PowersDouble DEF SizeOf
<1>5. t.start \in Nat /\ t.start % s = 0 /\ t.start < m * s
  BY <1>1, <1>3
<1>. HIDE DEF s
<1>6. t.start + s <= m * s
  <2>1. PICK i \in Nat : t.start = i * s
    <3>1. t.start = s * (t.start \div s) /\ t.start \div s \in Nat
      BY <1>4, <1>5
    <3>2. \A a \in Nat : s * a = a * s
      BY <1>4
    <3>3. QED
      BY <3>1, <3>2
  <2>2. \A a, b \in Nat : a * s < b * s => (a + 1) * s <= b * s
    BY <1>4
  <2>3. (i + 1) * s = i * s + s
    BY <1>4
  <2>4. QED
    BY <1>5, <2>1, <2>2, <2>3
<1>7. t.start + s - 1 \in Nat /\ t.start <= t.start + s - 1 /\ t.start + s - 1 <= Top
  BY <1>3, <1>4, <1>5, <1>6, SpaceIsInt DEF Top
<1>8. RangeOf(t) = [first |-> t.start, last |-> t.start + s - 1]
  BY DEF RangeOf, s
<1>9. t.start + s - 1 \in IPv4
  BY <1>7, SpaceIsInt
<1>10. QED
  BY <1>1, <1>2, <1>7, <1>8, <1>9 DEF Ranges

-----------------------------------------------------------------------------
\* While the ranges are scanned: what was merged, what grows and what is left are
\* what the list covers. Unless the list reaches the last address, nothing is left
\* that touches what was merged.
Scanned ==
  /\ unscanned \subseteq Ranged(ipList) /\ cidrs = {}
  /\ \A t \in unscanned : run.first <= t.start
  /\ Cover(ipList) = Cover(unscanned) \cup Span(run) \cup Spans(runs)
  /\ Top \notin Cover(ipList) =>
       /\ \A r \in runs : r.last + 1 < run.first
       /\ \A r, q \in runs : r = q \/ Apart(r, q)

\* While the runs are cut: what is not yet cut ends where the list does, and so far
\* nothing of it is in a block.
Uncut(r) ==
  /\ r.last + 1 \notin Cover(ipList)
  /\ Span(r) \cap UNION cidrs = {}

\* Blocks and runs are what the list covers; the blocks are among the largest, and
\* the run that is cut goes on where its last block ended.
CutSoFar ==
  /\ Cover(ipList) = (UNION cidrs) \cup Span(run) \cup Spans(runs)
  /\ Top \notin Cover(ipList) =>
       /\ cidrs \subseteq LargestBlocks(Cover(ipList))
       /\ \A r \in runs \cup {run} : Uncut(r)
       /\ \A r \in runs : r.first - 1 \notin Cover(ipList) /\ Span(r) \cap Span(run) = {}
       /\ \A r, q \in runs : r = q \/ Span(r) \cap Span(q) = {}
       /\ run.first - 1 \in Cover(ipList) => run.first - 1 \in UNION cidrs

\* At the end there are only blocks.
AllCut ==
  /\ Cover(ipList) = UNION cidrs
  /\ Top \notin Cover(ipList) => cidrs \subseteq LargestBlocks(Cover(ipList))

\* The invariant, phase by phase.
MergeInv ==
  /\ mergeStep \in {"idle", "scan", "cut", "done"}
  /\ ipList \in SUBSET Texts /\ runs \subseteq Ranges
  /\ mergeStep = "idle" => runs = {} /\ cidrs = {}
  /\ mergeStep \in {"scan", "cut"} => Bits >= 1 /\ run \in Ranges
  /\ mergeStep = "scan" => Scanned
  /\ mergeStep = "cut" => CutSoFar
  /\ mergeStep = "done" => runs = {} /\ AllCut

\* Before the first call.
LEMMA MergeStarts == MergeInit => MergeInv
BY DEF MergeInit, MergeInv

\* The least of the ranges is where the scan begins.
LEMMA CallInv ==
  ASSUME MergeInv, mergeStep = "idle", NEW texts \in SUBSET Texts, Call(texts)
  PROVE  MergeInv'
<1>1. PICK t \in Lowest(Ranged(texts)) : unscanned' = Ranged(texts) \ {t} /\ run' = RangeOf(t)
  BY DEF Call, Ranged
<1>2. /\ mergeStep' = "scan" /\ ipList' = texts /\ runs' = {} /\ cidrs' = {}
  BY DEF Call, MergeInv
<1>3. t \in Ranged(texts) /\ \A u \in Ranged(texts) : t.start <= u.start
  BY <1>1 DEF Lowest
<1>4. RangeOf(t) \in Ranges /\ RangeOf(t).first = t.start /\ Bits >= 1
  BY <1>3, TextsHaveRanges DEF Ranged
<1>5. Cover(texts) = Cover(Ranged(texts) \ {t}) \cup Span(RangeOf(t)) \cup Spans({})
  BY <1>3 DEF Cover, Spans, Ranged
<1>6. Scanned'
  BY <1>1, <1>2, <1>3, <1>4, <1>5 DEF Scanned
<1>7. QED
  BY <1>1, <1>2, <1>4, <1>6 DEF MergeInv

\* The next range joins the run, or begins another.
LEMMA ScanInv ==
  ASSUME MergeInv, Scan
  PROVE  MergeInv'
<1>1. /\ mergeStep = "scan" /\ mergeStep' = "scan" /\ ipList' = ipList /\ cidrs' = cidrs
      /\ Scanned /\ run \in Ranges /\ runs \subseteq Ranges /\ ipList \in SUBSET Texts /\ Bits >= 1
  BY DEF Scan, MergeInv
<1>2. PICK t \in Lowest(unscanned) :
        /\ unscanned' = unscanned \ {t}
        /\ IF Touches(t)
           THEN /\ run' = IF RangeOf(t).last > run.last THEN [run EXCEPT !.last = RangeOf(t).last] ELSE run
                /\ runs' = runs
           ELSE runs' = runs \cup {run} /\ run' = RangeOf(t)
  BY DEF Scan
<1>. DEFINE s == RangeOf(t)
<1>3. t \in unscanned /\ (\A u \in unscanned : t.start <= u.start) /\ unscanned \subseteq Ranged(ipList)
  BY <1>1, <1>2 DEF Lowest, Scanned
<1>4. s \in Ranges /\ s.first = t.start /\ run.first <= t.start
  BY <1>1, <1>3, TextsHaveRanges DEF Ranged, Scanned
<1>5. Cover(unscanned) = Cover(unscanned \ {t}) \cup Span(s)
  BY <1>3 DEF Cover, Ranged
<1>. HIDE DEF s
<1>6. /\ s.first \in IPv4 /\ s.last \in IPv4 /\ s.first <= s.last
      /\ run.first \in IPv4 /\ run.last \in IPv4 /\ run.first <= run.last
  BY <1>1, <1>4 DEF Ranges
<1>7. \A u \in unscanned : u.start \in Nat
  BY <1>1, <1>3, TextsHaveRanges, SpaceIsInt DEF Ranged
<1>8. CASE Touches(t)
  <2>1. runs' = runs /\ run' = IF s.last > run.last THEN [run EXCEPT !.last = s.last] ELSE run
    BY <1>2, <1>8 DEF s
  <2>2. run' \in Ranges /\ run'.first = run.first
    BY <1>1, <1>4, <1>6, <2>1, SpaceIsInt DEF Ranges
  <2>3. s.first <= run.last + 1
    <3>1. s.first <= (run.last + 1) % 2^Bits
      BY <1>8 DEF Touches, s
    <3>2. CASE run.last < Top
      <4>1. run.last + 1 \in Nat /\ run.last + 1 < 2^Bits
        BY <1>6, <3>2, SpaceIsInt DEF Top
      <4>2. (run.last + 1) % 2^Bits = run.last + 1
        BY <4>1, SpaceIsInt
      <4>3. QED
        BY <3>1, <4>2
    <3>3. CASE run.last = Top
      BY <1>6, <3>3, SpaceIsInt
    <3>4. QED
      BY <1>6, <3>2, <3>3, SpaceIsInt
  <2>4. Span(run') = Span(run) \cup Span(s)
    <3>1. run'.last = IF s.last > run.last THEN s.last ELSE run.last
      BY <1>1, <2>1 DEF Ranges
    <3>2. QED
      BY <1>4, <1>6, <2>2, <2>3, <3>1, SpaceIsInt DEF Span
  <2>5. Cover(ipList) = Cover(unscanned \ {t}) \cup Span(run') \cup Spans(runs)
    BY <1>1, <1>5, <2>4 DEF Scanned
  <2>6. Scanned'
    BY <1>1, <1>2, <1>3, <2>1, <2>2, <2>5 DEF Scanned
  <2>7. QED
    BY <1>1, <2>1, <2>2, <2>6 DEF MergeInv
<1>9. CASE ~Touches(t)
  <2>1. runs' = runs \cup {run} /\ run' = s
    BY <1>2, <1>9 DEF s
  <2>2. Spans(runs') = Spans(runs) \cup Span(run)
    BY <2>1 DEF Spans
  <2>3. Cover(ipList) = Cover(unscanned \ {t}) \cup Span(run') \cup Spans(runs')
    BY <1>1, <1>5, <2>1, <2>2 DEF Scanned
  <2>4. Top \notin Cover(ipList) => run.last + 1 < s.first
    <3>1. SUFFICES ASSUME Top \notin Cover(ipList) PROVE run.last + 1 < s.first
      OBVIOUS
    <3>2. run.last # Top
      BY <1>1, <1>6, <3>1, SpaceIsInt DEF Scanned, Span
    <3>3. run.last + 1 \in Nat /\ run.last + 1 < 2^Bits
      BY <1>6, <3>2, SpaceIsInt DEF Top
    <3>4. (run.last + 1) % 2^Bits = run.last + 1
      BY <3>3, SpaceIsInt
    <3>5. QED
      BY <1>6, <1>9, <3>3, <3>4, SpaceIsInt DEF Touches, s
  <2>5. \A u \in unscanned' : run'.first <= u.start
    BY <1>2, <1>3, <1>4, <2>1
  <2>6. Top \notin Cover(ipList) =>
          /\ \A r \in runs' : r.last + 1 < run'.first
          /\ \A r, q \in runs' : r = q \/ Apart(r, q)
    <3>1. SUFFICES ASSUME Top \notin Cover(ipList)
                   PROVE  /\ \A r \in runs' : r.last + 1 < run'.first
                          /\ \A r, q \in runs' : r = q \/ Apart(r, q)
      OBVIOUS
    <3>2. \A r \in runs : r.last \in Nat /\ r.last + 1 < run.first
      BY <1>1, <3>1, SpaceIsInt DEF Scanned, Ranges
    <3>3. \A r \in runs' : r.last + 1 < run'.first
      BY <1>4, <1>6, <2>1, <2>4, <3>1, <3>2, SpaceIsInt
    <3>4. \A r, q \in runs' : r = q \/ Apart(r, q)
      BY <1>1, <2>1, <3>1, <3>2 DEF Scanned, Apart
    <3>5. QED
      BY <3>3, <3>4
  <2>7. Scanned'
    BY <1>1, <1>2, <1>3, <2>3, <2>5, <2>6 DEF Scanned
  <2>8. QED
    BY <1>1, <1>4, <2>1, <2>7 DEF MergeInv
<1>10. QED
  BY <1>8, <1>9

\* All is scanned: the runs are apart from one another.
LEMMA EndScanInv ==
  ASSUME MergeInv, EndScan
  PROVE  MergeInv'
<1>1. /\ mergeStep' = "cut" /\ ipList' = ipList /\ cidrs' = {} /\ cidrs = {} /\ unscanned = {}
      /\ Scanned /\ run \in Ranges /\ runs \subseteq Ranges /\ ipList \in SUBSET Texts /\ Bits >= 1
  BY DEF EndScan, MergeInv, Scanned
<1>2. PICK r \in runs \cup {run} : run' = r /\ runs' = (runs \cup {run}) \ {r}
  BY DEF EndScan
<1>. DEFINE all == runs \cup {run}
<1>3. all = runs' \cup {run'} /\ all \subseteq Ranges
  BY <1>1, <1>2
<1>4. Cover(ipList) = Spans(all)
  BY <1>1 DEF Scanned, Spans, Cover, Ranged
<1>5. Cover(ipList) = (UNION cidrs') \cup Span(run') \cup Spans(runs')
  <2>. HIDE DEF all
  <2>1. Spans(all) = Span(run') \cup Spans(runs')
    BY <1>3 DEF Spans
  <2>2. UNION cidrs' = {}
    BY <1>1
  <2>3. QED
    BY <1>4, <2>1, <2>2
<1>6. ASSUME Top \notin Cover(ipList)
      PROVE  /\ \A p \in all : p.last + 1 \notin Cover(ipList) /\ p.first - 1 \notin Cover(ipList)
             /\ \A p, q \in all : p = q \/ Span(p) \cap Span(q) = {}
  <2>1. \A p \in all : p.first \in Nat /\ p.last \in Nat /\ p.first <= p.last
    BY <1>3, SpaceIsInt DEF Ranges
  <2>2. \A p, q \in all : p = q \/ Apart(p, q)
    BY <1>1, <1>6 DEF Scanned, Apart
  <2>. HIDE DEF all
  <2>3. ASSUME NEW p \in all, NEW q \in all
        PROVE  /\ p.last + 1 \notin Span(q) /\ p.first - 1 \notin Span(q)
               /\ p = q \/ Span(p) \cap Span(q) = {}
    BY <2>1, <2>2 DEF Span, Apart
  <2>4. QED
    BY <1>4, <2>3 DEF Spans
<1>7. CutSoFar'
  <2>. HIDE DEF all
  <2>1. run' \in all /\ runs' \subseteq all
    BY <1>3
  <2>2. run' \notin runs'
    BY <1>2
  <2>3. ASSUME Top \notin Cover(ipList)
        PROVE  /\ \A p \in runs' \cup {run'} : Uncut(p)'
               /\ \A p \in runs' : p.first - 1 \notin Cover(ipList) /\ Span(p) \cap Span(run') = {}
               /\ \A p, q \in runs' : p = q \/ Span(p) \cap Span(q) = {}
               /\ run'.first - 1 \notin Cover(ipList)
    BY <1>1, <1>6, <2>1, <2>2, <2>3 DEF Uncut
  <2>4. cidrs' \subseteq LargestBlocks(Cover(ipList))
    BY <1>1
  <2>5. QED
    BY <1>1, <1>5, <2>3, <2>4 DEF CutSoFar
<1>8. QED
  BY <1>1, <1>2, <1>7 DEF MergeInv

\* The largest block that fits.
LEMMA MaxBitsIsMax ==
  ASSUME NEW r \in Ranges, Bits >= 1
  PROVE  MaxBits(r) \in BlockFits(r) /\ \A j \in BlockFits(r) : j <= MaxBits(r)
<1>1. Bits \in Nat /\ BlockFits(r) \subseteq 0..Bits
  BY BitsAssumption DEF BlockFits
<1>2. 0 \in BlockFits(r)
  <2>1. 0 \in 0..(Bits - 1) /\ r.first \in Nat /\ r.last \in Nat /\ r.first <= r.last
    BY <1>1, SpaceIsInt DEF Ranges
  <2>2. 2^0 = 1
    BY PowersDouble
  <2>3. r.first % 1 = 0 /\ 1 - 1 <= r.last - r.first
    BY <2>1
  <2>4. QED
    BY <2>1, <2>2, <2>3 DEF BlockFits
<1>. DEFINE G == {Bits - k : k \in BlockFits(r)}
<1>3. G \subseteq Nat /\ G # {}
  BY <1>1, <1>2
<1>4. PICK n \in G : \A m \in G : <<m, n>> \notin Below
  <2>. HIDE DEF G
  <2>1. QED
    BY <1>3, BelowIsWellFounded, WFMin
<1>5. PICK k \in BlockFits(r) : n = Bits - k
  BY <1>4
<1>6. \A j \in BlockFits(r) : j <= k
  <2>. SUFFICES ASSUME NEW j \in BlockFits(r), ~(j <= k) PROVE FALSE
    OBVIOUS
  <2>1. Bits - j \in G /\ Bits - j \in Nat /\ Bits - k \in Nat /\ Bits - j < Bits - k
    BY <1>1, <1>3, <1>5
  <2>2. <<Bits - j, n>> \in Below
    BY <1>5, <2>1 DEF Below
  <2>3. QED
    BY <1>4, <2>1, <2>2
<1>7. QED
  BY <1>6 DEF MaxBits

\* What is cut off a run is a block of the space, at its beginning.
LEMMA CutIsBlock ==
  ASSUME NEW r \in Ranges, Bits >= 1, NEW D, D = r.first..(r.first + 2^MaxBits(r) - 1)
  PROVE  /\ D \in Blocks /\ D \subseteq Span(r) /\ r.first \in D
         /\ MaxBits(r) \in 0..(Bits - 1)
         /\ 2^MaxBits(r) \in Nat \ {0} /\ r.first + 2^MaxBits(r) <= r.last + 1
<1>1. MaxBits(r) \in BlockFits(r)
  BY MaxBitsIsMax
<1>2. /\ MaxBits(r) \in 0..(Bits - 1) /\ r.first % 2^MaxBits(r) = 0
      /\ 2^MaxBits(r) - 1 <= r.last - r.first
  BY <1>1 DEF BlockFits
<1>3. MaxBits(r) \in Nat /\ MaxBits(r) \in 0..Bits
  BY <1>2, BitsAssumption
<1>. DEFINE p == 2^MaxBits(r)
<1>4. p \in Nat \ {0}
  BY <1>3, PowersDouble
<1>5. r.first \in Nat /\ r.last \in Nat /\ r.last <= Top /\ r.first <= r.last
  BY SpaceIsInt DEF Ranges
<1>6. p - 1 <= r.last - r.first
  BY <1>2
<1>7. D = r.first..(r.first + p - 1)
  OBVIOUS
<1>. HIDE DEF p
<1>8. r.first + p <= r.last + 1 /\ r.first + p <= 2^Bits
  BY <1>4, <1>5, <1>6, SpaceIsInt DEF Top
<1>9. D \subseteq Span(r) /\ r.first \in D
  <2>1. r.first + p - 1 \in Int /\ r.first <= r.first + p - 1 /\ r.first + p - 1 <= r.last
    BY <1>4, <1>5, <1>8
  <2>2. \A a, b, c \in Int : a <= b /\ b <= c => a..b \subseteq a..c /\ a \in a..b
    OBVIOUS
  <2>3. r.first \in Int /\ r.last \in Int
    BY <1>5
  <2>4. QED
    BY <1>7, <2>1, <2>2, <2>3 DEF Span
<1>10. D \in Blocks
  <2>1. r.first % 2^MaxBits(r) = 0 /\ r.first + 2^MaxBits(r) <= 2^Bits
    BY <1>2, <1>8 DEF p
  <2>2. r.first..(r.first + 2^MaxBits(r) - 1) \in Blocks
    BY <1>3, <1>5, <2>1, BlockForm
  <2>3. QED
    BY <2>2
<1>11. QED
  BY <1>2, <1>4, <1>8, <1>9, <1>10 DEF p

\* It is among the largest that the list covers: one that were larger would begin
\* with it, and reach beyond the run, or before it, and hold what was cut before.
LEMMA CutIsLargest ==
  ASSUME NEW A, Top \notin A, NEW r \in Ranges, Bits >= 1, Span(r) \subseteq A,
         r.last + 1 \notin A,
         NEW F \in SUBSET LargestBlocks(A), Span(r) \cap UNION F = {},
         r.first - 1 \in A => r.first - 1 \in UNION F,
         NEW D, D = r.first..(r.first + 2^MaxBits(r) - 1)
  PROVE  D \in LargestBlocks(A)
<1>1. /\ D \in Blocks /\ D \subseteq Span(r) /\ r.first \in D
      /\ MaxBits(r) \in 0..(Bits - 1)
  BY CutIsBlock
<1>. SUFFICES ASSUME NEW C \in Blocks, C \subseteq A, D \subseteq C
              PROVE  C = D
  BY <1>1 DEF LargestBlocks
<1>2. PICK j \in 0..Bits, i \in Nat : C = (i * 2^j)..(i * 2^j + 2^j - 1) /\ (i + 1) * 2^j <= 2^Bits
  BY BlockForm
<1>. DEFINE x == i * 2^j
            p == 2^j
<1>3. p \in Nat \ {0} /\ j \in Nat
  BY <1>2, BitsAssumption, PowersDouble
<1>4. C = x..(x + p - 1) /\ x \in Nat /\ x % p = 0
  <2>1. x \in Nat
    BY <1>3
  <2>2. x % p = 0
    <3>1. \A q \in Nat \ {0} : (i * q) % q = 0
      OBVIOUS
    <3>2. QED
      BY <1>3, <3>1
  <2>3. QED
    BY <1>2, <2>1, <2>2
<1>. HIDE DEF x, p
<1>5. r.first \in Nat /\ r.last \in Nat /\ r.last <= Top /\ r.first <= r.last
  BY SpaceIsInt DEF Ranges
<1>6. r.first \in C /\ x <= r.first
  BY <1>1, <1>3, <1>4, <1>5
<1>7. CASE x = r.first
  <2>1. x + p - 1 <= r.last
    <3>. SUFFICES ASSUME ~(x + p - 1 <= r.last) PROVE FALSE
      OBVIOUS
    <3>1. r.last + 1 \in C
      BY <1>3, <1>4, <1>5, <1>7
    <3>2. QED
      BY <3>1
  <2>2. p - 1 <= r.last - r.first
    BY <1>3, <1>5, <1>7, <2>1
  <2>3. j # Bits
    <3>. SUFFICES ASSUME j = Bits PROVE FALSE
      OBVIOUS
    <3>1. p = 2^Bits
      BY DEF p
    <3>2. x + p - 1 = Top /\ r.last = Top
      BY <1>5, <1>7, <2>2, <3>1, SpaceIsInt DEF Top
    <3>3. Top \in Span(r)
      BY <1>5, <3>2, SpaceIsInt DEF Span
    <3>4. QED
      BY <3>3
  <2>4. j \in 0..(Bits - 1)
    BY <1>2, <2>3, BitsAssumption
  <2>5. j \in BlockFits(r)
    BY <1>4, <1>7, <2>2, <2>4 DEF BlockFits, p
  <2>6. j <= MaxBits(r)
    BY <2>5, MaxBitsIsMax
  <2>7. MaxBits(r) \in Nat
    BY <1>1, BitsAssumption
  <2>8. p <= 2^MaxBits(r)
    <3>1. PICK m \in Nat \ {0} : 2^MaxBits(r) = m * 2^j
      BY <1>3, <2>6, <2>7, PowersInOrder
    <3>2. \A q \in Nat : q <= m * q
      OBVIOUS
    <3>3. QED
      BY <1>3, <3>1, <3>2 DEF p
  <2>9. C \subseteq D
    <3>1. 2^MaxBits(r) \in Nat
      BY <2>7, PowersDouble
    <3>2. QED
      BY <1>3, <1>4, <1>5, <1>7, <2>8, <3>1
  <2>10. QED
    BY <2>9
<1>8. CASE x # r.first
  <2>1. r.first - 1 \in C
    BY <1>3, <1>4, <1>5, <1>6, <1>8
  <2>2. PICK B \in F : r.first - 1 \in B
    BY <2>1
  <2>3. C \subseteq B
    BY <2>1, <2>2, LargestAreApart
  <2>4. r.first \in B /\ r.first \in Span(r)
    BY <1>5, <1>6, <2>3 DEF Span
  <2>5. QED
    BY <2>2, <2>4
<1>9. QED
  BY <1>7, <1>8

\* A range, in two.
LEMMA RangesSplit ==
  ASSUME NEW a \in Int, NEW b \in Int, NEW c \in Int, a < b, b <= c
  PROVE  a..c = a..(b - 1) \cup b..c /\ b - 1 \in a..(b - 1) /\ a..(b - 1) \cap b..c = {}
OBVIOUS

\* Where the run goes on after a cut: past the block, or nowhere.
LEMMA AfterTheCut ==
  ASSUME NEW r \in Ranges, Bits >= 1, NEW D, D = r.first..(r.first + 2^MaxBits(r) - 1),
         NEW next, next = (r.first + 2^MaxBits(r)) % 2^Bits
  PROVE  IF r.first < next /\ next <= r.last
         THEN LET q == [r EXCEPT !.first = next]
              IN q \in Ranges /\ Span(r) = D \cup Span(q) /\ q.last = r.last
                 /\ q.first - 1 \in D /\ D \cap Span(q) = {}
         ELSE Span(r) = D
<1>. DEFINE p == 2^MaxBits(r)
<1>1. p \in Nat \ {0} /\ r.first + p <= r.last + 1
  BY CutIsBlock
<1>2. D = r.first..(r.first + p - 1) /\ next = (r.first + p) % 2^Bits
  OBVIOUS
<1>. HIDE DEF p
<1>3. r \in [first : IPv4, last : IPv4] /\ r.first \in Nat /\ r.last \in Nat /\ r.last <= Top /\ r.first <= r.last
  BY SpaceIsInt DEF Ranges
<1>4. CASE r.first + p <= Top
  <2>1. next = r.first + p
    <3>1. r.first + p \in Nat /\ r.first + p < 2^Bits /\ 2^Bits \in Nat
      BY <1>1, <1>3, <1>4, SpaceIsInt DEF Top
    <3>2. \A a, m \in Nat : a < m => a % m = a
      OBVIOUS
    <3>3. QED
      BY <1>2, <3>1, <3>2
  <2>2. CASE next <= r.last
    <3>. DEFINE q == [r EXCEPT !.first = next]
    <3>1. q.first = next /\ q.last = r.last /\ next \in IPv4 /\ q \in [first : IPv4, last : IPv4]
      BY <1>1, <1>3, <1>4, <2>1, SpaceIsInt
    <3>2. q \in Ranges
      BY <2>2, <3>1 DEF Ranges
    <3>. HIDE DEF q
    <3>3. Span(q) = (r.first + p)..r.last
      BY <2>1, <3>1 DEF Span
    <3>4. Span(r) = D \cup Span(q) /\ q.first - 1 \in D /\ D \cap Span(q) = {}
      <4>1. r.first + p \in Int /\ r.first < r.first + p /\ r.first + p <= r.last
        BY <1>1, <1>3, <2>1, <2>2
      <4>2. q.first - 1 = (r.first + p) - 1
        BY <2>1, <3>1
      <4>3. /\ r.first..r.last = r.first..((r.first + p) - 1) \cup (r.first + p)..r.last
            /\ (r.first + p) - 1 \in r.first..((r.first + p) - 1)
            /\ r.first..((r.first + p) - 1) \cap (r.first + p)..r.last = {}
        BY <1>3, <4>1, RangesSplit
      <4>4. D = r.first..((r.first + p) - 1)
        <5>1. (r.first + p) - 1 = r.first + p - 1
          BY <1>1, <1>3
        <5>2. QED
          BY <1>2, <5>1, Zenon
      <4>5. Span(r) = r.first..r.last
        BY DEF Span
      <4>6. QED
        BY <3>3, <4>2, <4>3, <4>4, <4>5, Zenon
    <3>5. r.first < next
      BY <1>1, <1>3, <2>1
    <3>6. QED
      BY <2>2, <3>1, <3>2, <3>4, <3>5 DEF q
  <2>3. CASE ~(next <= r.last)
    <3>1. r.first + p - 1 = r.last
      BY <1>1, <1>3, <2>1, <2>3
    <3>2. QED
      BY <1>2, <2>3, <3>1 DEF Span
  <2>4. QED
    BY <2>2, <2>3
<1>5. CASE ~(r.first + p <= Top)
  <2>1. r.first + p = 2^Bits /\ r.first + p - 1 = r.last
    BY <1>1, <1>3, <1>5, SpaceIsInt DEF Top
  <2>2. next = 0
    BY <1>2, <2>1, SpaceIsInt
  <2>3. QED
    BY <1>2, <1>3, <2>1, <2>2 DEF Span
<1>6. QED
  BY <1>4, <1>5

\* A block is cut off: it is one of the largest, and what is left stays apart from it.
LEMMA CutOffInv ==
  ASSUME MergeInv, CutOff
  PROVE  MergeInv'
<1>. DEFINE D == run.first..(run.first + 2^MaxBits(run) - 1)
            next == (run.first + 2^MaxBits(run)) % 2^Bits
<1>1. /\ mergeStep = "cut" /\ ipList' = ipList /\ ipList \in SUBSET Texts /\ runs \subseteq Ranges
      /\ CutSoFar /\ run \in Ranges /\ Bits >= 1
  BY DEF CutOff, MergeInv
<1>2. cidrs' = cidrs \cup {D}
  BY DEF CutOff
<1>3. IF run.first < next /\ next <= run.last
      THEN run' = [run EXCEPT !.first = next] /\ mergeStep' = mergeStep /\ runs' = runs
      ELSE NextRun
  BY DEF CutOff
<1>4. D \subseteq Span(run)
  BY <1>1, CutIsBlock
<1>5. IF run.first < next /\ next <= run.last
      THEN LET q == [run EXCEPT !.first = next]
           IN q \in Ranges /\ Span(run) = D \cup Span(q) /\ q.last = run.last
              /\ q.first - 1 \in D /\ D \cap Span(q) = {}
      ELSE Span(run) = D
  BY <1>1, AfterTheCut
<1>6. UNION cidrs' = (UNION cidrs) \cup D
  BY <1>2
<1>7. Cover(ipList) = (UNION cidrs) \cup Span(run) \cup Spans(runs)
  BY <1>1 DEF CutSoFar
<1>8. ASSUME Top \notin Cover(ipList)
      PROVE  /\ D \in LargestBlocks(Cover(ipList))
             /\ cidrs' \subseteq LargestBlocks(Cover(ipList))
  <2>1. cidrs \in SUBSET LargestBlocks(Cover(ipList)) /\ Span(run) \subseteq Cover(ipList)
    BY <1>1, <1>7, <1>8 DEF CutSoFar
  <2>2. run.last + 1 \notin Cover(ipList) /\ Span(run) \cap UNION cidrs = {}
    BY <1>1, <1>8 DEF CutSoFar, Uncut
  <2>3. run.first - 1 \in Cover(ipList) => run.first - 1 \in UNION cidrs
    BY <1>1, <1>8 DEF CutSoFar
  <2>4. D \in LargestBlocks(Cover(ipList))
    BY <1>1, <1>8, <2>1, <2>2, <2>3, CutIsLargest
  <2>5. QED
    BY <1>2, <2>1, <2>4
<1>9. ASSUME Top \notin Cover(ipList), NEW r \in runs
      PROVE  /\ Uncut(r)' /\ r.first - 1 \notin Cover(ipList) /\ Span(r) \cap Span(run) = {}
             /\ \A q \in runs : r = q \/ Span(r) \cap Span(q) = {}
  <2>1. /\ r.last + 1 \notin Cover(ipList) /\ Span(r) \cap UNION cidrs = {}
        /\ r.first - 1 \notin Cover(ipList) /\ Span(r) \cap Span(run) = {}
        /\ \A q \in runs : r = q \/ Span(r) \cap Span(q) = {}
    BY <1>1, <1>9 DEF CutSoFar, Uncut
  <2>2. Span(r) \cap UNION cidrs' = {}
    BY <1>4, <1>6, <2>1
  <2>3. QED
    BY <1>1, <2>1, <2>2 DEF Uncut
<1>. HIDE DEF D, next
<1>10. CASE run.first < next /\ next <= run.last
  <2>1. /\ run' = [run EXCEPT !.first = next] /\ mergeStep' = "cut" /\ runs' = runs
        /\ run' \in Ranges /\ Span(run) = D \cup Span(run') /\ run'.last = run.last
        /\ run'.first - 1 \in D /\ D \cap Span(run') = {}
    BY <1>1, <1>3, <1>5, <1>10
  <2>2. Cover(ipList) = (UNION cidrs') \cup Span(run') \cup Spans(runs')
    BY <1>6, <1>7, <2>1
  <2>3. ASSUME Top \notin Cover(ipList)
        PROVE  Uncut(run)'
    <3>1. run.last + 1 \notin Cover(ipList) /\ Span(run) \cap UNION cidrs = {}
      BY <1>1, <2>3 DEF CutSoFar, Uncut
    <3>2. Span(run') \cap UNION cidrs' = {}
      BY <1>6, <2>1, <3>1
    <3>3. QED
      BY <1>1, <2>1, <3>1, <3>2 DEF Uncut
  <2>4. ASSUME Top \notin Cover(ipList), NEW r \in runs'
        PROVE  Span(r) \cap Span(run') = {}
    BY <1>9, <2>1, <2>4
  <2>5. run'.first - 1 \in UNION cidrs'
    BY <1>6, <2>1
  <2>6. CutSoFar'
    BY <1>1, <1>8, <1>9, <2>1, <2>2, <2>3, <2>4, <2>5 DEF CutSoFar
  <2>7. QED
    BY <1>1, <2>1, <2>6 DEF MergeInv
<1>11. CASE ~(run.first < next /\ next <= run.last)
  <2>1. NextRun /\ Span(run) = D
    BY <1>3, <1>5, <1>11
  <2>2. Cover(ipList) = (UNION cidrs') \cup Spans(runs)
    BY <1>6, <1>7, <2>1
  <2>3. CASE runs = {} /\ mergeStep' = "done" /\ UNCHANGED <<run, runs>>
    <3>1. Cover(ipList) = UNION cidrs'
      BY <2>2, <2>3 DEF Spans
    <3>2. AllCut'
      BY <1>1, <1>8, <3>1 DEF AllCut
    <3>3. QED
      BY <1>1, <2>3, <3>2 DEF MergeInv
  <2>4. ASSUME NEW r \in runs, run' = r, runs' = runs \ {r}, mergeStep' = mergeStep
        PROVE  MergeInv'
    <3>1. Spans(runs) = Span(run') \cup Spans(runs')
      BY <2>4 DEF Spans
    <3>2. Cover(ipList) = (UNION cidrs') \cup Span(run') \cup Spans(runs')
      BY <2>2, <3>1
    <3>3. CutSoFar'
      BY <1>1, <1>8, <1>9, <2>4, <3>2 DEF CutSoFar
    <3>4. QED
      BY <1>1, <2>4, <3>3 DEF MergeInv
  <2>5. QED
    BY <2>1, <2>3, <2>4 DEF NextRun
<1>12. QED
  BY <1>10, <1>11

\* Every turn of the loops keeps the invariant.
LEMMA MergeStepInv == MergeInv /\ [MergeNext]_mergeVars => MergeInv'
<1>. SUFFICES ASSUME MergeInv, [MergeNext]_mergeVars PROVE MergeInv'
  OBVIOUS
<1>1. CASE mergeStep = "idle" /\ \E texts \in SUBSET Written : Cardinality(texts) <= MaxListed /\ Call(texts)
  <2>1. PICK texts \in SUBSET Texts : Call(texts)
    BY <1>1, TextsAssumption
  <2>2. QED
    BY <1>1, <2>1, CallInv
<1>2. CASE Return
  BY <1>2 DEF Return, MergeInv
<1>3. CASE UNCHANGED mergeVars
  <2>1. /\ ipList' = ipList /\ mergeStep' = mergeStep /\ unscanned' = unscanned
        /\ run' = run /\ runs' = runs /\ cidrs' = cidrs
    BY <1>3 DEF mergeVars
  <2>2. QED
    BY <2>1 DEF MergeInv, Scanned, CutSoFar, AllCut, Uncut
<1>4. QED
  BY <1>1, <1>2, <1>3, ScanInv, EndScanInv, CutOffInv DEF MergeNext

\* When all is cut, the blocks are those of what the list matched.
LEMMA DoneIsRight == MergeInv => MergeIsRight
<1>. SUFFICES ASSUME MergeInv, mergeStep = "done", Proper(ipList)
              PROVE  /\ UNION cidrs = Matched(ipList)
                     /\ Top \notin Matched(ipList) => cidrs = LargestBlocks(Matched(ipList))
  BY DEF MergeIsRight, Top
<1>1. Ranged(ipList) = {t \in ipList : ~t.v6}
  <2>1. \A t \in ipList : t.v6 \in BOOLEAN
    BY DEF MergeInv, Texts
  <2>2. QED
    BY <2>1 DEF Proper, Ranged
<1>2. \A t \in ipList : Span(RangeOf(t)) = t.start..(t.start + SizeOf(t.ones) - 1)
  BY DEF Span, RangeOf
<1>3. Cover(ipList) = Matched(ipList)
  BY <1>1, <1>2 DEF Cover, Matched, Ranged
<1>4. AllCut
  BY DEF MergeInv
<1>5. QED
  BY <1>3, <1>4, LargestFillAll DEF AllCut

(* mergeIPsToCIDRs in cidr_merge.go, for words of any number of bits and lists of
   any length: the loops that merge ranges and cut them into blocks give blocks
   that match exactly what the list matched, and the largest ones there are, unless
   the list reaches the last address.                                        *)
THEOREM MergeIsAlwaysRight == MergeSpec => []MergeIsRight
<1>1. QED
  BY MergeStarts, MergeStepInv, DoneIsRight, PTL DEF MergeSpec

-----------------------------------------------------------------------------
\* mergeIPsToCIDRs returns rules, and they match nothing its input did not match.
LEMMA MergedCovers ==
  ASSUME NEW S \in SUBSET Rules
  PROVE  Merged(S) \in SUBSET Rules /\ UNION Merged(S) \subseteq UNION S
<1>1. LargestBlocks(UNION (S \cap Blocks)) \subseteq Blocks
  BY DEF LargestBlocks
<1>2. \A B \in LargestBlocks(UNION (S \cap Blocks)) : B \subseteq UNION (S \cap Blocks)
  BY DEF LargestBlocks
<1>3. QED
  BY <1>1, <1>2 DEF Merged, Rules

\* The tails and the programs of operations that `todo` is made of.
LEMMA Programs ==
  /\ <<>> \in Seq(Steps)
  /\ Load \in Seq(Steps)
  /\ Merge \in Seq(Steps)
  /\ Load \o Merge \in Seq(Steps)
  /\ <<"commit">> \o Load \in Seq(Steps)
<1>1. /\ "select" \in Steps /\ "commit" \in Steps
      /\ "build" \in Steps /\ "store" \in Steps
  BY DEF Steps
<1>2. <<>> \in Seq(Steps) /\ <<"commit">> \in Seq(Steps)
  BY <1>1
<1>3. Load \in Seq(Steps) /\ Merge \in Seq(Steps)
  BY <1>1 DEF Load, Merge
<1>4. QED
  BY <1>2, <1>3, ConcatProperties

-----------------------------------------------------------------------------
\* The invariant the steps keep: types and absence of collateral together, since
\* what a worker has scanned must consist of rules for the merge to be exact.
IInv == TypeOK /\ NoCollateral

\* A fresh table satisfies it.
LEMMA InitIInv == Init => IInv
BY Programs, IPRulesAssumption DEF Init, IInv, TypeOK, NoCollateral

\* INSERT OR IGNORE by any worker, whether or not a merge follows.
LEMMA InsertIInv ==
  ASSUME IInv, NEW w \in Workers, NEW r \in Rules, NEW always \in BOOLEAN,
         Insert(w, r, always), UNCHANGED <<snapshot, seen>>, failures' \in 0..MaxFailures
  PROVE  IInv'
<1>1. todo' \in [Workers -> Seq(Steps)]
  BY Programs DEF IInv, TypeOK, Insert
<1>2. QED
  BY <1>1 DEF IInv, TypeOK, NoCollateral, Insert

\* DELETE of one rule by any worker.
LEMMA DeleteIInv ==
  ASSUME IInv, NEW w \in Workers, NEW r \in Rules,
         Delete(w, r), UNCHANGED <<snapshot, seen, asked>>, failures' \in 0..MaxFailures
  PROVE  IInv'
<1>1. todo' \in [Workers -> Seq(Steps)]
  BY Programs DEF IInv, TypeOK, Delete
<1>2. QED
  BY <1>1 DEF IInv, TypeOK, NoCollateral, Delete

\* The steps that an operation takes after its first statement.
LEMMA ProgressIInv ==
  ASSUME IInv, NEW w \in Workers, Progress(w)
  PROVE  IInv'
<1>. USE DEF IInv, TypeOK, NoCollateral
<1>1. CASE Select(w)
  <2>1. todo' \in [Workers -> Seq(Steps)]
    BY <1>1, Programs DEF Select
  <2>2. failures' \in 0..MaxFailures
    BY <1>1, IPRulesAssumption DEF Select, Works, Breaks
  <2>3. seen' \in [Workers -> SUBSET Rules] /\ \A v \in Workers : UNION seen'[v] \subseteq asked
    BY <1>1 DEF Select
  <2>4. QED
    BY <1>1, <2>1, <2>2, <2>3 DEF Select, table
<1>2. CASE Commit(w)
  <2>1. Tail(todo[w]) \in Seq(Steps)
    BY <1>2, HeadTailProperties DEF Commit, Doing, Free
  <2>2. seen[w] \in SUBSET Rules /\ UNION seen[w] \subseteq asked
    OBVIOUS
  <2>3. Merged(seen[w]) \in SUBSET Rules /\ UNION Merged(seen[w]) \subseteq asked
    BY <2>2, MergedCovers
  <2>4. failures' \in 0..MaxFailures
    BY <1>2, IPRulesAssumption DEF Commit, Works, Breaks
  <2>5. todo' \in [Workers -> Seq(Steps)]
    BY <1>2, <2>1, Programs DEF Commit
  <2>6. rows' \subseteq Rules /\ enabled' \subseteq rows' /\ UNION rows' \subseteq asked
    BY <1>2, <2>3 DEF Commit, table
  <2>7. QED
    BY <1>2, <2>4, <2>5, <2>6 DEF Commit
<1>3. CASE Build(w)
  <2>1. Tail(todo[w]) \in Seq(Steps)
    BY <1>3, HeadTailProperties DEF Build, Doing, Free
  <2>2. failures' \in 0..MaxFailures
    BY <1>3, IPRulesAssumption DEF Build, Works, Breaks
  <2>3. seen' \in [Workers -> SUBSET Rules] /\ \A v \in Workers : UNION seen'[v] \subseteq asked
    BY <1>3 DEF Build
  <2>4. QED
    BY <1>3, <2>1, <2>2, <2>3 DEF Build, table
<1>4. CASE Store(w)
  <2>1. Tail(todo[w]) \in Seq(Steps)
    BY <1>4, HeadTailProperties DEF Store, Doing, Free
  <2>2. QED
    BY <1>4, <2>1 DEF Store, table
<1>5. QED
  BY <1>1, <1>2, <1>3, <1>4 DEF Progress

\* An operation that changes no row and schedules a reload.
LEMMA LoadIInv ==
  ASSUME IInv, NEW w \in Workers, todo' = [todo EXCEPT ![w] = Load],
         rows' = rows, enabled' \subseteq rows,
         UNCHANGED <<snapshot, seen, asked, failures>>
  PROVE  IInv'
BY Programs DEF IInv, TypeOK, NoCollateral

\* Every step of the specification, stutters included.
LEMMA NextIInv == IInv /\ [Next]_rvars => IInv'
<1>. SUFFICES ASSUME IInv, [Next]_rvars
              PROVE  IInv'
  OBVIOUS
<1>1. CASE UNCHANGED rvars
  BY <1>1 DEF IInv, TypeOK, NoCollateral, rvars
<1>2. CASE Next
  <2>. PICK w \in Workers :
         \/ \E r \in Named \cap Rules :
              \/ AddIPRule(w, r)
              \/ RemoveIPRule(w, r)
              \/ \E on \in BOOLEAN : SetIPRuleEnabled(w, r, on)
         \/ ReloadRules(w)
         \/ Progress(w)
    BY <1>2 DEF Next
  <2>1. ASSUME NEW r \in Named \cap Rules, AddIPRule(w, r)
        PROVE  IInv'
    <3>1. Insert(w, r, FALSE) /\ UNCHANGED <<snapshot, seen>> /\ failures' \in 0..MaxFailures
      BY <2>1 DEF AddIPRule, IInv, TypeOK
    <3>2. QED
      BY <3>1, InsertIInv
  <2>2. ASSUME NEW r \in Named \cap Rules, RemoveIPRule(w, r)
        PROVE  IInv'
    <3>1. Delete(w, r) /\ UNCHANGED <<snapshot, seen, asked>> /\ failures' \in 0..MaxFailures
      BY <2>2 DEF RemoveIPRule, IInv, TypeOK
    <3>2. QED
      BY <3>1, DeleteIInv
  <2>3. ASSUME NEW r \in Named \cap Rules, NEW on \in BOOLEAN, SetIPRuleEnabled(w, r, on)
        PROVE  IInv'
    <3>1. rows' = rows /\ enabled' \subseteq rows
      BY <2>3 DEF SetIPRuleEnabled, IInv, TypeOK
    <3>2. QED
      BY <2>3, <3>1, LoadIInv DEF SetIPRuleEnabled
  <2>4. CASE ReloadRules(w)
    BY <2>4, LoadIInv DEF ReloadRules, table, IInv, TypeOK
  <2>5. CASE Progress(w)
    BY <2>5, ProgressIInv
  <2>6. QED
    BY <2>1, <2>2, <2>3, <2>4, <2>5
<1>3. QED
  BY <1>1, <1>2

-----------------------------------------------------------------------------
\* The rule table, the snapshot and the programs of the workers keep their types.
THEOREM RulesTyping == Spec => []TypeOK
<1>1. IInv => TypeOK
  BY DEF IInv
<1>2. QED
  BY InitIInv, NextIInv, <1>1, PTL DEF Spec

\* ip.go and cidr_merge.go: no interleaving of additions, removals, merges and
\* reloads ever blocks an address that no rule was added for.
THEOREM NobodyBlockedByAccident == Spec => []NoCollateral
<1>1. IInv => NoCollateral
  BY DEF IInv
<1>2. QED
  BY InitIInv, NextIInv, <1>1, PTL DEF Spec

-----------------------------------------------------------------------------
\* The part of the state that RecordChallengeFail, ExpireBlocks and RecoverFromDB
\* own.
BanType ==
  /\ fails \in [IPs -> 0..Threshold]
  /\ blocked \in [IPs -> Ban]
  /\ records \in [IPs -> Ban]
  /\ doing \in [at : Stages, ip : IPs] \cup {Idle}
  /\ crashes \in 0..MaxCrashes

\* What an operation under way relies on: while the mutex is held for a ban its
\* record is there, and memory does not hold the address until the last step.
DoingInv ==
  doing # Idle =>
    /\ blocked[doing.ip] = "none"
    /\ doing.at # "lifted" => records[doing.ip] = "running"

\* The strengthening under which BansAreOnRecord is inductive.
ABIInv == BanType /\ DoingInv /\ BansAreOnRecord

\* The state a fresh database starts in.
LEMMA InitABIInv == ABInit => ABIInv
BY AutoBlockAssumption
   DEF ABInit, ABIInv, BanType, DoingInv, BansAreOnRecord, Ban, Idle

\* Counting one failed challenge keeps the counter within the threshold.
LEMMA OneFailMoreType ==
  ASSUME BanType, NEW ip \in IPs, OneFailMore(ip)
  PROVE  fails' \in [IPs -> 0..Threshold]
BY AutoBlockAssumption DEF BanType, OneFailMore

\* Every step of the AutoBlocker and of its environment.
LEMMA NextABIInv == ABIInv /\ [ABNext]_vars => ABIInv'
<1>. SUFFICES ASSUME ABIInv, [ABNext]_vars
              PROVE  ABIInv'
  OBVIOUS
<1>. USE AutoBlockAssumption
     DEF ABIInv, BanType, DoingInv, BansAreOnRecord, Ban, Stages, Idle
<1>1. ASSUME NEW ip \in IPs, CountFail(ip)
      PROVE  ABIInv'
  BY <1>1, OneFailMoreType DEF CountFail
<1>2. ASSUME NEW ip \in IPs, PersistBlock(ip)
      PROVE  ABIInv'
  BY <1>2 DEF PersistBlock
<1>3. ASSUME NEW ip \in IPs, ChallengePass(ip)
      PROVE  ABIInv'
  BY <1>3 DEF ChallengePass
<1>4. ASSUME NEW ip \in IPs, LapseRecord(ip)
      PROVE  ABIInv'
  BY <1>4 DEF LapseRecord, Handling
<1>5. ASSUME NEW ip \in IPs, LapseBlock(ip)
      PROVE  ABIInv'
  BY <1>5 DEF LapseBlock, Handling
<1>6. ASSUME NEW ip \in IPs, ExpireBlock(ip)
      PROVE  ABIInv'
  BY <1>6 DEF ExpireBlock
<1>7. CASE AddRule
  <2>1. PICK stage \in {"ruled", "rollback"} : doing' = [doing EXCEPT !.at = stage]
    BY <1>7 DEF AddRule
  <2>2. doing \in [at : Stages, ip : IPs] /\ doing.at = "rule"
    BY <1>7 DEF AddRule
  <2>3. doing' \in [at : Stages, ip : IPs] /\ doing'.ip = doing.ip
    BY <2>1, <2>2
  <2>4. records[doing.ip] = "running" /\ blocked[doing.ip] = "none"
    BY <2>2
  <2>5. QED
    BY <1>7, <2>3, <2>4 DEF AddRule
<1>8. CASE Rollback
  BY <1>8, OneFailMoreType DEF Rollback
<1>9. CASE EnterBan
  BY <1>9 DEF EnterBan
<1>10. CASE DeleteRecord
  BY <1>10 DEF DeleteRecord
<1>11. CASE UNCHANGED avars
  BY <1>11 DEF avars
<1>12. CASE Restart
  BY <1>12 DEF Restart
<1>13. QED
  BY <1>1, <1>2, <1>3, <1>4, <1>5, <1>6, <1>7, <1>8, <1>9, <1>10, <1>11, <1>12
     DEF ABNext, BlockerStep, Lapse, Others, vars

\* autoblock.go: whatever crashes, fails or interleaves, an address that the
\* AutoBlocker holds in memory has its row in autoblock_records.
THEOREM MemoryIsOnRecord == ABSpec => []BansAreOnRecord
<1>1. ABIInv => BansAreOnRecord
  BY DEF ABIInv
<1>2. QED
  BY InitABIInv, NextABIInv, <1>1, PTL DEF ABSpec

-----------------------------------------------------------------------------
\* The rule engine keeps its invariant under every step of the AutoBlocker, which
\* shares its table, its snapshot and its count of failed statements.
LEMMA RulesUnderBans == ABIInv /\ IInv /\ [ABNext]_vars => IInv'
<1>. SUFFICES ASSUME ABIInv, IInv, [ABNext]_vars
              PROVE  IInv'
  OBVIOUS
<1>1. \A ip \in IPs : {ip} \in Rules
  BY AutoBlockAssumption
<1>2. Blocker \in Workers
  BY AutoBlockAssumption
<1>3. ASSUME Works \/ Breaks
      PROVE  failures' \in 0..MaxFailures
  BY <1>3, IPRulesAssumption DEF Works, Breaks, IInv, TypeOK
<1>4. CASE \E ip \in IPs : CountFail(ip)
  BY <1>4, <1>3 DEF CountFail, IInv, TypeOK, NoCollateral, table
<1>5. CASE AddRule
  <2>1. CASE Works /\ Insert(Blocker, {doing.ip}, TRUE)
    <3>1. doing.ip \in IPs
      BY <1>5 DEF AddRule, ABIInv, BanType, Idle
    <3>2. UNCHANGED <<snapshot, seen>>
      BY <1>5 DEF AddRule
    <3>3. QED
      BY <1>1, <1>2, <1>3, <2>1, <3>1, <3>2, InsertIInv
  <2>2. CASE Breaks /\ UNCHANGED <<table, todo, asked>>
    BY <1>3, <1>5, <2>2 DEF AddRule, IInv, TypeOK, NoCollateral, table
  <2>3. QED
    BY <1>5, <2>1, <2>2 DEF AddRule
<1>6. CASE \E ip \in IPs : ExpireBlock(ip)
  <2>. PICK ip \in IPs : ExpireBlock(ip)
    BY <1>6
  <2>1. UNCHANGED <<snapshot, seen, asked>>
    BY DEF ExpireBlock
  <2>2. CASE Works /\ Delete(Blocker, {ip})
    BY <1>1, <1>2, <1>3, <2>1, <2>2, DeleteIInv
  <2>3. CASE Breaks /\ UNCHANGED <<table, todo, doing>>
    BY <1>3, <2>1, <2>3 DEF IInv, TypeOK, NoCollateral, table
  <2>4. QED
    BY <2>2, <2>3 DEF ExpireBlock
<1>7. CASE Rollback \/ DeleteRecord
  BY <1>3, <1>7 DEF Rollback, DeleteRecord, IInv, TypeOK, NoCollateral, table
<1>8. CASE UNCHANGED rvars
  BY <1>8 DEF IInv, TypeOK, NoCollateral, rvars
<1>9. CASE Restart
  <2>1. /\ todo' \in [Workers -> Seq(Steps)]
        /\ seen' = [w \in Workers |-> {}]
        /\ snapshot' = UNION enabled
    BY <1>9, Programs DEF Restart
  <2>2. UNION enabled \subseteq UNION Rules /\ UNION enabled \subseteq asked
    BY DEF IInv, TypeOK, NoCollateral
  <2>3. QED
    BY <1>9, <2>1, <2>2 DEF Restart, IInv, TypeOK, NoCollateral, table
<1>10. CASE \E w \in Workers : Progress(w)
  BY <1>10, ProgressIInv
<1>11. ASSUME NEW w \in Workers, NEW r \in Rules, AddIPRule(w, r)
       PROVE  IInv'
  <2>1. Insert(w, r, FALSE) /\ UNCHANGED <<snapshot, seen>> /\ failures' \in 0..MaxFailures
    BY <1>11 DEF AddIPRule, IInv, TypeOK
  <2>2. QED
    BY <2>1, InsertIInv
<1>12. ASSUME NEW w \in Workers, NEW r \in Rules, RemoveIPRule(w, r)
       PROVE  IInv'
  <2>1. Delete(w, r) /\ UNCHANGED <<snapshot, seen, asked>> /\ failures' \in 0..MaxFailures
    BY <1>12 DEF RemoveIPRule, IInv, TypeOK
  <2>2. QED
    BY <2>1, DeleteIInv
<1>13. ASSUME NEW w \in Workers, ReloadRules(w)
       PROVE  IInv'
  BY <1>13, LoadIInv DEF ReloadRules, table, IInv, TypeOK
<1>14. QED
  BY <1>2, <1>4, <1>5, <1>6, <1>7, <1>8, <1>9, <1>10, <1>11, <1>12, <1>13
     DEF ABNext, BlockerStep, Others, PersistBlock, ChallengePass, Lapse, LapseRecord,
         LapseBlock, EnterBan, vars

\* The types of the rule engine and of the AutoBlocker together.
THEOREM BansTyping == ABSpec => []ABTypeOK
<1>1. ABInit => ABIInv /\ IInv
  BY InitABIInv, InitIInv DEF ABInit
<1>2. (ABIInv /\ IInv) /\ [ABNext]_vars => (ABIInv /\ IInv)'
  BY NextABIInv, RulesUnderBans
<1>3. ABIInv /\ IInv => ABTypeOK
  BY DEF ABIInv, BanType, IInv, ABTypeOK
<1>4. QED
  BY <1>1, <1>2, <1>3, PTL DEF ABSpec

-----------------------------------------------------------------------------
(* How the list of rules follows the bans, and the records the list, for any
   number of addresses, failures and reloads.                                *)

\* Nobody else edits the list: the others may reload it at any time.
AloneOnTheList == Named \cap Rules = {}

\* What a function makes of a finite set is finite.
LEMMA FiniteImage ==
  ASSUME NEW S, IsFiniteSet(S), NEW f, DOMAIN f = S
  PROVE  IsFiniteSet({f[x] : x \in S})
<1>. DEFINE T == {f[x] : x \in S}
<1>. DEFINE g == [x \in S |-> f[x]]
<1>1. g \in Surjection(S, T)
  BY DEF Surjection
<1>2. QED
  BY <1>1, FS_Surjection

\* There are finitely many CIDR blocks, each of finitely many addresses.
LEMMA BlocksAreFinite == IsFiniteSet(Blocks) /\ \A B \in Blocks : IsFiniteSet(B)
<1>. DEFINE Block(k, i) == (i * 2^k)..(i * 2^k + 2^k - 1)
            BlocksOf(k) == {Block(k, i) : i \in 0..(2^(Bits - k) - 1)}
            Families == {BlocksOf(k) : k \in 0..Bits}
<1>1. ASSUME NEW k \in 0..Bits
      PROVE  2^k \in Int /\ 2^(Bits - k) \in Int
  BY BitsAssumption, SMT
<1>2. ASSUME NEW k \in 0..Bits, NEW i \in 0..(2^(Bits - k) - 1)
      PROVE  IsFiniteSet(Block(k, i))
  <2>1. i * 2^k \in Int /\ i * 2^k + 2^k - 1 \in Int
    BY <1>1, SMT
  <2>2. QED
    BY <2>1, FS_Interval
<1>3. ASSUME NEW k \in 0..Bits
      PROVE  IsFiniteSet(BlocksOf(k))
  <2>. DEFINE numbers == 0..(2^(Bits - k) - 1)
              f == [i \in numbers |-> Block(k, i)]
  <2>1. IsFiniteSet(numbers)
    BY <1>1, FS_Interval
  <2>2. IsFiniteSet({f[i] : i \in numbers})
    BY <2>1, FiniteImage
  <2>3. {f[i] : i \in numbers} = BlocksOf(k)
    OBVIOUS
  <2>4. QED
    BY <2>2, <2>3
<1>4. IsFiniteSet(Families)
  <2>. DEFINE f == [k \in 0..Bits |-> BlocksOf(k)]
  <2>1. IsFiniteSet(0..Bits)
    BY BitsAssumption, FS_Interval
  <2>2. IsFiniteSet({f[k] : k \in 0..Bits})
    <3>. HIDE DEF BlocksOf
    <3>1. QED
      BY <2>1, FiniteImage
  <2>3. {f[k] : k \in 0..Bits} = Families
    OBVIOUS
  <2>4. QED
    BY <2>2, <2>3
<1>5. Blocks = UNION Families
  BY DEF Blocks
<1>6. \A F \in Families : IsFiniteSet(F) /\ \A B \in F : IsFiniteSet(B)
  <2>. HIDE DEF Block
  <2>1. QED
    BY <1>2, <1>3
<1>7. IsFiniteSet(UNION Families)
  <2>. HIDE DEF Families
  <2>1. QED
    BY <1>4, <1>6, FS_UNION
<1>8. QED
  BY <1>5, <1>6, <1>7

\* Every block inside a set of addresses is part of a largest one.
LEMMA LargestCover ==
  ASSUME NEW A, IsFiniteSet(A), NEW B \in Blocks, B \subseteq A
  PROVE  \E C \in LargestBlocks(A) : B \subseteq C
<1>. DEFINE inside == {C \in Blocks : B \subseteq C /\ C \subseteq A}
            left == {A \ C : C \in inside}
<1>2. left \subseteq FiniteSubsetsOf(A)
  BY FS_FiniteSubsetsOfFinite
<1>3. left # {}
  OBVIOUS
<1>4. PICK x \in left : \A y \in left : <<y, x>> \notin StrictSubsetOrdering(A)
  <2>. HIDE DEF left
  <2>1. IsWellFoundedOn(StrictSubsetOrdering(A), FiniteSubsetsOf(A))
    BY FS_StrictSubsetOrderingWellFounded
  <2>2. QED
    BY <1>2, <1>3, <2>1, WFMin
<1>5. PICK C \in inside : x = A \ C
  OBVIOUS
<1>6. ASSUME NEW D \in Blocks, D \subseteq A, C \subseteq D
      PROVE  D = C
  <2>1. D \in inside
    BY <1>6
  <2>2. <<A \ D, A \ C>> \notin StrictSubsetOrdering(A)
    BY <1>4, <1>5, <2>1
  <2>3. A \ D \subseteq A \ C /\ A \ D \in SUBSET A /\ A \ C \in SUBSET A
    BY <1>6
  <2>4. A \ D = A \ C
    BY <2>2, <2>3 DEF StrictSubsetOrdering
  <2>5. QED
    BY <2>4, <1>6
<1>7. QED
  BY <1>5, <1>6 DEF LargestBlocks

\* A merge makes no rule for a single address, and loses no IPv4 address.
LEMMA MergedKeeps ==
  ASSUME NEW S \in SUBSET Rules
  PROVE  /\ \A ip : {ip} \in Merged(S) => {ip} \in S
         /\ \A ip \in IPv4 : ip \in UNION S => ip \in UNION Merged(S)
<1>1. CASE Merged(S) = S
  BY <1>1
<1>2. CASE Merged(S) = LargestBlocks(UNION (S \cap Blocks))
  <2>1. ASSUME NEW ip, {ip} \in Merged(S)
        PROVE  {ip} \in S
    <3>1. PICK B \in S \cap Blocks : ip \in B
      BY <1>2, <2>1 DEF LargestBlocks
    <3>2. B \subseteq UNION (S \cap Blocks)
      OBVIOUS
    <3>3. {ip} \subseteq B
      BY <3>1
    <3>4. B = {ip}
      BY <1>2, <2>1, <3>1, <3>2, <3>3 DEF LargestBlocks
    <3>5. QED
      BY <3>1, <3>4
  <2>2. ASSUME NEW ip \in IPv4, ip \in UNION S
        PROVE  ip \in UNION Merged(S)
    <3>1. PICK B \in S : ip \in B
      BY <2>2
    <3>2. B \in Blocks
      BY <3>1, IPRulesAssumption DEF Rules, IPv4
    <3>3. IsFiniteSet(UNION (S \cap Blocks))
      BY BlocksAreFinite, FS_Subset, FS_UNION
    <3>4. PICK C \in LargestBlocks(UNION (S \cap Blocks)) : B \subseteq C
      BY <3>2, <3>3, LargestCover
    <3>5. QED
      BY <1>2, <3>1, <3>4
  <2>3. QED
    BY <2>1, <2>2
<1>3. QED
  BY <1>1, <1>2 DEF Merged

\* mergeIPsToCIDRs matches the IPv4 addresses its input matched and no others, for
\* every address space and every list of rules.
THEOREM MergeIsExact ==
  ASSUME NEW S \in SUBSET Rules
  PROVE  (UNION Merged(S)) \cap IPv4 = (UNION S) \cap IPv4
<1>1. (UNION Merged(S)) \cap IPv4 \subseteq (UNION S) \cap IPv4
  BY MergedCovers
<1>2. (UNION S) \cap IPv4 \subseteq (UNION Merged(S)) \cap IPv4
  BY MergedKeeps
<1>3. QED
  BY <1>1, <1>2

\* Powers differ when exponents do,
LEMMA PowersDiffer == \A a, b \in Nat : 2^a = 2^b => a = b
<1>1. ASSUME NEW a \in Nat, NEW b \in Nat, a < b
      PROVE  2^a # 2^b
  <2>1. b - a - 1 \in Nat /\ (b - a - 1) + 1 = b - a /\ b - a \in Nat /\ a <= b
    BY <1>1
  <2>2. 2^(b - a) = 2 * 2^(b - a - 1) /\ 2^(b - a - 1) \in Nat \ {0} /\ 2^a \in Nat \ {0}
    BY <2>1, PowersDouble
  <2>3. 2^b = 2^(b - a) * 2^a
    BY <2>1, PowersInOrder
  <2>4. \A m, p \in Nat \ {0} : (2 * m) * p # p
    OBVIOUS
  <2>5. QED
    BY <2>2, <2>3, <2>4
<1>2. QED
  BY <1>1

\* and ranges when their ends do.
LEMMA RangesDiffer ==
  ASSUME NEW a \in Int, NEW b \in Int, NEW c \in Int, NEW d \in Int, a <= b, a..b = c..d
  PROVE  a = c /\ b = d
<1>1. a \in c..d /\ b \in c..d
  OBVIOUS
<1>2. c \in a..b /\ d \in a..b
  BY <1>1
<1>3. QED
  BY <1>1, <1>2

\* The rules that texts with a range stand for.
RulesOf(texts) == {Span(RangeOf(t)) : t \in Ranged(texts)}

\* They are blocks,
LEMMA RulesOfAreBlocks == ASSUME NEW texts \in SUBSET Texts PROVE RulesOf(texts) \subseteq Blocks
<1>. SUFFICES ASSUME NEW t \in texts, HasRange(t) PROVE Span(RangeOf(t)) \in Blocks
  BY DEF RulesOf, Ranged
<1>1. RangeOf(t) \in Ranges /\ t.start \in IPv4 /\ t.ones \in 1..Bits
  BY TextsHaveRanges DEF HasRange
<1>2. Bits - t.ones \in 0..Bits /\ t.start \in Nat /\ Bits - t.ones \in Nat
  BY <1>1, BitsAssumption, SpaceIsInt
<1>3. RangeOf(t) = [first |-> t.start, last |-> t.start + 2^(Bits - t.ones) - 1]
  BY DEF RangeOf, SizeOf
<1>4. 2^(Bits - t.ones) \in Nat \ {0}
  BY <1>2, PowersDouble
<1>5. t.start + 2^(Bits - t.ones) <= 2^Bits
  <2>1. t.start + 2^(Bits - t.ones) - 1 \in IPv4
    BY <1>1, <1>3 DEF Ranges
  <2>2. QED
    BY <1>2, <1>4, <2>1, SpaceIsInt DEF Top
<1>6. t.start % 2^(Bits - t.ones) = 0
  <2>1. CASE t.v6
    <3>1. t.start = 0
      BY <2>1 DEF Texts
    <3>2. QED
      BY <1>4, <3>1
  <2>2. CASE ~t.v6
    BY <2>2 DEF Texts, SizeOf
  <2>3. QED
    BY <2>1, <2>2
<1>7. t.start..(t.start + 2^(Bits - t.ones) - 1) \in Blocks
  BY <1>2, <1>5, <1>6, BlockForm
<1>8. QED
  BY <1>3, <1>7 DEF Span

\* and different texts of IPv4 stand for different ones.
LEMMA TextsDiffer ==
  ASSUME NEW t \in Texts, NEW u \in Texts, HasRange(t), HasRange(u), ~t.v6, ~u.v6,
         Span(RangeOf(t)) = Span(RangeOf(u))
  PROVE  t = u
<1>1. /\ RangeOf(t) \in Ranges /\ RangeOf(u) \in Ranges
      /\ RangeOf(t).first = t.start /\ RangeOf(u).first = u.start
  BY TextsHaveRanges
<1>2. /\ RangeOf(t).first \in Int /\ RangeOf(t).last \in Int /\ RangeOf(t).first <= RangeOf(t).last
      /\ RangeOf(u).first \in Int /\ RangeOf(u).last \in Int
  BY <1>1, SpaceIsInt DEF Ranges
<1>3. RangeOf(t).first = RangeOf(u).first /\ RangeOf(t).last = RangeOf(u).last
  BY <1>2, RangesDiffer DEF Span
<1>4. /\ t \in [v6 : {FALSE}, start : IPv4, ones : 0..Bits]
      /\ u \in [v6 : {FALSE}, start : IPv4, ones : 0..Bits]
  BY DEF Texts
<1>5. Bits - t.ones \in Nat /\ Bits - u.ones \in Nat /\ t.ones \in Nat /\ u.ones \in Nat /\ t.start \in Nat /\ u.start \in Nat
  BY <1>4, BitsAssumption, SpaceIsInt
<1>6. 2^(Bits - t.ones) = 2^(Bits - u.ones)
  <2>1. t.start + 2^(Bits - t.ones) - 1 = u.start + 2^(Bits - u.ones) - 1 /\ t.start = u.start
    BY <1>1, <1>3 DEF RangeOf, SizeOf
  <2>2. 2^(Bits - t.ones) \in Nat /\ 2^(Bits - u.ones) \in Nat
    BY <1>5, PowersDouble
  <2>3. QED
    BY <1>5, <2>1, <2>2
<1>7. Bits - t.ones = Bits - u.ones
  BY <1>5, <1>6, PowersDiffer
<1>8. t.ones = u.ones
  <2>1. \A a, b \in Nat : Bits - a = Bits - b => a = b
    BY BitsAssumption
  <2>2. QED
    BY <1>5, <1>7, <2>1
<1>9. t.start = u.start
  BY <1>1, <1>3
<1>10. /\ t = [v6 |-> FALSE, start |-> t.start, ones |-> t.ones]
       /\ u = [v6 |-> FALSE, start |-> u.start, ones |-> u.ones]
  BY <1>4
<1>11. QED
  BY <1>8, <1>9, <1>10

\* A call has two ranges at least.
TwoRanges == mergeStep # "idle" => \E t, u \in Ranged(ipList) : t # u

\* It keeps its list until it returns.
LEMMA RangesAreTwo == TwoRanges /\ [MergeNext]_mergeVars => TwoRanges'
<1>1. ASSUME NEW texts, Call(texts)
      PROVE  TwoRanges'
  <2>1. ipList' = texts /\ Cardinality(Ranged(texts)) > 1
    BY <1>1 DEF Call, Ranged
  <2>2. \E t, u \in Ranged(texts) : t # u
    <3>. SUFFICES ASSUME \A t, u \in Ranged(texts) : t = u PROVE FALSE
      OBVIOUS
    <3>1. Ranged(texts) = {} \/ \E t : Ranged(texts) = {t}
      OBVIOUS
    <3>2. Cardinality({}) = 0 /\ \A t : Cardinality({t}) = 1
      BY FS_EmptySet, FS_Singleton
    <3>3. Cardinality(Ranged(texts)) \in {0, 1}
      BY <3>1, <3>2
    <3>4. QED
      BY <2>1, <3>3
  <2>3. QED
    BY <2>1, <2>2 DEF TwoRanges
<1>2. QED
  BY <1>1 DEF TwoRanges, MergeNext, Scan, EndScan, CutOff, Return, mergeVars

\* So what it returns is what Merged makes of the rules, those of IPv6 left out.
LEMMA DoneIsMerged ==
  ASSUME MergeInv, TwoRanges, mergeStep = "done", Proper(ipList), Top \notin Matched(ipList),
         NEW plain \in SUBSET {{a} : a \in IPv6}
  PROVE  cidrs = Merged(RulesOf(ipList) \cup plain)
<1>1. ipList \in SUBSET Texts /\ \A t \in Ranged(ipList) : ~t.v6
  BY DEF MergeInv, Ranged, Proper
<1>2. (RulesOf(ipList) \cup plain) \cap Blocks = RulesOf(ipList)
  <2>1. plain \cap Blocks = {}
    BY BlocksLieInSpace, IPRulesAssumption DEF IPv4
  <2>2. QED
    BY <1>1, <2>1, RulesOfAreBlocks
<1>3. UNION RulesOf(ipList) = Matched(ipList)
  <2>1. \A t \in ipList : HasRange(t) <=> ~t.v6
    BY <1>1 DEF Proper, Ranged
  <2>2. \A t \in ipList : Span(RangeOf(t)) = t.start..(t.start + SizeOf(t.ones) - 1)
    BY DEF Span, RangeOf
  <2>3. QED
    BY <2>1, <2>2 DEF RulesOf, Ranged, Matched
<1>4. cidrs = LargestBlocks(Matched(ipList))
  BY DoneIsRight DEF MergeIsRight, Top
<1>5. ~(Cardinality(RulesOf(ipList)) <= 1)
  <2>1. IsFiniteSet(RulesOf(ipList))
    BY <1>1, RulesOfAreBlocks, BlocksAreFinite, FS_Subset
  <2>2. PICK t \in Ranged(ipList), u \in Ranged(ipList) : t # u
    BY DEF TwoRanges
  <2>3. Span(RangeOf(t)) # Span(RangeOf(u))
    BY <1>1, <2>2, TextsDiffer DEF Ranged
  <2>4. Span(RangeOf(t)) \in RulesOf(ipList) /\ Span(RangeOf(u)) \in RulesOf(ipList)
    BY DEF RulesOf
  <2>5. Cardinality(RulesOf(ipList)) \in Nat
    BY <2>1, FS_CardinalityType
  <2>6. Cardinality(RulesOf(ipList)) # 0
    BY <2>1, <2>4, FS_EmptySet
  <2>7. Cardinality(RulesOf(ipList)) # 1
    BY <2>1, <2>3, <2>4, FS_Singleton
  <2>8. QED
    BY <2>5, <2>6, <2>7
<1>6. QED
  BY <1>2, <1>3, <1>4, <1>5 DEF Merged

\* The loops of mergeIPsToCIDRs return what Merged of IPRules says they do. (A list
\* that reaches the last address may get more blocks than it needs.)
LoopsGiveMerged ==
  mergeStep = "done" /\ Proper(ipList) /\ Top \notin Matched(ipList) =>
    \A plain \in SUBSET {{a} : a \in IPv6} : cidrs = Merged(RulesOf(ipList) \cup plain)

(* cidr_merge.go: what IPRules and AutoBlock take a merge to be in one step, and
   what MergeIsExact says of it, is what the loops compute, for words of any number
   of bits and lists of any length. *)
THEOREM LoopsComputeMerged == MergeSpec => []LoopsGiveMerged
<1>1. MergeInit => TwoRanges
  BY DEF MergeInit, TwoRanges
<1>2. MergeInv /\ TwoRanges => LoopsGiveMerged
  BY DoneIsMerged DEF LoopsGiveMerged
<1>3. QED
  BY <1>1, <1>2, MergeStarts, MergeStepInv, RangesAreTwo, PTL DEF MergeSpec

\* A merge gives back the list it was given, or what it has ranges for.
LEMMA MergedIsList ==
  ASSUME NEW S \in SUBSET Rules
  PROVE  UNION Merged(S) = UNION S \/ UNION Merged(S) = (UNION S) \cap IPv4
<1>1. CASE Merged(S) = S
  BY <1>1
<1>2. CASE Merged(S) = LargestBlocks(UNION (S \cap Blocks))
  <2>1. UNION Merged(S) \subseteq IPv4
    BY <1>2, BlocksLieInSpace DEF LargestBlocks
  <2>2. QED
    BY <2>1, MergeIsExact
<1>3. QED
  BY <1>1, <1>2 DEF Merged

\* What each worker holds of the list.
Held == [w \in Workers |-> UNION seen[w]]

\* A step of the promise, or one that changes nothing of it.
PromiseStep == [ListPromise!Next]_(ListPromise!vars)

\* What a worker scans or forgets is what it holds.
LEMMA ReadsAndLoses ==
  ASSUME seen \in [Workers -> SUBSET Rules], NEW w \in Workers, NEW found,
         seen' = [seen EXCEPT ![w] = found]
  PROVE  Held' = [Held EXCEPT ![w] = UNION found]
BY DEF Held


\* Nobody scans, nobody holds anything else.
LEMMA KeepsHeld == seen' = seen => Held' = Held
BY DEF Held

\* The steps of the promise, told by the list, the snapshot and the scans: addresses
\* are listed,
LEMMA EnterStep ==
  ASSUME NEW named \in Named \cap Rules, UNION enabled' = (UNION enabled) \cup named,
         snapshot' = snapshot, Held' = Held
  PROVE  PromiseStep
<1>1. ListPromise!Enter(named)
  BY DEF ListPromise!Enter, Held
<1>2. QED
  BY <1>1 DEF PromiseStep, ListPromise!Next

\* or no longer listed,
LEMMA LeaveStep ==
  ASSUME NEW named \in Named \cap Rules, UNION enabled' \subseteq UNION enabled,
         (UNION enabled) \ named \subseteq UNION enabled',
         snapshot' = snapshot, Held' = Held
  PROVE  PromiseStep
<1>1. ListPromise!Leave(named)
  BY DEF ListPromise!Leave, Held
<1>2. QED
  BY <1>1 DEF PromiseStep, ListPromise!Next

\* or a worker reads, forgets, publishes or merges,
LEMMA WorkerStep ==
  ASSUME NEW w \in Workers,
         \/ Held' = [Held EXCEPT ![w] = UNION enabled] /\ enabled' = enabled /\ snapshot' = snapshot
         \/ Held' = [Held EXCEPT ![w] = {}] /\ enabled' = enabled /\ snapshot' = snapshot
         \/ Held' = [Held EXCEPT ![w] = {}] /\ enabled' = enabled /\ snapshot' = Held[w]
         \/ Held' = [Held EXCEPT ![w] = {}] /\ snapshot' = snapshot
            /\ UNION enabled' \in {Held[w], Held[w] \cap IPv4}
  PROVE  PromiseStep
<1>1. ListPromise!Read(w) \/ ListPromise!Lose(w) \/ ListPromise!Publish(w) \/ ListPromise!Merge(w)
  BY DEF ListPromise!Read, ListPromise!Lose, ListPromise!Publish, ListPromise!Merge, Held
<1>2. QED
  BY <1>1 DEF PromiseStep, ListPromise!Next

\* or nothing happens.
LEMMA NoStep ==
  ASSUME UNION enabled' = UNION enabled, snapshot' = snapshot, Held' = Held
  PROVE  PromiseStep
BY DEF PromiseStep, ListPromise!vars, Held

\* The steps that follow the first statement of an operation.
LEMMA ProgressPromise ==
  ASSUME IInv, NEW w \in Workers, Progress(w)
  PROVE  PromiseStep
<1>1. seen \in [Workers -> SUBSET Rules] /\ seen[w] \in SUBSET Rules /\ Held[w] = UNION seen[w]
  BY DEF IInv, TypeOK, Held
<1>2. ASSUME NEW found, seen' = [seen EXCEPT ![w] = found]
      PROVE  Held' = [Held EXCEPT ![w] = UNION found]
  BY <1>1, <1>2, ReadsAndLoses
<1>3. UNION {} = {}
  OBVIOUS
<1>4. CASE Select(w)
  <2>1. enabled' = enabled /\ snapshot' = snapshot
    BY <1>4 DEF Select, table
  <2>2. seen' = [seen EXCEPT ![w] = enabled] \/ seen' = seen
    BY <1>4 DEF Select
  <2>3. QED
    BY <1>2, <2>1, <2>2, KeepsHeld, WorkerStep, NoStep
<1>5. CASE Commit(w)
  <2>1. seen' = [seen EXCEPT ![w] = {}] /\ snapshot' = snapshot
    BY <1>5 DEF Commit
  <2>2. enabled' = Merged(seen[w]) \/ enabled' = enabled
    BY <1>5 DEF Commit, table
  <2>3. Held' = [Held EXCEPT ![w] = {}]
    BY <1>2, <1>3, <2>1
  <2>4. UNION enabled' \in {Held[w], Held[w] \cap IPv4} \/ enabled' = enabled
    BY <1>1, <2>2, MergedIsList
  <2>5. QED
    BY <2>1, <2>3, <2>4, WorkerStep
<1>6. CASE Build(w)
  <2>1. enabled' = enabled /\ snapshot' = snapshot
    BY <1>6 DEF Build, table
  <2>2. seen' = [seen EXCEPT ![w] = enabled] \/ seen' = [seen EXCEPT ![w] = {}]
    BY <1>6 DEF Build
  <2>3. Held' = [Held EXCEPT ![w] = UNION enabled] \/ Held' = [Held EXCEPT ![w] = {}]
    BY <1>2, <1>3, <2>2
  <2>4. QED
    BY <2>1, <2>3, WorkerStep
<1>7. CASE Store(w)
  <2>1. enabled' = enabled /\ snapshot' = Held[w] /\ seen' = [seen EXCEPT ![w] = {}]
    BY <1>1, <1>7 DEF Store, table
  <2>2. Held' = [Held EXCEPT ![w] = {}]
    BY <1>2, <1>3, <2>1
  <2>3. QED
    BY <2>1, <2>2, WorkerStep
<1>8. QED
  BY <1>4, <1>5, <1>6, <1>7 DEF Progress

\* Every step of the rule engine is one of the promise, or changes nothing there.
LEMMA NextPromise == IInv /\ [Next]_rvars => PromiseStep
<1>. SUFFICES ASSUME IInv, [Next]_rvars PROVE PromiseStep
  OBVIOUS
<1>1. CASE UNCHANGED rvars
  BY <1>1, KeepsHeld, NoStep DEF rvars
<1>2. CASE Next
  <2>. PICK w \in Workers :
         \/ \E r \in Named \cap Rules :
              \/ AddIPRule(w, r)
              \/ RemoveIPRule(w, r)
              \/ \E on \in BOOLEAN : SetIPRuleEnabled(w, r, on)
         \/ ReloadRules(w)
         \/ Progress(w)
    BY <1>2 DEF Next
  <2>1. ASSUME NEW r \in Named \cap Rules, AddIPRule(w, r)
        PROVE  PromiseStep
    <3>1. snapshot' = snapshot /\ Held' = Held
      BY <2>1, KeepsHeld DEF AddIPRule
    <3>2. enabled' = enabled \/ UNION enabled' = (UNION enabled) \cup r
      BY <2>1 DEF AddIPRule, Insert
    <3>3. QED
      BY <3>1, <3>2, EnterStep, NoStep
  <2>2. ASSUME NEW r \in Named \cap Rules, RemoveIPRule(w, r)
        PROVE  PromiseStep
    <3>1. snapshot' = snapshot /\ Held' = Held /\ enabled' = enabled \ {r}
      BY <2>2, KeepsHeld DEF RemoveIPRule, Delete
    <3>2. UNION enabled' \subseteq UNION enabled /\ (UNION enabled) \ r \subseteq UNION enabled'
      BY <3>1
    <3>3. QED
      BY <3>1, <3>2, LeaveStep
  <2>3. ASSUME NEW r \in Named \cap Rules, NEW on \in BOOLEAN, SetIPRuleEnabled(w, r, on)
        PROVE  PromiseStep
    <3>1. snapshot' = snapshot /\ Held' = Held
      BY <2>3, KeepsHeld DEF SetIPRuleEnabled
    <3>2. CASE enabled' = enabled \cup {r}
      <4>1. UNION enabled' = (UNION enabled) \cup r
        BY <3>2
      <4>2. QED
        BY <3>1, <4>1, EnterStep
    <3>3. CASE enabled' = enabled \ {r}
      <4>1. UNION enabled' \subseteq UNION enabled /\ (UNION enabled) \ r \subseteq UNION enabled'
        BY <3>3
      <4>2. QED
        BY <3>1, <4>1, LeaveStep
    <3>4. QED
      BY <2>3, <3>2, <3>3 DEF SetIPRuleEnabled
  <2>4. CASE ReloadRules(w)
    BY <2>4, KeepsHeld, NoStep DEF ReloadRules, table
  <2>5. QED
    BY <2>1, <2>2, <2>3, <2>4, ProgressPromise
<1>3. QED
  BY <1>1, <1>2

\* An empty table promises nothing yet.
LEMMA InitPromise == Init => ListPromise!Init
BY DEF Init, ListPromise!Init

(* The rule engine (ip.go, engine.go), whatever its goroutines do, fail to do or do
   at the same time: every step of its tables, scans, merges and snapshots is a step
   of the list of addresses that RuleListPromise describes, or changes nothing of
   it.                                                                       *)
THEOREM RulesKeepPromise == Spec => KeepsListPromise
<1>1. QED
  BY InitIInv, NextIInv, InitPromise, NextPromise, PTL DEF Spec, KeepsListPromise, ListPromise!Spec, PromiseStep

\* What a worker may have left to do: to reload, after a merge, and what else the
\* AutoBlocker calls.
Commits == <<"commit", "build", "store">>
Reloads == {<<>>, <<"store">>, <<"build", "store">>}
Runs == Reloads \cup {<<"select">>, Commits, <<"store", "select">>,
                      <<"build", "store", "select">>}

\* The AutoBlocker alone merges, and what it has scanned is still the list.
ScansInv ==
  /\ enabled = rows
  /\ DOMAIN todo = Workers /\ DOMAIN seen = Workers
  /\ \A w \in Workers \ {Blocker} : todo[w] \in Reloads
  /\ todo[Blocker] \in Runs
  /\ todo[Blocker] = Commits => seen[Blocker] = rows

\* Concatenation, item by item.
LEMMA Joined ==
  ASSUME NEW s \in Seq(Steps), NEW t \in Seq(Steps), NEW u \in Seq(Steps),
         Len(u) = Len(s) + Len(t),
         \A i \in 1..Len(s) + Len(t) : u[i] = IF i <= Len(s) THEN s[i] ELSE t[i - Len(s)]
  PROVE  s \o t = u
<1>1. /\ s \o t \in Seq(Steps) /\ Len(s \o t) = Len(s) + Len(t)
      /\ \A i \in 1..Len(s) + Len(t) : (s \o t)[i] = IF i <= Len(s) THEN s[i] ELSE t[i - Len(s)]
  BY ConcatProperties, Zenon
<1>2. \A i \in 1..Len(s \o t) : (s \o t)[i] = u[i]
  <2>. HIDE DEF Steps
  <2>1. QED
    BY <1>1, Zenon
<1>3. QED
  BY <1>1, <1>2, SeqEqual, Zenon

\* What is left after a step.
LEMMA RunsGoOn ==
  /\ Load = <<"build", "store">> /\ Merge = <<"select">>
  /\ Load \o Merge = <<"build", "store", "select">>
  /\ <<"commit">> \o Load = Commits
  /\ \A rest \in Runs : rest # <<>> => Tail(rest) \in Runs
  /\ \A rest \in Reloads : rest # <<>> => Tail(rest) \in Reloads
  /\ \A rest \in Reloads : rest # <<>> => Head(rest) \in {"build", "store"}
  /\ \A rest \in Runs : rest # <<>> /\ Head(rest) = "commit" => rest = Commits
  /\ \A rest \in Runs : rest # <<>> => Tail(rest) # Commits
<1>1. Load = <<"build", "store">> /\ Merge = <<"select">>
  BY DEF Load, Merge
<1>2. <<"build", "store">> \o <<"select">> = <<"build", "store", "select">>
  <2>. DEFINE s == <<"build", "store">>
              t == <<"select">>
              u == <<"build", "store", "select">>
  <2>1. s \in Seq(Steps) /\ t \in Seq(Steps) /\ u \in Seq(Steps)
    BY DEF Steps
  <2>2. Len(s) = 2 /\ Len(t) = 1 /\ Len(u) = 3
    OBVIOUS
  <2>3. u[1] = s[1] /\ u[2] = s[2] /\ u[3] = t[1]
    OBVIOUS
  <2>4. QED
    <3>. HIDE DEF s, t, u
    <3>0. Len(u) = Len(s) + Len(t)
      BY <2>2
    <3>1. \A i \in 1..Len(s) + Len(t) : u[i] = IF i <= Len(s) THEN s[i] ELSE t[i - Len(s)]
      BY <2>2, <2>3
    <3>2. s \o t = u
      BY <2>1, <3>0, <3>1, Joined, Zenon
    <3>3. QED
      BY <3>2 DEF s, t, u
<1>3. <<"commit">> \o <<"build", "store">> = <<"commit", "build", "store">>
  <2>. DEFINE s == <<"commit">>
              t == <<"build", "store">>
              u == <<"commit", "build", "store">>
  <2>1. s \in Seq(Steps) /\ t \in Seq(Steps) /\ u \in Seq(Steps)
    BY DEF Steps
  <2>2. Len(s) = 1 /\ Len(t) = 2 /\ Len(u) = 3
    OBVIOUS
  <2>3. u[1] = s[1] /\ u[2] = t[1] /\ u[3] = t[2]
    OBVIOUS
  <2>4. QED
    <3>. HIDE DEF s, t, u
    <3>0. Len(u) = Len(s) + Len(t)
      BY <2>2
    <3>1. \A i \in 1..Len(s) + Len(t) : u[i] = IF i <= Len(s) THEN s[i] ELSE t[i - Len(s)]
      BY <2>2, <2>3
    <3>2. s \o t = u
      BY <2>1, <3>0, <3>1, Joined, Zenon
    <3>3. QED
      BY <3>2 DEF s, t, u
<1>4. /\ Tail(<<"store">>) = <<>> /\ Tail(<<"build", "store">>) = <<"store">>
      /\ Tail(<<"select">>) = <<>> /\ Tail(<<"store", "select">>) = <<"select">>
      /\ Tail(<<"commit", "build", "store">>) = <<"build", "store">>
      /\ Tail(<<"build", "store", "select">>) = <<"store", "select">>
  OBVIOUS
<1>5. /\ Head(<<"store">>) = "store" /\ Head(<<"build", "store">>) = "build"
      /\ Head(<<"select">>) = "select" /\ Head(<<"store", "select">>) = "store"
      /\ Head(<<"commit", "build", "store">>) = "commit"
      /\ Head(<<"build", "store", "select">>) = "build"
  OBVIOUS
<1>6. /\ <<>> # <<"commit", "build", "store">> /\ <<"store">> # <<"commit", "build", "store">>
      /\ <<"select">> # <<"commit", "build", "store">>
      /\ <<"store", "select">> # <<"commit", "build", "store">>
      /\ <<"build", "store">> # <<"commit", "build", "store">>
  OBVIOUS
<1>7. QED
  BY <1>1, <1>2, <1>3, <1>4, <1>5, <1>6, Zenon DEF Runs, Reloads, Commits

\* One goroutine runs the operations, and they name no IPv6 address.
OneCaller(boss) == Workers = {boss} /\ Named \cap Rules \subseteq Blocks

\* The one worker goes through its programs, and what it has scanned to merge is
\* still the list.
OwnScan(boss) ==
  /\ rows \subseteq Blocks /\ seen[boss] \subseteq Blocks
  /\ todo[boss] \in Runs
  /\ todo[boss] = Commits => seen[boss] = enabled

\* It keeps doing so,
LEMMA OwnScanKept ==
  ASSUME NEW boss, OneCaller(boss), IInv, OwnScan(boss), [Next]_rvars
  PROVE  OwnScan(boss)'
<1>1. boss \in Workers /\ \A w \in Workers : w = boss
  BY DEF OneCaller
<1>2. /\ DOMAIN todo = Workers /\ DOMAIN seen = Workers /\ enabled \subseteq rows
      /\ rows \subseteq Blocks /\ seen[boss] \subseteq Blocks /\ todo[boss] \in Runs
      /\ todo[boss] = Commits => seen[boss] = enabled
  BY DEF IInv, TypeOK, OwnScan
<1>3. /\ <<>> \in Runs /\ Load \in Runs /\ Merge \in Runs /\ Load \o Merge \in Runs /\ Commits \in Runs
      /\ <<>> # Commits /\ Load # Commits /\ Merge # Commits /\ Load \o Merge # Commits
  BY RunsGoOn DEF Reloads, Runs
<1>4. todo[boss] # <<>> => Tail(todo[boss]) \in Runs /\ Tail(todo[boss]) # Commits
  BY <1>2, RunsGoOn
<1>. HIDE DEF Reloads, Runs
<1>5. ASSUME NEW rest, todo' = [todo EXCEPT ![boss] = rest], rest \in Runs, rest # Commits,
             rows' \subseteq Blocks, seen'[boss] \subseteq Blocks
      PROVE  OwnScan(boss)'
  BY <1>1, <1>2, <1>5 DEF OwnScan
<1>6. CASE UNCHANGED rvars
  BY <1>6 DEF rvars, OwnScan
<1>7. ASSUME NEW r \in Named \cap Rules, AddIPRule(boss, r)
      PROVE  OwnScan(boss)'
  <2>1. r \in Blocks
    BY DEF OneCaller
  <2>2. rows' = rows \cup {r} /\ seen' = seen
    BY <1>7 DEF AddIPRule, Insert
  <2>3. PICK rest \in {<<>>, Merge} : todo' = [todo EXCEPT ![boss] = rest]
    BY <1>7 DEF AddIPRule, Insert
  <2>4. QED
    BY <1>2, <1>3, <1>5, <2>1, <2>2, <2>3
<1>8. ASSUME NEW r, RemoveIPRule(boss, r)
      PROVE  OwnScan(boss)'
  <2>1. rows' = rows \ {r} /\ seen' = seen /\ todo' = [todo EXCEPT ![boss] = Load \o Merge]
    BY <1>8 DEF RemoveIPRule, Delete
  <2>2. QED
    BY <1>2, <1>3, <1>5, <2>1
<1>9. ASSUME NEW r, NEW on, SetIPRuleEnabled(boss, r, on)
      PROVE  OwnScan(boss)'
  BY <1>2, <1>3, <1>5, <1>9 DEF SetIPRuleEnabled
<1>10. CASE ReloadRules(boss)
  BY <1>2, <1>3, <1>5, <1>10 DEF ReloadRules, table
<1>11. CASE Select(boss)
  <2>1. rows' = rows /\ enabled' = enabled
    BY <1>11 DEF Select, table
  <2>2. CASE seen' = [seen EXCEPT ![boss] = enabled] /\ todo' = [todo EXCEPT ![boss] = <<"commit">> \o Load]
    <3>1. todo'[boss] = Commits /\ seen'[boss] = enabled
      BY <1>1, <1>2, <2>2, RunsGoOn
    <3>2. QED
      BY <1>2, <1>3, <2>1, <3>1 DEF OwnScan
  <2>3. CASE seen' = seen /\ todo' = [todo EXCEPT ![boss] = <<>>]
    BY <1>2, <1>3, <1>5, <2>1, <2>3
  <2>4. QED
    BY <1>11, <2>2, <2>3 DEF Select
<1>12. CASE Commit(boss)
  <2>1. todo[boss] # <<>>
    BY <1>12 DEF Commit, Doing, Free
  <2>2. PICK rest \in {<<>>, Tail(todo[boss])} : todo' = [todo EXCEPT ![boss] = rest]
    BY <1>12 DEF Commit
  <2>3. Merged(seen[boss]) \subseteq Blocks
    BY <1>2 DEF Merged, LargestBlocks
  <2>4. rows' \subseteq Blocks /\ seen'[boss] = {}
    BY <1>1, <1>2, <1>12, <2>3 DEF Commit, table
  <2>5. QED
    BY <1>3, <1>4, <1>5, <2>1, <2>2, <2>4
<1>13. CASE Build(boss) \/ Store(boss)
  <2>1. todo[boss] # <<>> /\ rows' = rows /\ todo' = [todo EXCEPT ![boss] = Tail(todo[boss])]
    BY <1>13 DEF Build, Store, Doing, Free, table
  <2>2. seen'[boss] \in {enabled, {}}
    BY <1>1, <1>2, <1>13 DEF Build, Store
  <2>3. QED
    BY <1>2, <1>4, <1>5, <2>1, <2>2
<1>14. QED
  BY <1>1, <1>6, <1>7, <1>8, <1>9, <1>10, <1>11, <1>12, <1>13 DEF Next, Progress

\* and so neither an addition nor a merge takes an address off the list.
LEMMA NothingIsLost ==
  ASSUME NEW boss, OneCaller(boss), IInv, OwnScan(boss),
         (\E r \in Named : AddIPRule(boss, r)) \/ Commit(boss)
  PROVE  UNION enabled \subseteq UNION enabled'
<1>1. CASE \E r \in Named : AddIPRule(boss, r)
  <2>1. enabled \subseteq enabled'
    BY <1>1 DEF AddIPRule, Insert
  <2>2. QED
    BY <2>1
<1>2. CASE Commit(boss)
  <2>1. todo[boss] \in Runs /\ todo[boss] # <<>> /\ Head(todo[boss]) = "commit"
    BY <1>2 DEF Commit, Doing, Free, OwnScan
  <2>2. todo[boss] = Commits
    BY <2>1, RunsGoOn
  <2>3. seen[boss] = enabled
    BY <2>2 DEF OwnScan
  <2>4. enabled' = Merged(enabled) \/ enabled' = enabled
    BY <1>2, <2>3 DEF Commit, table
  <2>5. enabled \subseteq Blocks /\ enabled \in SUBSET Rules /\ UNION enabled \subseteq IPv4
    BY BlocksLieInSpace DEF OwnScan, IInv, TypeOK
  <2>6. QED
    BY <2>4, <2>5, MergedKeeps
<1>3. QED
  BY <1>1, <1>2

(* AddIPRule and tryMergeIPRules of ip.go: where one goroutine runs the operations
   and nobody names an IPv6 address, neither an addition nor the merge after it
   takes an address off the list, whatever statements fail.                  *)
THEOREM OneCallerLosesNothing ==
  ASSUME NEW boss, OneCaller(boss)
  PROVE  Spec => AddingLosesNothing
<1>. DEFINE Inv == IInv /\ OwnScan(boss)
            Keeps == \A w \in Workers : (\/ \E r \in Named : AddIPRule(w, r)
                                         \/ Commit(w))
                       => UNION enabled \subseteq UNION enabled'
<1>1. Init => Inv
  <2>1. boss \in Workers
    BY DEF OneCaller
  <2>2. Init => OwnScan(boss)
    BY <2>1, RunsGoOn DEF Init, OwnScan, Runs, Reloads
  <2>3. QED
    BY <2>2, InitIInv
<1>2. Inv /\ [Next]_rvars => Inv'
  BY NextIInv, OwnScanKept
<1>3. Inv /\ [Next]_rvars => [Keeps]_rvars
  BY NothingIsLost DEF OneCaller
<1>4. QED
  BY <1>1, <1>2, <1>3, PTL DEF Spec, AddingLosesNothing

\* A worker that goes on so keeps the list as the AutoBlocker has scanned it.
LEMMA ScansKept ==
  ASSUME ScansInv, NEW w \in Workers, NEW rest,
         todo' = [todo EXCEPT ![w] = rest], DOMAIN seen' = Workers, enabled' = rows',
         w # Blocker => rest \in Reloads /\ rows' = rows /\ seen'[Blocker] = seen[Blocker],
         w = Blocker => rest \in Runs /\ (rest = Commits => seen'[Blocker] = rows')
  PROVE  ScansInv'
<1>. HIDE DEF Reloads, Runs
<1>1. Blocker \in Workers /\ DOMAIN todo = Workers
  BY AutoBlockAssumption DEF ScansInv
<1>2. DOMAIN todo' = Workers /\ \A v \in Workers : todo'[v] = IF v = w THEN rest ELSE todo[v]
  BY <1>1
<1>3. \A v \in Workers \ {Blocker} : todo'[v] \in Reloads
  BY <1>2 DEF ScansInv
<1>4. todo'[Blocker] \in Runs
  BY <1>1, <1>2 DEF ScansInv
<1>5. todo'[Blocker] = Commits => seen'[Blocker] = rows'
  BY <1>1, <1>2 DEF ScansInv
<1>6. QED
  BY <1>2, <1>3, <1>4, <1>5 DEF ScansInv

\* The steps of the rule engine: only the merge of the AutoBlocker changes the
\* list.
LEMMA ProgressScans ==
  ASSUME ScansInv, NEW w \in Workers, Progress(w)
  PROVE  /\ ScansInv'
         /\ rows' = rows \/ (w = Blocker /\ rows' = Merged(rows))
<1>1. Blocker \in Workers
  BY AutoBlockAssumption
<1>2. /\ DOMAIN todo = Workers /\ DOMAIN seen = Workers /\ enabled = rows
      /\ \A v \in Workers \ {Blocker} : todo[v] \in Reloads
      /\ todo[Blocker] \in Runs
      /\ todo[Blocker] = Commits => seen[Blocker] = rows
  BY DEF ScansInv
<1>3. /\ <<>> \in Reloads /\ <<>> \in Runs /\ Commits \in Runs /\ Reloads \subseteq Runs
      /\ <<>> # Commits
  BY RunsGoOn DEF Reloads, Runs
<1>. HIDE DEF Reloads, Runs
<1>4. todo[w] # <<>> /\ todo[w] \in Runs
  BY <1>2, <1>3 DEF Progress, Select, Commit, Build, Store, Doing, Free
<1>5. Tail(todo[w]) \in Runs /\ Tail(todo[w]) # Commits
  BY <1>4, RunsGoOn
<1>6. w # Blocker => Head(todo[w]) \in {"build", "store"} /\ Tail(todo[w]) \in Reloads
  BY <1>2, <1>4, RunsGoOn
<1>7. CASE Select(w)
  <2>1. w = Blocker /\ rows' = rows /\ enabled' = enabled
    BY <1>6, <1>7 DEF Select, Doing, table
  <2>2. CASE /\ seen' = [seen EXCEPT ![w] = enabled]
             /\ todo' = [todo EXCEPT ![w] = <<"commit">> \o Load]
    <3>1. todo' = [todo EXCEPT ![w] = Commits]
      BY <2>2, RunsGoOn
    <3>2. DOMAIN seen' = Workers /\ seen'[w] = rows
      BY <1>2, <2>2
    <3>3. enabled' = rows' /\ w = Blocker /\ seen'[Blocker] = rows' /\ Commits \in Runs
      BY <1>2, <1>3, <2>1, <3>2
    <3>4. ScansInv'
      BY <3>1, <3>2, <3>3, ScansKept, Zenon
    <3>5. QED
      BY <2>1, <3>4
  <2>3. CASE todo' = [todo EXCEPT ![w] = <<>>] /\ seen' = seen
    <3>1. DOMAIN seen' = Workers /\ enabled' = rows' /\ w = Blocker /\ <<>> \in Runs /\ <<>> # Commits
      BY <1>2, <1>3, <2>1, <2>3
    <3>2. ScansInv'
      BY <2>3, <3>1, ScansKept, Zenon
    <3>3. QED
      BY <2>1, <3>2
  <2>4. QED
    BY <1>7, <2>2, <2>3 DEF Select
<1>8. CASE Commit(w)
  <2>1. w = Blocker /\ todo[w] = Commits /\ seen[w] = rows
    BY <1>2, <1>4, <1>6, <1>8, RunsGoOn DEF Commit, Doing
  <2>2. PICK rest \in {<<>>, Tail(todo[w])} : todo' = [todo EXCEPT ![w] = rest]
    BY <1>8 DEF Commit
  <2>3. rest \in Runs /\ rest # Commits
    BY <1>3, <1>5, <2>2
  <2>4. (rows' = Merged(rows) \/ rows' = rows) /\ enabled' = rows'
    BY <1>2, <1>8, <2>1 DEF Commit, table
  <2>5. seen' = [seen EXCEPT ![w] = {}]
    BY <1>8 DEF Commit
  <2>6. QED
    <3>1. DOMAIN seen' = Workers
      BY <1>2, <2>5
    <3>2. ScansInv'
      BY <2>1, <2>2, <2>3, <2>4, <3>1, ScansKept, Zenon
    <3>3. QED
      BY <2>1, <2>4, <3>2
<1>9. CASE Build(w) \/ Store(w)
  <2>1. todo' = [todo EXCEPT ![w] = Tail(todo[w])] /\ rows' = rows /\ enabled' = enabled
    BY <1>9, <1>2 DEF Build, Store, table
  <2>2. PICK found : seen' = [seen EXCEPT ![w] = found]
    BY <1>9 DEF Build, Store
  <2>3. DOMAIN seen' = Workers /\ (w # Blocker => seen'[Blocker] = seen[Blocker])
    BY <1>1, <1>2, <2>2
  <2>4. QED
    <3>1. enabled' = rows'
      BY <1>2, <2>1
    <3>2. ScansInv'
      BY <1>5, <1>6, <2>1, <2>3, <3>1, ScansKept, Zenon
    <3>3. QED
      BY <2>1, <3>2
<1>10. QED
  BY <1>7, <1>8, <1>9 DEF Progress

\* What a step of the AutoBlocker or of its environment does to the list.
ListChanges ==
  \/ rows' = rows
  \/ rows' = Merged(rows) /\ UNCHANGED avars
  \/ AddRule /\ Works /\ rows' = rows \cup {{doing.ip}} /\ doing' = [doing EXCEPT !.at = "ruled"]
  \/ \E ip \in IPs : ExpireBlock(ip) /\ Works /\ rows' = rows \ {{ip}} /\ doing' = [at |-> "lifted", ip |-> ip]

\* Nothing else changes it but AddRule and ExpireBlock.
LEMMA ListStep ==
  ASSUME AloneOnTheList, ScansInv, [ABNext]_vars
  PROVE  ScansInv' /\ ListChanges
<1>1. Blocker \in Workers
  BY AutoBlockAssumption
<1>2. /\ DOMAIN todo = Workers /\ DOMAIN seen = Workers /\ enabled = rows
      /\ \A v \in Workers \ {Blocker} : todo[v] \in Reloads
      /\ todo[Blocker] \in Runs
      /\ todo[Blocker] = Commits => seen[Blocker] = rows
  BY DEF ScansInv
<1>3. /\ <<>> \in Reloads /\ <<>> \in Runs /\ Load \in Reloads /\ Load \in Runs /\ Merge \in Runs /\ Load \o Merge \in Runs
  BY RunsGoOn DEF Reloads, Runs
<1>4. /\ <<>> # Commits /\ Load # Commits
      /\ Merge # Commits /\ Load \o Merge # Commits
  BY RunsGoOn
<1>. HIDE DEF Reloads, Runs
<1>5. CASE AddRule
  <2>1. CASE Works /\ Insert(Blocker, {doing.ip}, TRUE) /\ doing' = [doing EXCEPT !.at = "ruled"]
    <3>1. /\ rows' = rows \cup {{doing.ip}} /\ enabled' = rows' /\ seen' = seen
          /\ todo' = [todo EXCEPT ![Blocker] = Merge]
      BY <1>2, <1>5, <2>1 DEF Insert, AddRule
    <3>2. QED
      BY <1>1, <1>2, <1>3, <1>4, <1>5, <2>1, <3>1 DEF ScansInv, ListChanges
  <2>2. CASE UNCHANGED <<table, todo, seen>>
    BY <1>2, <2>2 DEF ScansInv, ListChanges, table
  <2>3. QED
    BY <1>5, <2>1, <2>2 DEF AddRule
<1>6. ASSUME NEW ip \in IPs, ExpireBlock(ip)
      PROVE  ScansInv' /\ ListChanges
  <2>1. CASE Works /\ Delete(Blocker, {ip}) /\ doing' = [at |-> "lifted", ip |-> ip]
    <3>1. /\ rows' = rows \ {{ip}} /\ enabled' = rows' /\ seen' = seen
          /\ todo' = [todo EXCEPT ![Blocker] = Load \o Merge]
      BY <1>2, <1>6, <2>1 DEF Delete, ExpireBlock
    <3>2. QED
      BY <1>1, <1>2, <1>3, <1>4, <1>6, <2>1, <3>1 DEF ScansInv, ListChanges
  <2>2. CASE UNCHANGED <<table, todo, seen>>
    BY <1>2, <2>2 DEF ScansInv, ListChanges, table
  <2>3. QED
    BY <1>6, <2>1, <2>2 DEF ExpireBlock
<1>7. CASE Restart
  BY <1>1, <1>2, <1>3, <1>4, <1>7 DEF Restart, ScansInv, ListChanges, table
<1>8. ASSUME NEW w \in Workers, Progress(w), UNCHANGED avars
      PROVE  ScansInv' /\ ListChanges
  BY <1>8, ProgressScans DEF ListChanges
<1>9. ASSUME NEW w \in Workers \ {Blocker}, ReloadRules(w)
      PROVE  ScansInv' /\ ListChanges
  BY <1>1, <1>2, <1>3, <1>4, <1>9 DEF ReloadRules, ScansInv, ListChanges, table
<1>10. CASE UNCHANGED <<table, todo, seen>>
  BY <1>2, <1>10 DEF ScansInv, ListChanges, table
<1>11. CASE Others
  BY <1>8, <1>9, <1>11 DEF Others, AloneOnTheList
<1>12. CASE \E ip \in IPs : CountFail(ip) \/ PersistBlock(ip) \/ ChallengePass(ip) \/ Lapse(ip)
  BY <1>10, <1>12
     DEF CountFail, PersistBlock, ChallengePass, Lapse, LapseRecord, LapseBlock, rvars,
         table
<1>13. CASE Rollback \/ EnterBan \/ DeleteRecord \/ UNCHANGED vars
  BY <1>10, <1>13 DEF Rollback, EnterBan, DeleteRecord, rvars, vars, table
<1>14. QED
  BY <1>1, <1>5, <1>6, <1>7, <1>8, <1>11, <1>12, <1>13 DEF ABNext, BlockerStep

\* An operation on an address is at a stage.
Handled(ip, at) == doing # Idle /\ doing.at = at /\ doing.ip = ip

\* A rule of an address that is not held as banned is left of a DELETE that
\* failed,
LeftoverFailed ==
  \A ip \in IPs : {ip} \in rows /\ blocked[ip] = "none" /\ ~Handled(ip, "ruled") => failures >= 1

\* and if it is there when an INSERT has failed, that was the second failure.
RollbackFailed == \A ip \in IPs : {ip} \in rows /\ Handled(ip, "rollback") => failures >= 2

\* A ban is lifted from the list before its record is deleted.
LiftedIsGone == \A ip \in IPs : Handled(ip, "lifted") => {ip} \notin rows

\* All this until the process dies.
LeftoversAreFailures == crashes = 0 => LeftoverFailed /\ RollbackFailed /\ LiftedIsGone

\* Why one failure leaves no rule without its record.
BanInv == LeftoversAreFailures /\ RuleHasRecord

\* Every step of the AutoBlocker and of its environment keeps it so.
LEMMA BanStep ==
  ASSUME ABIInv, IInv, ScansInv, AloneOnTheList, BanInv, [ABNext]_vars
  PROVE  BanInv'
<1>1. ListChanges
  BY ListStep
<1>2. failures \in Nat /\ rows \in SUBSET Rules /\ crashes \in Nat
  BY IPRulesAssumption, AutoBlockAssumption DEF IInv, TypeOK, ABIInv, BanType
<1>3. ASSUME Works \/ Breaks PROVE failures' \in Nat /\ failures' >= failures /\ (Breaks => failures' = failures + 1)
  BY <1>2, <1>3 DEF Works, Breaks
<1>4. ASSUME \A ip : {ip} \in rows' => {ip} \in rows, UNCHANGED avars, failures' \in Nat, failures' >= failures
      PROVE  BanInv'
  <2>1. UNCHANGED <<blocked, records, doing, crashes>>
    BY <1>4 DEF avars
  <2>2. RuleHasRecord'
    BY <1>2, <1>4, <2>1 DEF BanInv, RuleHasRecord
  <2>3. LeftoversAreFailures'
    <3>1. \A ip \in IPs, at \in Stages : Handled(ip, at)' <=> Handled(ip, at)
      BY <2>1 DEF Handled
    <3>2. LeftoverFailed => LeftoverFailed'
      BY <1>2, <1>4, <2>1, <3>1 DEF LeftoverFailed, Stages
    <3>3. RollbackFailed => RollbackFailed'
      <4>1. failures >= 2 => failures' >= 2
        BY <1>2, <1>4
      <4>2. "rollback" \in Stages
        BY DEF Stages
      <4>3. QED
        BY <1>4, <3>1, <4>1, <4>2, Zenon DEF RollbackFailed
    <3>4. LiftedIsGone => LiftedIsGone'
      BY <1>4, <3>1 DEF LiftedIsGone, Stages
    <3>5. QED
      BY <2>1, <3>2, <3>3, <3>4 DEF BanInv, LeftoversAreFailures
  <2>4. QED
    BY <2>2, <2>3 DEF BanInv
<1>5. ASSUME NEW w \in Workers, Progress(w), UNCHANGED avars
      PROVE  BanInv'
  <2>1. \A ip : {ip} \in rows' => {ip} \in rows
    BY <1>2, <1>5, MergedKeeps, ProgressScans
  <2>2. Works \/ Breaks
    BY <1>5 DEF Progress, Select, Commit, Build, Store, Works, Breaks
  <2>3. QED
    BY <1>3, <1>4, <1>5, <2>1, <2>2
<1>6. CASE Others
  <2>1. ASSUME NEW w \in Workers, ReloadRules(w)
        PROVE  rows' = rows /\ failures' = failures
    BY <2>1 DEF ReloadRules, table
  <2>2. QED
    BY <1>2, <1>4, <1>5, <1>6, <2>1 DEF Others, AloneOnTheList
<1>7. CASE Restart
  BY <1>2, <1>7 DEF Restart, BanInv, LeftoversAreFailures, RuleHasRecord
<1>8. CASE AddRule
  <2>1. doing # Idle /\ doing.at = "rule" /\ doing.ip \in IPs /\ doing \in [at : Stages, ip : IPs]
    BY <1>8 DEF AddRule, ABIInv, BanType, Idle
  <2>2. records[doing.ip] = "running" /\ blocked[doing.ip] = "none"
    BY <2>1 DEF ABIInv, DoingInv
  <2>3. UNCHANGED <<records, blocked, crashes>>
    BY <1>8 DEF AddRule
  <2>4. CASE Works /\ Insert(Blocker, {doing.ip}, TRUE) /\ doing' = [doing EXCEPT !.at = "ruled"]
    <3>1. rows' = rows \cup {{doing.ip}} /\ failures' = failures
      BY <2>4 DEF Insert, Works
    <3>2. doing'.at = "ruled" /\ doing'.ip = doing.ip
      BY <2>1, <2>4
    <3>3. \A ip \in IPs : {ip} \in rows' => ip = doing.ip \/ {ip} \in rows
      BY <3>1
    <3>4. QED
      <4>1. RuleHasRecord'
        BY <2>2, <2>3, <3>1, <3>3 DEF BanInv, RuleHasRecord
      <4>2. LeftoversAreFailures'
        <5>1. LeftoverFailed => LeftoverFailed'
          BY <2>1, <2>3, <3>1, <3>2, <3>3 DEF LeftoverFailed, Handled, Idle
        <5>2. RollbackFailed' /\ LiftedIsGone'
          BY <3>2 DEF RollbackFailed, LiftedIsGone, Handled
        <5>3. QED
          BY <2>3, <5>1, <5>2 DEF BanInv, LeftoversAreFailures
      <4>3. QED
        BY <4>1, <4>2 DEF BanInv
  <2>5. CASE Breaks /\ doing' = [doing EXCEPT !.at = "rollback"] /\ rows' = rows
    <3>1. doing'.at = "rollback" /\ doing'.ip = doing.ip
      BY <2>1, <2>5
    <3>2. failures' = failures + 1
      BY <2>5 DEF Breaks
    <3>3. QED
      BY <1>2, <2>1, <2>2, <2>3, <2>5, <3>1, <3>2
         DEF BanInv, LeftoversAreFailures, LeftoverFailed, RollbackFailed, LiftedIsGone,
             RuleHasRecord, Handled
  <2>6. QED
    BY <1>8, <2>4, <2>5 DEF AddRule, table
<1>9. CASE Rollback
  <2>1. doing # Idle /\ doing.at = "rollback" /\ doing.ip \in IPs /\ blocked[doing.ip] = "none"
    BY <1>9 DEF Rollback, ABIInv, BanType, DoingInv, Idle
  <2>2. /\ rows' = rows /\ blocked' = blocked /\ crashes' = crashes /\ doing' = Idle
        /\ failures' \in Nat /\ failures' >= failures
    BY <1>3, <1>9 DEF Rollback, table, Works, Breaks
  <2>3. \A ip \in IPs : ip # doing.ip => records'[ip] = records[ip]
    BY <1>9 DEF Rollback, ABIInv, BanType
  <2>4. crashes = 0 /\ {doing.ip} \in rows => failures >= 2
    BY <2>1
       DEF BanInv, LeftoversAreFailures, LeftoverFailed, RollbackFailed, LiftedIsGone,
           Handled
  <2>5. QED
    BY <1>2, <2>1, <2>2, <2>3, <2>4
       DEF BanInv, LeftoversAreFailures, LeftoverFailed, RollbackFailed, LiftedIsGone,
           RuleHasRecord, Handled, Idle
<1>10. ASSUME NEW ip \in IPs, ExpireBlock(ip)
       PROVE  BanInv'
  <2>1. /\ records' = records /\ crashes' = crashes /\ doing = Idle
        /\ blocked' = [blocked EXCEPT ![ip] = "none"]
    BY <1>10 DEF ExpireBlock
  <2>2. \A q \in IPs : blocked'[q] = "none" /\ q # ip => blocked[q] = "none"
    BY <2>1 DEF ABIInv, BanType
  <2>3. CASE Works /\ Delete(Blocker, {ip}) /\ doing' = [at |-> "lifted", ip |-> ip]
    <3>1. failures' = failures /\ rows' = rows \ {{ip}}
      BY <2>3 DEF Works, Delete
    <3>2. doing'.at = "lifted" /\ doing'.ip = ip
      BY <2>3
    <3>3. QED
      BY <1>2, <2>1, <2>2, <3>1, <3>2
         DEF BanInv, LeftoversAreFailures, LeftoverFailed, RollbackFailed, LiftedIsGone,
             RuleHasRecord, Handled, Idle
  <2>4. CASE Breaks /\ UNCHANGED <<table, doing>>
    <3>1. failures' = failures + 1 /\ rows' = rows /\ doing' = doing
      BY <2>4 DEF Breaks, table
    <3>2. QED
      BY <1>2, <2>1, <2>2, <3>1
         DEF BanInv, LeftoversAreFailures, LeftoverFailed, RollbackFailed, LiftedIsGone,
             RuleHasRecord, Handled, Idle
  <2>5. QED
    BY <1>10, <2>3, <2>4 DEF ExpireBlock
<1>11. CASE EnterBan
  <2>1. /\ doing.at = "ruled" /\ blocked' = [blocked EXCEPT ![doing.ip] = "running"] /\ doing' = Idle
        /\ UNCHANGED <<rows, records, crashes, failures>>
    BY <1>11 DEF EnterBan, rvars
  <2>2. \A q \in IPs : blocked'[q] = "none" => blocked[q] = "none" /\ ~(doing.ip = q)
    BY <2>1 DEF ABIInv, BanType
  <2>3. QED
    BY <1>2, <2>1, <2>2
       DEF BanInv, LeftoversAreFailures, LeftoverFailed, RollbackFailed, LiftedIsGone,
           RuleHasRecord, Handled, Idle
<1>12. CASE DeleteRecord
  <2>1. doing # Idle /\ doing.at = "lifted" /\ doing.ip \in IPs
    BY <1>12 DEF DeleteRecord, ABIInv, BanType, Idle
  <2>2. /\ rows' = rows /\ blocked' = blocked /\ crashes' = crashes /\ doing' = Idle
        /\ failures' \in Nat /\ failures' >= failures
    BY <1>3, <1>12 DEF DeleteRecord, table, Works, Breaks
  <2>3. \A ip \in IPs : ip # doing.ip => records'[ip] = records[ip]
    BY <1>12 DEF DeleteRecord, ABIInv, BanType
  <2>4. crashes = 0 => {doing.ip} \notin rows
    BY <2>1
       DEF BanInv, LeftoversAreFailures, LeftoverFailed, RollbackFailed, LiftedIsGone,
           Handled
  <2>5. QED
    BY <1>2, <2>1, <2>2, <2>3, <2>4
       DEF BanInv, LeftoversAreFailures, LeftoverFailed, RollbackFailed, LiftedIsGone,
           RuleHasRecord, Handled, Idle
<1>13. ASSUME NEW ip \in IPs, CountFail(ip) \/ ChallengePass(ip)
       PROVE  BanInv'
  <2>1. UNCHANGED <<rows, blocked, records, doing, crashes>> /\ failures' \in Nat /\ failures' >= failures
    BY <1>3, <1>2, <1>13 DEF CountFail, ChallengePass, rvars, table
  <2>2. QED
    BY <1>2, <2>1
       DEF BanInv, LeftoversAreFailures, LeftoverFailed, RollbackFailed, LiftedIsGone,
           RuleHasRecord, Handled
<1>14. ASSUME NEW ip \in IPs, PersistBlock(ip)
       PROVE  BanInv'
  <2>1. /\ records' = [records EXCEPT ![ip] = "running"] /\ doing' = [at |-> "rule", ip |-> ip]
        /\ UNCHANGED <<rows, blocked, crashes, failures>> /\ doing = Idle
    BY <1>14 DEF PersistBlock, rvars
  <2>2. \A q \in IPs : records'[q] = "none" => records[q] = "none"
    BY <2>1 DEF ABIInv, BanType
  <2>3. QED
    BY <1>2, <2>1, <2>2
       DEF BanInv, LeftoversAreFailures, LeftoverFailed, RollbackFailed, LiftedIsGone,
           RuleHasRecord, Handled, Idle
<1>15. ASSUME NEW ip \in IPs, Lapse(ip)
       PROVE  BanInv'
  <2>1. UNCHANGED <<rows, doing, crashes, failures>>
    BY <1>15 DEF Lapse, LapseRecord, LapseBlock, rvars
  <2>2. \A q \in IPs : (records'[q] = "none" <=> records[q] = "none") /\ (blocked'[q] = "none" <=> blocked[q] = "none")
    BY <1>15 DEF Lapse, LapseRecord, LapseBlock, ABIInv, BanType
  <2>3. QED
    BY <1>2, <2>1, <2>2
       DEF BanInv, LeftoversAreFailures, LeftoverFailed, RollbackFailed, LiftedIsGone,
           RuleHasRecord, Handled
<1>16. CASE UNCHANGED vars
  BY <1>2, <1>4, <1>16 DEF vars, rvars
<1>17. QED
  BY <1>5, <1>6, <1>7, <1>8, <1>9, <1>10, <1>11, <1>12, <1>13, <1>14, <1>15, <1>16,
     AutoBlockAssumption DEF ABNext, BlockerStep

\* Every address that the AutoBlocker holds, or is about to, is on the list.
HeldIsOnList == crashes = 0 =>
  \A ip \in IPs : blocked[ip] # "none" \/ Handled(ip, "ruled") => ip \in UNION rows

\* Merges keep the IPv4 addresses of the list, and only the end of its own ban
\* takes an address off it.
LEMMA HeldStep ==
  ASSUME ABIInv, IInv, ScansInv, AloneOnTheList, IPs \subseteq IPv4, HeldIsOnList, [ABNext]_vars
  PROVE  HeldIsOnList'
<1>1. ListChanges
  BY ListStep
<1>2. rows \in SUBSET Rules /\ crashes \in Nat
  BY AutoBlockAssumption DEF IInv, TypeOK, ABIInv, BanType
<1>3. CASE Restart
  BY <1>2, <1>3 DEF Restart, HeldIsOnList
<1>4. CASE AddRule
  <2>1. doing # Idle /\ doing.ip \in IPs /\ doing \in [at : Stages, ip : IPs]
    BY <1>4 DEF AddRule, ABIInv, BanType, Idle
  <2>2. UNCHANGED <<blocked, crashes>>
    BY <1>4 DEF AddRule
  <2>3. CASE Insert(Blocker, {doing.ip}, TRUE) /\ doing' = [doing EXCEPT !.at = "ruled"]
    <3>1. rows' = rows \cup {{doing.ip}} /\ doing'.ip = doing.ip
      BY <2>1, <2>3 DEF Insert
    <3>2. UNION rows \subseteq UNION rows' /\ doing.ip \in UNION rows'
      BY <3>1
    <3>3. QED
      BY <2>2, <3>1, <3>2 DEF HeldIsOnList, Handled
  <2>4. CASE doing' = [doing EXCEPT !.at = "rollback"] /\ rows' = rows
    <3>1. doing'.at = "rollback"
      BY <2>1, <2>4
    <3>2. QED
      BY <2>2, <2>4, <3>1 DEF HeldIsOnList, Handled
  <2>5. QED
    BY <1>4, <2>3, <2>4 DEF AddRule, table
<1>5. ASSUME NEW ip \in IPs, ExpireBlock(ip)
      PROVE  HeldIsOnList'
  <2>1. /\ crashes' = crashes /\ doing = Idle /\ blocked' = [blocked EXCEPT ![ip] = "none"]
        /\ doing'.at # "ruled"
    BY <1>5 DEF ExpireBlock, Idle
  <2>2. rows' = rows \/ rows' = rows \ {{ip}}
    BY <1>5 DEF ExpireBlock, table, Delete
  <2>3. \A q \in IPs : q # ip /\ q \in UNION rows => q \in UNION rows'
    BY <2>2
  <2>4. \A q \in IPs : blocked'[q] # "none" => q # ip /\ blocked[q] # "none"
    BY <2>1 DEF ABIInv, BanType
  <2>5. QED
    BY <2>1, <2>3, <2>4 DEF HeldIsOnList, Handled
<1>6. CASE UNCHANGED avars
  <2>1. rows' = rows \/ rows' = Merged(rows)
    <3>1. ~(AddRule \/ \E ip \in IPs : ExpireBlock(ip) /\ doing' = [at |-> "lifted", ip |-> ip])
      BY <1>6 DEF avars, AddRule, ExpireBlock, Idle, ABIInv, BanType, Stages
    <3>2. QED
      BY <1>1, <3>1 DEF ListChanges
  <2>2. \A ip \in IPs : ip \in UNION rows => ip \in UNION rows'
    BY <1>2, <2>1, MergedKeeps
  <2>3. QED
    BY <1>6, <2>2 DEF HeldIsOnList, Handled, avars
<1>7. ASSUME rows' = rows, crashes' = crashes,
             \A ip \in IPs : blocked'[ip] # "none" \/ Handled(ip, "ruled")' => blocked[ip] # "none" \/ Handled(ip, "ruled")
      PROVE  HeldIsOnList'
  BY <1>7 DEF HeldIsOnList
<1>8. CASE Rollback \/ DeleteRecord
  BY <1>7, <1>8 DEF Rollback, DeleteRecord, table, Handled, Idle
<1>9. CASE EnterBan
  BY <1>7, <1>9 DEF EnterBan, rvars, Handled, ABIInv, BanType, Idle
<1>10. ASSUME NEW ip \in IPs, CountFail(ip) \/ ChallengePass(ip) \/ PersistBlock(ip)
       PROVE  HeldIsOnList'
  BY <1>7, <1>10 DEF CountFail, ChallengePass, PersistBlock, rvars, table, Handled, Idle
<1>11. ASSUME NEW ip \in IPs, Lapse(ip)
       PROVE  HeldIsOnList'
  BY <1>7, <1>11 DEF Lapse, LapseRecord, LapseBlock, rvars, Handled, ABIInv, BanType
<1>12. QED
  BY <1>3, <1>4, <1>5, <1>6, <1>8, <1>9, <1>10, <1>11 DEF ABNext, BlockerStep, Others, vars

\* No address is banned at first.
LEMMA BansStart == ABInit => ScansInv /\ BanInv /\ HeldIsOnList
BY AutoBlockAssumption
   DEF ABInit, Init, ScansInv, Reloads, Runs, Commits, BanInv, LeftoversAreFailures,
       LeftoverFailed, RollbackFailed, LiftedIsGone, RuleHasRecord,
       HeldIsOnList, Handled, Idle

(* autoblock.go writes the record before the rule and deletes it after: if
   nobody else edits the list, no rule of the AutoBlocker is without its record
   until the process dies or a second statement fails, for any number of
   addresses and however reloads and merges interleave.                      *)
THEOREM OneFailureLeavesNoRule == ASSUME AloneOnTheList PROVE ABSpec => []RuleHasRecord
<1>. DEFINE Inv == ABIInv /\ IInv /\ ScansInv /\ BanInv
<1>1. ABInit => Inv
  BY InitABIInv, InitIInv, BansStart DEF ABInit
<1>2. Inv /\ [ABNext]_vars => Inv'
  BY AloneOnTheList, NextABIInv, RulesUnderBans, ListStep, BanStep
<1>3. Inv => RuleHasRecord
  BY DEF BanInv
<1>4. QED
  BY <1>1, <1>2, <1>3, PTL DEF ABSpec

(* autoblock.go enters a ban in memory last: if nobody else edits the list,
   every IPv4 address that it holds as banned is matched by a rule until the
   process dies, whatever statements fail and however its rules are merged.
   (The merge loses IPv6 rules, see AddingLosesNothing.)                     *)
THEOREM BannedIsBlocked == ASSUME AloneOnTheList, IPs \subseteq IPv4 PROVE ABSpec => []BannedHasRule
<1>. DEFINE Inv == ABIInv /\ IInv /\ ScansInv /\ HeldIsOnList
<1>1. ABInit => Inv
  BY InitABIInv, InitIInv, BansStart DEF ABInit
<1>2. Inv /\ [ABNext]_vars => Inv'
  BY NextABIInv, RulesUnderBans, ListStep, HeldStep
<1>3. Inv => BannedHasRule
  BY DEF HeldIsOnList, BannedHasRule, ScansInv
<1>4. QED
  BY <1>1, <1>2, <1>3, PTL DEF ABSpec
=============================================================================
