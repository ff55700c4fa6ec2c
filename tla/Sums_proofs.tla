----------------------------- MODULE Sums_proofs -----------------------------
(* What holds of the numbers the gateway adds up: that a round of the weighted
   round robin gives every member its weight, for every set of members and every
   assignment of weights; that the history of the metrics counts no request
   twice, for any number of minutes; that the lists of the reports agree with the
   events behind them, for any number of blocks and days; and that the pages of the
   log and its statistics count the same lines, for any log. The folds of the
   community modules come with no facts about them: the first section proves what
   all of these need.                                                         *)
EXTENDS WeightedRoundRobin, MetricsStore, BlockReports, LogQueries, SequenceTheorems,
        FiniteSetTheorems, TLAPS

-----------------------------------------------------------------------------
(* Sums over finite sets.                                                    *)

\* What holds of the empty set, and of a set when it holds of what is left of it
\* without any one of its members, holds of a finite set.
LEMMA FromTheEmptySet ==
  ASSUME NEW S, IsFiniteSet(S), NEW G, {} \in G,
         \A T \in SUBSET S : T # {} /\ (\A x \in T : T \ {x} \in G) => T \in G
  PROVE  S \in G
<1> DEFINE B == {T \in SUBSET S : T \notin G}
<1> SUFFICES ASSUME B # {} PROVE FALSE
  OBVIOUS
<1>1. IsWellFoundedOn(StrictSubsetOrdering(S), FiniteSubsetsOf(S)) /\ FiniteSubsetsOf(S) = SUBSET S
  BY FS_StrictSubsetOrderingWellFounded, FS_FiniteSubsetsOfFinite
<1>2. PICK T \in B : \A U \in B : ~(<<U, T>> \in StrictSubsetOrdering(S))
  <2>1. B \subseteq SUBSET S
    OBVIOUS
  <2> HIDE DEF B
  <2> QED BY <1>1, <2>1, WFMin
<1>3. ASSUME NEW x \in T PROVE T \ {x} \in G
  <2>1. T \ {x} \in SUBSET S /\ T \ {x} \subseteq T /\ T \ {x} # T
    BY <1>2, <1>3
  <2>2. <<T \ {x}, T>> \in StrictSubsetOrdering(S)
    BY <1>2, <2>1 DEF StrictSubsetOrdering
  <2> QED BY <1>2, <2>1, <2>2
<1> QED BY <1>2, <1>3

\* How the community modules add up: the members of a set one after the other.
Chosen(S) == CHOOSE x \in S : TRUE
Adds(f, S, g) == g = [T \in SUBSET S |-> IF T = {} THEN 0 ELSE f[Chosen(T)] + g[T \ {Chosen(T)}]]

LEMMA SumIsChosen ==
  ASSUME NEW f, NEW S
  PROVE  SumFunctionOnSet(f, S) = (CHOOSE g : Adds(f, S, g))[S]
BY DEF SumFunctionOnSet, FoldFunctionOnSet, MapThenFoldSet, Adds, Chosen

LEMMA AddsNothing == ASSUME NEW f, NEW S, NEW g, Adds(f, S, g) PROVE g[{}] = 0
<1>1. g = [T \in SUBSET S |-> IF T = {} THEN 0 ELSE f[Chosen(T)] + g[T \ {Chosen(T)}]]
  BY DEF Adds
<1> QED BY <1>1

LEMMA AddsOne ==
  ASSUME NEW f, NEW S, NEW g, Adds(f, S, g), NEW T \in SUBSET S, T # {}
  PROVE  g[T] = f[Chosen(T)] + g[T \ {Chosen(T)}]
<1>1. g = [U \in SUBSET S |-> IF U = {} THEN 0 ELSE f[Chosen(U)] + g[U \ {Chosen(U)}]]
  BY DEF Adds
<1> QED BY <1>1

LEMMA OneWayToAdd ==
  ASSUME NEW f, NEW S, NEW R, NEW g, NEW h, Adds(f, S, g), Adds(f, R, h), IsFiniteSet(S), S \subseteq R
  PROVE  g[S] = h[S]
<1> DEFINE G == {T \in SUBSET S : g[T] = h[T]}
<1>1. {} \in G
  BY AddsNothing
<1>2. ASSUME NEW T \in SUBSET S, T # {}, \A x \in T : T \ {x} \in G PROVE T \in G
  <2>1. Chosen(T) \in T
    BY <1>2 DEF Chosen
  <2>2. g[T \ {Chosen(T)}] = h[T \ {Chosen(T)}]
    BY <1>2, <2>1
  <2>3. g[T] = f[Chosen(T)] + g[T \ {Chosen(T)}]
    BY <1>2, AddsOne
  <2>4. T \in SUBSET R
    BY <1>2
  <2>5. h[T] = f[Chosen(T)] + h[T \ {Chosen(T)}]
    BY <1>2, <2>4, AddsOne
  <2> QED BY <2>2, <2>3, <2>5
<1> HIDE DEF G
<1>3. S \in G
  <2>1. \A T \in SUBSET S : T # {} /\ (\A x \in T : T \ {x} \in G) => T \in G
    BY <1>2
  <2> QED BY <1>1, <2>1, FromTheEmptySet
<1> QED BY <1>3 DEF G

LEMMA ThereIsAWayToAdd ==
  ASSUME NEW f, NEW S, IsFiniteSet(S)
  PROVE  \E g : Adds(f, S, g)
<1> DEFINE G == {T \in SUBSET S : \E g : Adds(f, T, g)}
<1>1. {} \in G
  <2> DEFINE g == [T \in {{}} |-> 0]
  <2>1. g = [T \in SUBSET {} |-> IF T = {} THEN 0 ELSE f[Chosen(T)] + g[T \ {Chosen(T)}]]
    OBVIOUS
  <2>2. Adds(f, {}, g)
    BY <2>1 DEF Adds
  <2> QED BY <2>2
<1>2. ASSUME NEW T \in SUBSET S, T # {}, \A x \in T : T \ {x} \in G PROVE T \in G
  <2> DEFINE g(x) == CHOOSE h : Adds(f, T \ {x}, h)
             sum(U) == LET x == CHOOSE y \in T : y \notin U IN g(x)[U]
             h == [U \in SUBSET T |-> IF U = {} THEN 0 ELSE f[Chosen(U)] + sum(U \ {Chosen(U)})]
  <2>1. \A x \in T : Adds(f, T \ {x}, g(x)) /\ IsFiniteSet(T \ {x})
    BY <1>2, FS_Subset
  <2> HIDE DEF g
  <2>2. ASSUME NEW U \in SUBSET T, NEW x \in T, x \notin U PROVE sum(U) = g(x)[U]
    <3> DEFINE y == CHOOSE z \in T : z \notin U
    <3>1. y \in T /\ y \notin U /\ sum(U) = g(y)[U]
      BY <2>2
    <3> HIDE DEF y, sum
    <3> DEFINE W == (T \ {x}) \cap (T \ {y})
    <3> SUFFICES g(y)[U] = g(x)[U]
      BY <3>1
    <3> DEFINE A == {V \in SUBSET U : g(y)[V] = g(x)[V]}
    <3>2. Adds(f, T \ {x}, g(x)) /\ Adds(f, T \ {y}, g(y))
      BY <2>1, <3>1
    <3>3. {} \in A
      BY <3>2, AddsNothing
    <3>4. ASSUME NEW V \in SUBSET U, V # {}, \A z \in V : V \ {z} \in A PROVE V \in A
      <4>1. Chosen(V) \in V /\ V \in SUBSET (T \ {x}) /\ V \in SUBSET (T \ {y})
        BY <2>2, <3>1, <3>4 DEF Chosen
      <4>2. g(y)[V \ {Chosen(V)}] = g(x)[V \ {Chosen(V)}]
        BY <3>4, <4>1
      <4>3. g(x)[V] = f[Chosen(V)] + g(x)[V \ {Chosen(V)}]
        BY <3>2, <3>4, <4>1, AddsOne
      <4>4. g(y)[V] = f[Chosen(V)] + g(y)[V \ {Chosen(V)}]
        BY <3>2, <3>4, <4>1, AddsOne
      <4> QED BY <4>2, <4>3, <4>4
    <3>5. IsFiniteSet(U)
      BY <2>1, <2>2, FS_Subset
    <3> HIDE DEF A
    <3>6. U \in A
      BY <3>3, <3>4, <3>5, FromTheEmptySet
    <3> QED BY <3>6 DEF A
  <2> HIDE DEF sum
  <2>3. ASSUME NEW U \in SUBSET T, U # {} PROVE h[U \ {Chosen(U)}] = sum(U \ {Chosen(U)})
    <3> DEFINE x == Chosen(U)
               V == U \ {x}
    <3>1. x \in T /\ x \notin V /\ V \in SUBSET (T \ {x}) /\ V \in SUBSET T
      BY <2>3 DEF Chosen
    <3>2. Adds(f, T \ {x}, g(x)) /\ sum(V) = g(x)[V]
      BY <2>1, <2>2, <3>1
    <3> SUFFICES h[V] = sum(V)
      OBVIOUS
    <3> HIDE DEF x, V
    <3>5. g(x)[{}] = 0
      BY <3>2, AddsNothing
    <3>6. h[V] = IF V = {} THEN 0 ELSE f[Chosen(V)] + sum(V \ {Chosen(V)})
      BY <3>1
    <3> HIDE DEF h
    <3>3. CASE V = {}
      BY <3>2, <3>3, <3>5, <3>6
    <3>4. CASE V # {}
      <4>1. h[V] = f[Chosen(V)] + sum(V \ {Chosen(V)})
        BY <3>4, <3>6
      <4>2. g(x)[V] = f[Chosen(V)] + g(x)[V \ {Chosen(V)}]
        <5>1. Adds(f, T \ {x}, g(x)) /\ V \in SUBSET (T \ {x})
          BY <3>1, <3>2
        <5> QED BY <3>4, <5>1, AddsOne
      <4>3. sum(V \ {Chosen(V)}) = g(x)[V \ {Chosen(V)}]
        <5>1. V \ {Chosen(V)} \in SUBSET T /\ x \notin V \ {Chosen(V)}
          BY <3>1
        <5> QED BY <2>2, <3>1, <5>1
      <4> QED BY <3>2, <4>1, <4>2, <4>3
    <3> QED BY <3>3, <3>4
  <2>4. h = [U \in SUBSET T |-> IF U = {} THEN 0 ELSE f[Chosen(U)] + h[U \ {Chosen(U)}]]
    BY <2>3
  <2>5. Adds(f, T, h)
    BY <2>4 DEF Adds
  <2> QED BY <2>5
<1> HIDE DEF G
<1>3. S \in G
  <2>1. \A T \in SUBSET S : T # {} /\ (\A x \in T : T \ {x} \in G) => T \in G
    BY <1>2
  <2> QED BY <1>1, <2>1, FromTheEmptySet
<1> QED BY <1>3 DEF G

\* The sum of the members of a set is that of all but one, and this one.
LEMMA SumStep ==
  ASSUME NEW f, NEW S, IsFiniteSet(S)
  PROVE  /\ SumFunctionOnSet(f, {}) = 0
         /\ S # {} => SumFunctionOnSet(f, S) = f[Chosen(S)] + SumFunctionOnSet(f, S \ {Chosen(S)})
<1> DEFINE g(T) == CHOOSE h : Adds(f, T, h)
<1>1. IsFiniteSet({}) /\ IsFiniteSet(S \ {Chosen(S)})
  BY FS_EmptySet, FS_Subset
<1>2. Adds(f, {}, g({})) /\ Adds(f, S, g(S)) /\ Adds(f, S \ {Chosen(S)}, g(S \ {Chosen(S)}))
  BY <1>1, ThereIsAWayToAdd
<1>3. /\ SumFunctionOnSet(f, {}) = g({})[{}] /\ SumFunctionOnSet(f, S) = g(S)[S]
      /\ SumFunctionOnSet(f, S \ {Chosen(S)}) = g(S \ {Chosen(S)})[S \ {Chosen(S)}]
  BY SumIsChosen
<1> HIDE DEF g
<1>4. g(S \ {Chosen(S)})[S \ {Chosen(S)}] = g(S)[S \ {Chosen(S)}]
  BY <1>1, <1>2, OneWayToAdd
<1>5. g({})[{}] = 0 /\ (S # {} => g(S)[S] = f[Chosen(S)] + g(S)[S \ {Chosen(S)}])
  BY <1>2, AddsNothing, AddsOne
<1> QED BY <1>3, <1>4, <1>5

LEMMA SumOfNothing == ASSUME NEW f PROVE SumFunctionOnSet(f, {}) = 0
BY SumStep, FS_EmptySet

LEMMA SumOfOneMore ==
  ASSUME NEW f, NEW S, IsFiniteSet(S), S # {}
  PROVE  /\ Chosen(S) \in S
         /\ SumFunctionOnSet(f, S) = f[Chosen(S)] + SumFunctionOnSet(f, S \ {Chosen(S)})
<1>1. Chosen(S) \in S
  BY DEF Chosen
<1> QED BY <1>1, SumStep

LEMMA SumType ==
  ASSUME NEW f, NEW S, IsFiniteSet(S), \A x \in S : f[x] \in Int
  PROVE  SumFunctionOnSet(f, S) \in Int
<1> DEFINE G == {T \in SUBSET S : SumFunctionOnSet(f, T) \in Int}
<1>1. {} \in G
  BY SumOfNothing
<1>2. ASSUME NEW T \in SUBSET S, T # {}, \A x \in T : T \ {x} \in G PROVE T \in G
  <2>1. IsFiniteSet(T)
    BY FS_Subset
  <2>2. Chosen(T) \in T /\ SumFunctionOnSet(f, T) = f[Chosen(T)] + SumFunctionOnSet(f, T \ {Chosen(T)})
    BY <1>2, <2>1, SumOfOneMore
  <2>3. f[Chosen(T)] \in Int /\ SumFunctionOnSet(f, T \ {Chosen(T)}) \in Int
    BY <1>2, <2>2
  <2>4. SumFunctionOnSet(f, T) \in Int
    BY <2>2, <2>3
  <2> QED BY <2>4
<1> HIDE DEF G
<1>3. S \in G
  <2>1. \A T \in SUBSET S : T # {} /\ (\A x \in T : T \ {x} \in G) => T \in G
    BY <1>2
  <2> QED BY <1>1, <2>1, FromTheEmptySet
<1> QED BY <1>3 DEF G

\* Any member can be the one.
LEMMA SumWithout ==
  ASSUME NEW f, NEW S, IsFiniteSet(S), \A x \in S : f[x] \in Int, NEW x \in S
  PROVE  /\ SumFunctionOnSet(f, S \ {x}) \in Int
         /\ SumFunctionOnSet(f, S) = f[x] + SumFunctionOnSet(f, S \ {x})
<1> DEFINE G == {T \in SUBSET S : \A y \in T : SumFunctionOnSet(f, T) = f[y] + SumFunctionOnSet(f, T \ {y})}
<1>1. {} \in G
  OBVIOUS
<1>2. ASSUME NEW T \in SUBSET S, T # {}, \A y \in T : T \ {y} \in G PROVE T \in G
  <2> SUFFICES ASSUME NEW y \in T PROVE SumFunctionOnSet(f, T) = f[y] + SumFunctionOnSet(f, T \ {y})
    OBVIOUS
  <2> DEFINE c == Chosen(T)
             U == T \ {c, y}
  <2>1. IsFiniteSet(T) /\ IsFiniteSet(U)
    BY FS_Subset
  <2>2. c \in T /\ SumFunctionOnSet(f, T) = f[c] + SumFunctionOnSet(f, T \ {c})
    BY <1>2, <2>1, SumOfOneMore
  <2> HIDE DEF c
  <2>3. CASE y = c
    BY <2>2, <2>3
  <2>4. CASE y # c
    <3>1. T \ {c} \in G /\ T \ {y} \in G /\ y \in T \ {c} /\ c \in T \ {y}
      BY <1>2, <2>2, <2>4
    <3>2. (T \ {c}) \ {y} = U /\ (T \ {y}) \ {c} = U
      OBVIOUS
    <3>3. SumFunctionOnSet(f, T \ {c}) = f[y] + SumFunctionOnSet(f, U)
      BY <3>1, <3>2
    <3>4. SumFunctionOnSet(f, T \ {y}) = f[c] + SumFunctionOnSet(f, U)
      BY <3>1, <3>2
    <3>5. f[c] \in Int /\ f[y] \in Int /\ SumFunctionOnSet(f, U) \in Int
      BY <2>1, <2>2, SumType
    <3> QED BY <2>2, <3>3, <3>4, <3>5
  <2> QED BY <2>3, <2>4
<1>3. IsFiniteSet(S \ {x})
  BY FS_Subset
<1>4. SumFunctionOnSet(f, S \ {x}) \in Int
  BY <1>3, SumType
<1> HIDE DEF G
<1>5. S \in G
  BY <1>1, <1>2, FromTheEmptySet
<1> QED BY <1>4, <1>5 DEF G

\* Sums of equal summands are equal, those of larger ones no smaller.
LEMMA SumOfTheSame ==
  ASSUME NEW f, NEW h, NEW S, IsFiniteSet(S), \A x \in S : f[x] = h[x]
  PROVE  SumFunctionOnSet(f, S) = SumFunctionOnSet(h, S)
<1> DEFINE G == {T \in SUBSET S : SumFunctionOnSet(f, T) = SumFunctionOnSet(h, T)}
<1>1. {} \in G
  BY SumOfNothing
<1>2. ASSUME NEW T \in SUBSET S, T # {}, \A x \in T : T \ {x} \in G PROVE T \in G
  <2>1. IsFiniteSet(T)
    BY FS_Subset
  <2>2. Chosen(T) \in T /\ SumFunctionOnSet(f, T) = f[Chosen(T)] + SumFunctionOnSet(f, T \ {Chosen(T)})
    BY <1>2, <2>1, SumOfOneMore
  <2>3. SumFunctionOnSet(h, T) = h[Chosen(T)] + SumFunctionOnSet(h, T \ {Chosen(T)})
    BY <1>2, <2>1, SumOfOneMore
  <2>4. f[Chosen(T)] = h[Chosen(T)]
    BY <2>2
  <2>5. SumFunctionOnSet(f, T \ {Chosen(T)}) = SumFunctionOnSet(h, T \ {Chosen(T)})
    BY <1>2, <2>2
  <2>6. SumFunctionOnSet(f, T) = SumFunctionOnSet(h, T)
    BY <2>2, <2>3, <2>4, <2>5
  <2> QED BY <2>6
<1> HIDE DEF G
<1>3. S \in G
  <2>1. \A T \in SUBSET S : T # {} /\ (\A x \in T : T \ {x} \in G) => T \in G
    BY <1>2
  <2> QED BY <1>1, <2>1, FromTheEmptySet
<1> QED BY <1>3 DEF G

LEMMA SumAtMost ==
  ASSUME NEW f, NEW h, NEW S, IsFiniteSet(S),
         \A x \in S : f[x] \in Int /\ h[x] \in Int /\ f[x] <= h[x]
  PROVE  SumFunctionOnSet(f, S) <= SumFunctionOnSet(h, S)
<1> DEFINE G == {T \in SUBSET S : SumFunctionOnSet(f, T) <= SumFunctionOnSet(h, T)}
<1>1. {} \in G
  BY SumOfNothing
<1>2. ASSUME NEW T \in SUBSET S, T # {}, \A x \in T : T \ {x} \in G PROVE T \in G
  <2>1. IsFiniteSet(T)
    BY FS_Subset
  <2>2. Chosen(T) \in T /\ SumFunctionOnSet(f, T) = f[Chosen(T)] + SumFunctionOnSet(f, T \ {Chosen(T)})
    BY <1>2, <2>1, SumOfOneMore
  <2>3. SumFunctionOnSet(h, T) = h[Chosen(T)] + SumFunctionOnSet(h, T \ {Chosen(T)})
    BY <1>2, <2>1, SumOfOneMore
  <2>4. f[Chosen(T)] \in Int /\ h[Chosen(T)] \in Int /\ f[Chosen(T)] <= h[Chosen(T)]
    BY <2>2
  <2>5. SumFunctionOnSet(f, T \ {Chosen(T)}) <= SumFunctionOnSet(h, T \ {Chosen(T)})
    BY <1>2, <2>2
  <2>6. SumFunctionOnSet(f, T \ {Chosen(T)}) \in Int /\ SumFunctionOnSet(h, T \ {Chosen(T)}) \in Int
    <3>1. IsFiniteSet(T \ {Chosen(T)})
      BY <2>1, FS_Subset
    <3> QED BY <3>1, SumType
  <2>7. SumFunctionOnSet(f, T) <= SumFunctionOnSet(h, T)
    BY <2>2, <2>3, <2>4, <2>5, <2>6
  <2> QED BY <2>7
<1> HIDE DEF G
<1>3. S \in G
  <2>1. \A T \in SUBSET S : T # {} /\ (\A x \in T : T \ {x} \in G) => T \in G
    BY <1>2
  <2> QED BY <1>1, <2>1, FromTheEmptySet
<1> QED BY <1>3 DEF G

LEMMA SumsAdd ==
  ASSUME NEW f, NEW h, NEW s, NEW S, IsFiniteSet(S),
         \A x \in S : f[x] \in Int /\ h[x] \in Int /\ s[x] = f[x] + h[x]
  PROVE  SumFunctionOnSet(s, S) = SumFunctionOnSet(f, S) + SumFunctionOnSet(h, S)
<1> DEFINE G == {T \in SUBSET S : SumFunctionOnSet(s, T) = SumFunctionOnSet(f, T) + SumFunctionOnSet(h, T)}
<1>1. {} \in G
  BY SumOfNothing
<1>2. ASSUME NEW T \in SUBSET S, T # {}, \A x \in T : T \ {x} \in G PROVE T \in G
  <2> DEFINE c == Chosen(T)
             R == T \ {c}
  <2>1. IsFiniteSet(T) /\ IsFiniteSet(R)
    BY FS_Subset
  <2>2. c \in T /\ SumFunctionOnSet(f, T) = f[c] + SumFunctionOnSet(f, R)
    BY <1>2, <2>1, SumOfOneMore
  <2>3. SumFunctionOnSet(h, T) = h[c] + SumFunctionOnSet(h, R)
    BY <1>2, <2>1, SumOfOneMore
  <2>4. SumFunctionOnSet(s, T) = s[c] + SumFunctionOnSet(s, R)
    BY <1>2, <2>1, SumOfOneMore
  <2>5. f[c] \in Int /\ h[c] \in Int /\ s[c] = f[c] + h[c]
    BY <2>2
  <2>6. SumFunctionOnSet(s, R) = SumFunctionOnSet(f, R) + SumFunctionOnSet(h, R)
    BY <1>2, <2>2
  <2> HIDE DEF c, R
  <2>7. SumFunctionOnSet(f, R) \in Int /\ SumFunctionOnSet(h, R) \in Int
    BY <2>1, SumType DEF R
  <2>8. SumFunctionOnSet(s, T) = SumFunctionOnSet(f, T) + SumFunctionOnSet(h, T)
    BY <2>2, <2>3, <2>4, <2>5, <2>6, <2>7
  <2> QED BY <2>8
<1> HIDE DEF G
<1>3. S \in G
  <2>1. \A T \in SUBSET S : T # {} /\ (\A x \in T : T \ {x} \in G) => T \in G
    BY <1>2
  <2> QED BY <1>1, <2>1, FromTheEmptySet
<1> QED BY <1>3 DEF G

LEMMA SumOfZeros ==
  ASSUME NEW f, NEW S, IsFiniteSet(S), \A x \in S : f[x] = 0
  PROVE  SumFunctionOnSet(f, S) = 0
<1> DEFINE G == {T \in SUBSET S : SumFunctionOnSet(f, T) = 0}
<1>1. {} \in G
  BY SumOfNothing
<1>2. ASSUME NEW T \in SUBSET S, T # {}, \A x \in T : T \ {x} \in G PROVE T \in G
  <2>1. IsFiniteSet(T)
    BY FS_Subset
  <2>2. Chosen(T) \in T /\ SumFunctionOnSet(f, T) = f[Chosen(T)] + SumFunctionOnSet(f, T \ {Chosen(T)})
    BY <1>2, <2>1, SumOfOneMore
  <2>3. f[Chosen(T)] = 0 /\ SumFunctionOnSet(f, T \ {Chosen(T)}) = 0
    BY <1>2, <2>2
  <2>4. SumFunctionOnSet(f, T) = 0
    BY <2>2, <2>3
  <2> QED BY <2>4
<1> HIDE DEF G
<1>3. S \in G
  BY <1>1, <1>2, FromTheEmptySet
<1> QED BY <1>3 DEF G

LEMMA SumOfNats ==
  ASSUME NEW f, NEW S, IsFiniteSet(S), \A x \in S : f[x] \in Nat
  PROVE  SumFunctionOnSet(f, S) \in Nat
<1> DEFINE zero == [x \in S |-> 0]
<1>1. \A x \in S : zero[x] = 0 /\ zero[x] \in Int /\ f[x] \in Int /\ zero[x] <= f[x]
  OBVIOUS
<1> HIDE DEF zero
<1>2. SumFunctionOnSet(zero, S) <= SumFunctionOnSet(f, S)
  BY <1>1, SumAtMost
<1>3. SumFunctionOnSet(zero, S) = 0 /\ SumFunctionOnSet(f, S) \in Int
  BY <1>1, SumOfZeros, SumType
<1> QED BY <1>2, <1>3

\* Summands that are no larger and have the same sum are the same.
LEMMA SameSumSameSummands ==
  ASSUME NEW f, NEW h, NEW S, IsFiniteSet(S),
         \A x \in S : f[x] \in Int /\ h[x] \in Int /\ f[x] <= h[x],
         SumFunctionOnSet(f, S) = SumFunctionOnSet(h, S), NEW x \in S
  PROVE  f[x] = h[x]
<1>1. /\ SumFunctionOnSet(f, S \ {x}) \in Int
      /\ SumFunctionOnSet(f, S) = f[x] + SumFunctionOnSet(f, S \ {x})
  BY SumWithout
<1>2. /\ SumFunctionOnSet(h, S \ {x}) \in Int
      /\ SumFunctionOnSet(h, S) = h[x] + SumFunctionOnSet(h, S \ {x})
  BY SumWithout
<1>3. IsFiniteSet(S \ {x})
  BY FS_Subset
<1>4. SumFunctionOnSet(f, S \ {x}) <= SumFunctionOnSet(h, S \ {x})
  BY <1>3, SumAtMost
<1>5. f[x] \in Int /\ h[x] \in Int /\ f[x] <= h[x]
  OBVIOUS
<1>6. f[x] + SumFunctionOnSet(f, S \ {x}) = h[x] + SumFunctionOnSet(h, S \ {x})
  BY <1>1, <1>2
<1>7. \A a, b, c, d \in Int : a <= b /\ c <= d /\ a + c = b + d => a = b
  OBVIOUS
<1> QED BY <1>1, <1>2, <1>4, <1>5, <1>6, <1>7

\* One summand changes.
LEMMA SumChanges ==
  ASSUME NEW f, NEW h, NEW S, IsFiniteSet(S), NEW x \in S,
         \A y \in S : f[y] \in Int /\ h[y] \in Int, \A y \in S \ {x} : f[y] = h[y]
  PROVE  SumFunctionOnSet(h, S) = SumFunctionOnSet(f, S) - f[x] + h[x]
<1>1. /\ SumFunctionOnSet(f, S \ {x}) \in Int
      /\ SumFunctionOnSet(f, S) = f[x] + SumFunctionOnSet(f, S \ {x})
  BY SumWithout
<1>2. SumFunctionOnSet(h, S) = h[x] + SumFunctionOnSet(h, S \ {x})
  BY SumWithout
<1>3. IsFiniteSet(S \ {x})
  BY FS_Subset
<1>4. SumFunctionOnSet(f, S \ {x}) = SumFunctionOnSet(h, S \ {x})
  BY <1>3, SumOfTheSame
<1>5. f[x] \in Int /\ h[x] \in Int
  OBVIOUS
<1> QED BY <1>1, <1>2, <1>4, <1>5

-----------------------------------------------------------------------------
(* Weighted round robin, for any backends, groups and weights.              *)

\* A group that has been served alone from equal credits: what its members have
\* been sent, and what credit that leaves them.
Even(g, list, c, n) ==
  /\ n \in [list -> Nat]
  /\ \A b \in list :
       /\ c[b] = SumFunctionOnSet(n, list) * Weight[g][b] - n[b] * Total(g, list)
       /\ c[b] > -Total(g, list)
  /\ SumFunctionOnSet(c, list) = 0

RoundInv ==
  /\ credit \in [Backends -> Int] /\ available \subseteq Backends
  /\ turn.g # None =>
       /\ turn.g \in Groups /\ turn.list = MembersOf(turn.g) \cap available /\ turn.list # {}
       /\ Even(turn.g, turn.list, credit, turn.count)

LEMMA ListIs ==
  ASSUME NEW g \in Groups, NEW list, list \subseteq MembersOf(g)
  PROVE  /\ list \subseteq Backends /\ IsFiniteSet(list)
         /\ \A b \in list : Weight[g][b] \in Nat /\ Weight[g][b] > 0
         /\ Total(g, list) \in Nat
         /\ list # {} => Total(g, list) > 0
<1>1. list \subseteq Backends /\ \A b \in list : Weight[g][b] \in Nat /\ Weight[g][b] > 0
  BY WeightAssumption
<1>2. IsFiniteSet(Backends)
  <2>1. DOMAIN Order = 1..Len(Order) /\ Len(Order) \in Nat
    BY OrderAssumption
  <2>2. IsFiniteSet(DOMAIN Order)
    BY <2>1, FS_Interval
  <2>3. Order \in [DOMAIN Order -> Backends]
    BY OrderAssumption
  <2>4. \A b \in Backends : \E i \in DOMAIN Order : Order[i] = b
    BY DEF Backends
  <2>5. Order \in Surjection(DOMAIN Order, Backends)
    BY <2>3, <2>4 DEF Surjection
  <2> QED BY <2>2, <2>5, FS_Surjection
<1>3. IsFiniteSet(list)
  BY <1>1, <1>2, FS_Subset
<1>4. Total(g, list) \in Int /\ 0 <= Total(g, list)
  <2>1. \A b \in list : Weight[g][b] \in Nat
    BY <1>1
  <2> QED BY <1>3, <2>1, SumOfNats DEF Total
<1>5. ASSUME list # {} PROVE Total(g, list) > 0
  <2>1. PICK b \in list : TRUE
    BY <1>5
  <2>2. list \ {b} \subseteq MembersOf(g) /\ IsFiniteSet(list \ {b})
    BY <1>3, FS_Subset
  <2>3. \A x \in list \ {b} : Weight[g][x] \in Nat
    BY <1>1
  <2>4. SumFunctionOnSet(Weight[g], list \ {b}) \in Nat
    BY <2>2, <2>3, SumOfNats
  <2>6. /\ SumFunctionOnSet(Weight[g], list \ {b}) \in Int
        /\ SumFunctionOnSet(Weight[g], list) = Weight[g][b] + SumFunctionOnSet(Weight[g], list \ {b})
    <3> DEFINE w == Weight[g]
    <3>1. IsFiniteSet(list) /\ b \in list
      BY <1>3
    <3>2. \A x \in list : w[x] \in Int
      BY <1>1
    <3> HIDE DEF w
    <3>3. /\ SumFunctionOnSet(w, list \ {b}) \in Int
          /\ SumFunctionOnSet(w, list) = w[b] + SumFunctionOnSet(w, list \ {b})
      BY <3>1, <3>2, SumWithout
    <3> QED BY <3>3 DEF w
  <2>7. Weight[g][b] \in Nat /\ Weight[g][b] > 0
    BY <1>1
  <2> QED BY <2>4, <2>6, <2>7 DEF Total
<1> QED BY <1>1, <1>3, <1>4, <1>5

\* Two backends are at two places of the order.
LEMMA Positions ==
  /\ \A b \in Backends : Position(b) \in Nat
  /\ \A b, x \in Backends : Position(b) = Position(x) => b = x
<1>1. ASSUME NEW b \in Backends PROVE Position(b) \in Nat /\ Order[Position(b)] = b
  <2>1. \E i \in DOMAIN Order : Order[i] = b
    BY DEF Backends
  <2>2. Position(b) \in DOMAIN Order /\ Order[Position(b)] = b
    BY <2>1 DEF Position
  <2>3. DOMAIN Order \subseteq Nat
    BY OrderAssumption
  <2> QED BY <2>2, <2>3
<1> QED BY <1>1

\* When the credits add up to more than nothing the scan finds a backend, and one
\* with credit.
LEMMA ScanFinds ==
  ASSUME NEW list, IsFiniteSet(list), list \subseteq Backends, NEW c, \A b \in list : c[b] \in Int,
         SumFunctionOnSet(c, list) > 0
  PROVE  Best(c, list) # {} /\ \A b \in Best(c, list) : b \in list /\ c[b] > 0
<1> DEFINE Above(b, x) == c[b] > c[x] \/ (c[b] = c[x] /\ Position(b) < Position(x))
<1>1. PICK top \in list : \A x \in list : x # top => Above(top, x)
  <2> DEFINE G == {T \in SUBSET list : T = {} \/ \E b \in T : \A x \in T : x # b => Above(b, x)}
  <2>1. {} \in G
    OBVIOUS
  <2>2. ASSUME NEW T \in SUBSET list, T # {}, \A x \in T : T \ {x} \in G PROVE T \in G
    <3>1. PICK y \in T : TRUE
      BY <2>2
    <3>2. T \ {y} \in G
      BY <2>2
    <3>3. CASE T \ {y} = {}
      <4>1. \A x \in T : x = y
        BY <3>3
      <4> QED BY <4>1
    <3>4. CASE T \ {y} # {}
      <4>1. PICK b \in T \ {y} : \A x \in T \ {y} : x # b => Above(b, x)
        BY <3>2, <3>4
      <4>2. b # y /\ c[b] \in Int /\ c[y] \in Int /\ Position(b) \in Nat /\ Position(y) \in Nat
            /\ Position(b) # Position(y)
        BY <3>1, <4>1, Positions
      <4>3. Above(b, y) \/ Above(y, b)
        BY <4>2
      <4>4. CASE Above(b, y)
        <5>1. \A x \in T : x # b => Above(b, x)
          BY <4>1, <4>4
        <5> QED BY <4>1, <5>1
      <4>5. CASE Above(y, b)
        <5>1. ASSUME NEW x \in T, x # y PROVE Above(y, x)
          <6>1. CASE x = b
            BY <4>5, <6>1
          <6>2. CASE x # b
            <7>1. Above(b, x)
              BY <4>1, <5>1, <6>2
            <7>2. c[x] \in Int /\ Position(x) \in Nat
              BY <5>1, Positions
            <7> QED BY <4>2, <4>5, <7>1, <7>2
          <6> QED BY <6>1, <6>2
        <5> QED BY <3>1, <5>1
      <4> QED BY <4>3, <4>4, <4>5
    <3> QED BY <3>3, <3>4
  <2> HIDE DEF G
  <2>3. list \in G
    BY <2>1, <2>2, FromTheEmptySet
  <2>4. list # {}
    BY SumOfNothing
  <2> QED BY <2>3, <2>4 DEF G
<1>2. PICK rich \in list : c[rich] > 0
  <2> SUFFICES ASSUME \A b \in list : ~(c[b] > 0) PROVE FALSE
    OBVIOUS
  <2> DEFINE zero == [b \in list |-> 0]
  <2>1. \A b \in list : c[b] \in Int /\ zero[b] \in Int /\ zero[b] = 0 /\ c[b] <= zero[b]
    OBVIOUS
  <2> HIDE DEF zero
  <2>2. SumFunctionOnSet(c, list) <= SumFunctionOnSet(zero, list) /\ SumFunctionOnSet(zero, list) = 0
    BY <2>1, SumAtMost, SumOfZeros
  <2>3. SumFunctionOnSet(c, list) \in Int
    BY SumType
  <2> QED BY <2>2, <2>3
<1>3. ASSUME NEW b \in list, \A x \in list : x # b => Above(b, x) PROVE c[b] > 0
  <2>1. c[b] \in Int /\ c[rich] \in Int /\ (rich # b => c[b] >= c[rich])
    BY <1>3
  <2> QED BY <1>2, <2>1
<1>4. c[top] > 0 /\ c[top] \in Int
  BY <1>1, <1>3
<1>5. top \in Best(c, list)
  BY <1>1, <1>4 DEF Best
<1> QED BY <1>3, <1>5 DEF Best

\* Credits of nothing are what nobody having been sent anything leaves.
LEMMA FreshIsEven ==
  ASSUME NEW g \in Groups, NEW list, list \subseteq MembersOf(g), list # {}, \A x \in list : credit[x] = 0
  PROVE  Even(g, list, credit, [x \in list |-> 0])
<1> DEFINE zero == [x \in list |-> 0]
<1>1. IsFiniteSet(list) /\ Total(g, list) \in Nat /\ Total(g, list) > 0
      /\ \A b \in list : Weight[g][b] \in Nat
  BY ListIs
<1>2. zero \in [list -> Nat] /\ \A x \in list : zero[x] = 0
  OBVIOUS
<1> HIDE DEF zero
<1>3. SumFunctionOnSet(zero, list) = 0 /\ SumFunctionOnSet(credit, list) = 0
  BY <1>1, <1>2, SumOfZeros
<1>4. \A b \in list : 0 = 0 * Weight[g][b] - 0 * Total(g, list)
  BY <1>1
<1>5. \A b \in list : credit[b] = SumFunctionOnSet(zero, list) * Weight[g][b] - zero[b] * Total(g, list)
  BY <1>2, <1>3, <1>4
<1>6. \A b \in list : credit[b] > -Total(g, list)
  BY <1>1
<1>7. Even(g, list, credit, zero)
  BY <1>2, <1>3, <1>5, <1>6 DEF Even
<1> QED BY <1>7 DEF zero

\* One more selection.
LEMMA OneMoreTurn ==
  ASSUME credit \in [Backends -> Int],
         NEW g \in Groups, NEW list, list \subseteq MembersOf(g), list # {},
         NEW n, Even(g, list, credit, n), NEW b \in Best(Credited(g, list), list)
  PROVE  Even(g, list, Charged(g, list, Credited(g, list), b), [n EXCEPT ![b] = @ + 1])
<1> DEFINE c == Credited(g, list)
           d == Charged(g, list, c, b)
           m == [n EXCEPT ![b] = @ + 1]
           price == Total(g, list)
           k == SumFunctionOnSet(n, list)
<1>1. /\ IsFiniteSet(list) /\ list \subseteq Backends /\ price \in Nat /\ price > 0
      /\ \A x \in list : Weight[g][x] \in Nat
  BY ListIs
<1>2. /\ n \in [list -> Nat] /\ SumFunctionOnSet(credit, list) = 0
      /\ \A x \in list : credit[x] \in Int /\ credit[x] = k * Weight[g][x] - n[x] * price /\ credit[x] > -price
  BY <1>1 DEF Even
<1>3. \A x \in list : c[x] = credit[x] + Weight[g][x] /\ c[x] \in Int
  BY <1>1, <1>2 DEF Credited
<1>4. c \in [Backends -> Int]
  <2>1. \A x \in Backends : c[x] \in Int
    BY <1>1, <1>3 DEF Credited
  <2> QED BY <2>1 DEF Credited
<1>5. SumFunctionOnSet(c, list) = price
  <2>1. \A x \in list : credit[x] \in Int /\ Weight[g][x] \in Int
    BY <1>1, <1>2
  <2> HIDE DEF c
  <2>2. SumFunctionOnSet(c, list) = SumFunctionOnSet(credit, list) + SumFunctionOnSet(Weight[g], list)
    BY <1>1, <1>3, <2>1, SumsAdd
  <2> QED BY <1>1, <1>2, <2>2 DEF Total
<1> HIDE DEF c
<1>6. b \in list /\ c[b] > 0
  <2>1. b \in Best(c, list)
    BY DEF c
  <2> QED BY <1>1, <1>3, <1>5, <2>1, ScanFinds
<1>7. /\ d[b] = c[b] - price /\ \A x \in list \ {b} : d[x] = c[x]
      /\ \A x \in list : d[x] \in Int
  BY <1>1, <1>3, <1>4, <1>6 DEF Charged
<1>8. m \in [list -> Nat] /\ m[b] = n[b] + 1 /\ \A x \in list \ {b} : m[x] = n[x]
  BY <1>2, <1>6
<1> HIDE DEF d, m
<1>9. SumFunctionOnSet(d, list) = 0
  <2>1. SumFunctionOnSet(d, list) = SumFunctionOnSet(c, list) - c[b] + d[b]
    BY <1>1, <1>3, <1>6, <1>7, SumChanges
  <2> HIDE DEF price
  <2>2. c[b] \in Int
    BY <1>3, <1>6
  <2> QED BY <1>1, <1>5, <1>7, <2>1, <2>2
<1>10. k \in Nat /\ SumFunctionOnSet(m, list) = k + 1
  <2>1. \A x \in list : n[x] \in Int /\ m[x] \in Int /\ n[x] \in Nat
    BY <1>2, <1>8
  <2>2. SumFunctionOnSet(m, list) = k - n[b] + m[b] /\ k \in Int
    BY <1>1, <1>6, <1>8, <2>1, SumChanges, SumType
  <2>3. k >= 0
    BY <1>1, <2>1, SumOfNats
  <2> HIDE DEF k
  <2> QED BY <1>6, <1>8, <2>1, <2>2, <2>3
<1> HIDE DEF price, k
<1>11. ASSUME NEW x \in list
       PROVE  d[x] = (k + 1) * Weight[g][x] - m[x] * price /\ d[x] > -price
  <2>1. /\ Weight[g][x] \in Nat /\ n[x] \in Nat /\ credit[x] \in Int /\ credit[x] > -price
        /\ credit[x] = k * Weight[g][x] - n[x] * price /\ c[x] = credit[x] + Weight[g][x]
    BY <1>1, <1>2, <1>3
  <2>2. (k + 1) * Weight[g][x] = k * Weight[g][x] + Weight[g][x] /\ (n[x] + 1) * price = n[x] * price + price
        /\ k * Weight[g][x] \in Int /\ n[x] * price \in Int
    <3>1. \A p \in Nat, q \in Nat : (p + 1) * q = p * q + q /\ p * q \in Int
      OBVIOUS
    <3>2. k \in Nat /\ price \in Nat /\ Weight[g][x] \in Nat /\ n[x] \in Nat
      BY <1>1, <1>10, <2>1
    <3> QED BY <3>1, <3>2
  <2>3. CASE x = b
    BY <1>1, <1>6, <1>7, <1>8, <2>1, <2>2, <2>3
  <2>4. CASE x # b
    BY <1>1, <1>7, <1>8, <2>1, <2>2, <2>4
  <2> QED BY <2>3, <2>4
<1>12. Even(g, list, d, m)
  BY <1>8, <1>9, <1>10, <1>11 DEF Even, price
<1> QED BY <1>12 DEF d, m, c

\* selectWeightedRR
LEMMA SelectionsStayEven == ASSUME RoundInv, NEW g \in Groups, Select(g) PROVE RoundInv'
<1> DEFINE list == MembersOf(g) \cap available
           c == Credited(g, list)
           zero == \A x \in list : credit[x] = 0
<1>1. PICK b \in (IF Best(c, list) # {} THEN Best(c, list) ELSE list) :
        /\ credit' = IF Best(c, list) # {} THEN Charged(g, list, c, b) ELSE c
        /\ turn' = Counted(g, list, b)
  BY DEF Select
<1>2. list # {} /\ list \subseteq MembersOf(g) /\ available' = available /\ available \subseteq Backends
      /\ credit \in [Backends -> Int]
  BY DEF Select, RoundInv
<1>3. credit' \in [Backends -> Int]
  <2>1. \A x \in list : Weight[g][x] \in Int /\ x \in Backends
    BY <1>2, ListIs
  <2>2. c \in [Backends -> Int]
    BY <1>2, <2>1 DEF Credited
  <2>3. Total(g, list) \in Int
    BY <1>2, ListIs
  <2>5. b \in Backends
    <3>1. Best(c, list) \subseteq list
      BY DEF Best
    <3>2. b \in list
      BY <1>1, <3>1
    <3> QED BY <2>1, <3>2
  <2> HIDE DEF c, list
  <2>4. Charged(g, list, c, b) \in [Backends -> Int]
    <3>1. [c EXCEPT ![b] = @ - Total(g, list)] \in [Backends -> Int]
      BY <2>2, <2>3, <2>5
    <3> QED BY <3>1 DEF Charged
  <2> QED BY <1>1, <2>2, <2>4
<1> DEFINE old == IF zero THEN [x \in list |-> 0] ELSE turn.count
<1>4. CASE zero \/ (turn.g = g /\ turn.list = list)
  <2>1. Even(g, list, credit, old)
    <3>1. CASE zero
      BY <1>2, <3>1, FreshIsEven
    <3>2. CASE ~zero
      <4>1. turn.g = g /\ turn.list = list /\ turn.g # None
        BY <1>4, <3>2, NoneAssumption
      <4> QED BY <3>2, <4>1 DEF RoundInv
    <3> QED BY <3>1, <3>2
  <2>2. Best(c, list) # {}
    <3>1. IsFiniteSet(list) /\ list \subseteq Backends /\ Total(g, list) > 0 /\ Total(g, list) \in Nat
          /\ \A x \in list : Weight[g][x] \in Int
      BY <1>2, ListIs
    <3>2. \A x \in list : credit[x] \in Int /\ c[x] \in Int /\ c[x] = credit[x] + Weight[g][x]
      BY <1>2, <3>1 DEF Credited
    <3>3. SumFunctionOnSet(credit, list) = 0
      BY <2>1 DEF Even
    <3> HIDE DEF c, list
    <3>4. SumFunctionOnSet(c, list) = SumFunctionOnSet(credit, list) + SumFunctionOnSet(Weight[g], list)
      BY <3>1, <3>2, SumsAdd
    <3>5. SumFunctionOnSet(c, list) > 0
      BY <3>1, <3>3, <3>4 DEF Total
    <3> QED BY <3>1, <3>2, <3>5, ScanFinds
  <2>3. b \in Best(c, list) /\ credit' = Charged(g, list, c, b)
    BY <1>1, <2>2
  <2>4. turn' = [g |-> g, list |-> list, count |-> [old EXCEPT ![b] = @ + 1]]
    BY <1>1, <1>4 DEF Counted
  <2> HIDE DEF old, list
  <2>5. Even(g, list, credit', [old EXCEPT ![b] = @ + 1])
    BY <1>2, <2>1, <2>3, OneMoreTurn
  <2>6. turn'.g = g /\ turn'.list = list /\ turn'.count = [old EXCEPT ![b] = @ + 1]
    BY <2>4
  <2>7. Even(turn'.g, turn'.list, credit', turn'.count)
    BY <2>5, <2>6
  <2>8. turn'.list = MembersOf(turn'.g) \cap available' /\ turn'.list # {} /\ turn'.g \in Groups
    BY <1>2, <2>6 DEF list
  <2> QED BY <1>2, <1>3, <2>7, <2>8 DEF RoundInv, Even
<1>5. CASE ~(zero \/ (turn.g = g /\ turn.list = list))
  <2>1. turn' = NoTurn
    BY <1>1, <1>5 DEF Counted
  <2>2. turn'.g = None
    BY <2>1 DEF NoTurn
  <2> QED BY <1>2, <1>3, <2>2 DEF RoundInv
<1> QED BY <1>4, <1>5

LEMMA RoundStep == RoundInv /\ [Next]_vars => RoundInv'
<1> SUFFICES ASSUME RoundInv, [Next]_vars PROVE RoundInv'
  OBVIOUS
<1>1. ASSUME NEW b \in Backends, Flip(b) PROVE RoundInv'
  <2>1. turn'.g = None /\ credit' = credit /\ available' \subseteq Backends
    BY <1>1 DEF Flip, NoTurn, RoundInv
  <2> QED BY <2>1 DEF RoundInv
<1>2. ASSUME NEW b \in Backends, Forget(b) PROVE RoundInv'
  <2>1. turn'.g = None /\ credit' \in [Backends -> Int] /\ available' \subseteq Backends
    BY <1>2 DEF Forget, NoTurn, RoundInv
  <2> QED BY <2>1 DEF RoundInv
<1>3. CASE UNCHANGED vars
  BY <1>3 DEF vars, RoundInv, Even
<1> QED BY <1>1, <1>2, <1>3, SelectionsStayEven DEF Next

\* selectWeightedRR of the backend manager: from equal credits, a group that is
\* served alone gives each of its available members exactly its weight in a round,
\* and the credits are equal again, for any number of backends and groups and any
\* weights.
THEOREM RoundsAreFair == Spec => []RoundsFollowWeights
<1>1. Init => RoundInv
  <2> SUFFICES ASSUME Init PROVE RoundInv
    OBVIOUS
  <2>1. turn.g = None /\ credit \in [Backends -> Int] /\ available = Backends
    BY DEF Init, NoTurn
  <2> QED BY <2>1 DEF RoundInv
<1>2. RoundInv => RoundsFollowWeights
  <2> SUFFICES ASSUME RoundInv, turn.g # None, SumFunction(turn.count) = Total(turn.g, turn.list)
               PROVE  \A b \in turn.list : turn.count[b] = Weight[turn.g][b] /\ credit[b] = 0
    BY DEF RoundsFollowWeights
  <2> DEFINE g == turn.g
             list == turn.list
             n == turn.count
             price == Total(g, list)
  <2>1. g \in Groups /\ list \subseteq MembersOf(g) /\ list # {} /\ Even(g, list, credit, n)
    BY DEF RoundInv
  <2> HIDE DEF g, list
  <2>2. /\ IsFiniteSet(list) /\ price \in Nat /\ price > 0 /\ \A b \in list : Weight[g][b] \in Nat
    BY <2>1, ListIs
  <2>3. n \in [list -> Nat] /\ \A b \in list : n[b] \in Nat
    BY <2>1 DEF Even
  <2>4. SumFunctionOnSet(n, list) = price
    <3>1. DOMAIN n = list
      BY <2>3
    <3> QED BY <3>1 DEF SumFunction, g, list
  <2>5. \A b \in list : credit[b] = price * Weight[g][b] - n[b] * price /\ credit[b] > -price
    BY <2>1, <2>4 DEF Even
  <2> HIDE DEF price, n
  <2>6. ASSUME NEW b \in list PROVE n[b] <= Weight[g][b]
    <3>1. n[b] \in Nat /\ Weight[g][b] \in Nat /\ price * Weight[g][b] - n[b] * price > -price
      BY <2>2, <2>3, <2>5
    <3>2. CASE n[b] >= Weight[g][b] + 1
      <4>1. n[b] * price >= (Weight[g][b] + 1) * price
        <5>1. \A p, q, r \in Nat : p >= q => p * r >= q * r
          OBVIOUS
        <5>2. Weight[g][b] + 1 \in Nat /\ n[b] \in Nat /\ price \in Nat
          BY <2>2, <3>1
        <5> QED BY <3>2, <5>1, <5>2
      <4>2. (Weight[g][b] + 1) * price = price * Weight[g][b] + price /\ price * Weight[g][b] \in Int /\ n[b] * price \in Int
        BY <2>2, <3>1
      <4> QED BY <2>2, <3>1, <4>1, <4>2
    <3> QED BY <3>1, <3>2
  <2>7. ASSUME NEW b \in list PROVE n[b] = Weight[g][b]
    <3>1. SumFunctionOnSet(n, list) = SumFunctionOnSet(Weight[g], list)
      BY <2>4 DEF price, Total
    <3>2. \A x \in list : n[x] \in Int /\ Weight[g][x] \in Int /\ n[x] <= Weight[g][x]
      BY <2>2, <2>3, <2>6
    <3> QED BY <2>2, <2>7, <3>1, <3>2, SameSumSameSummands
  <2>8. ASSUME NEW b \in list PROVE credit[b] = 0
    <3>1. credit[b] = price * Weight[g][b] - Weight[g][b] * price /\ Weight[g][b] \in Nat
      BY <2>2, <2>5, <2>7
    <3> QED BY <2>2, <3>1
  <2> QED BY <2>7, <2>8 DEF n, g, list
<1> QED BY <1>1, <1>2, RoundStep, PTL DEF Spec

-----------------------------------------------------------------------------
(* What the rows of the metrics add up to, for any number of requests, blocks,
   failures and restarts, any queues and any length of an hour.              *)

CountRecords == [total : Nat, blocked : Nat]

MetricsTyping ==
  /\ minute \in 0..MaxMinute /\ nextHourly \in Nat /\ nextHourly >= MinutesPerHour
  /\ pendingMinute \in CountRecords
  /\ metricEvents \in Nat /\ eventChan \in Nat /\ batch \in Nat /\ interceptEvents \in Nat
  /\ minuteStats \in [0..MaxMinute -> CountRecords] /\ DOMAIN hourlyStats = 0..Hour(MaxMinute)
  /\ hourlyStats = [h \in 0..Hour(MaxMinute) |-> hourlyStats[h]]
  /\ passed \in Nat /\ blocks \in Nat

\* An hour that was aggregated has passed.
HoursAreFinal ==
  \A h \in DOMAIN hourlyStats :
    hourlyStats[h] # NoCount => h < Hour(minute) /\ hourlyStats[h] = HourTotal(h)

EventsAreBlocks == metricEvents + eventChan + batch + interceptEvents <= blocks
MinutesAreRequests == SumFunction(Totals) + pendingMinute.total + metricEvents <= passed + blocks

MetricsInv == MetricsTyping /\ HoursAreFinal /\ EventsAreBlocks /\ MinutesAreRequests

LEMMA Hours ==
  ASSUME NEW m \in Nat
  PROVE  /\ Hour(m) \in Nat
         /\ m >= MinutesPerHour => Hour(m) >= 1
         /\ \A n \in Nat : m <= n => Hour(m) <= Hour(n)
<1>1. MinutesPerHour \in Nat \ {0}
  BY MetricsAssumption
<1>2. \A a \in Nat, b \in Nat \ {0} : a \div b \in Nat
  OBVIOUS
<1>3. \A a \in Nat, b \in Nat \ {0} : a >= b => a \div b >= 1
  OBVIOUS
<1>4. \A a \in Nat, c \in Nat, b \in Nat \ {0} : a <= c => a \div b <= c \div b
  OBVIOUS
<1> QED BY <1>1, <1>2, <1>3, <1>4 DEF Hour

LEMMA MinuteSums ==
  ASSUME MetricsTyping
  PROVE  /\ SumFunction(Totals) = SumFunctionOnSet(Totals, 0..MaxMinute) /\ SumFunction(Totals) \in Nat
         /\ IsFiniteSet(0..MaxMinute) /\ \A m \in 0..MaxMinute : Totals[m] = minuteStats[m].total /\ Totals[m] \in Nat
<1>1. \A m \in 0..MaxMinute : minuteStats[m].total \in Nat
  BY DEF MetricsTyping, CountRecords
<1>2. DOMAIN Totals = 0..MaxMinute /\ \A m \in 0..MaxMinute : Totals[m] = minuteStats[m].total
  BY DEF Totals
<1>3. IsFiniteSet(0..MaxMinute)
  BY MetricsAssumption, FS_Interval
<1>4. SumFunctionOnSet(Totals, 0..MaxMinute) \in Nat
  BY <1>1, <1>2, <1>3, SumOfNats
<1> QED BY <1>1, <1>2, <1>3, <1>4 DEF SumFunction

\* What does not touch the tables of minutes and hours.
LEMMA TablesStay ==
  ASSUME MetricsInv, UNCHANGED <<minute, minuteStats, hourlyStats>>
  PROVE  HoursAreFinal' /\ SumFunction(Totals)' = SumFunction(Totals)
BY DEF MetricsInv, HoursAreFinal, HourTotal, Totals, BlockTotals

\* Queues and counters.
LEMMA QueuesAddUp ==
  ASSUME MetricsInv,
         CountRequest \/ RecordPass \/ RecordBlock \/ WriteMetricEvent \/ ReceiveEvent \/ FlushEventBatch
           \/ FlushCounters \/ RestartMetrics \/ UNCHANGED metricsVars
  PROVE  MetricsInv'
<1> USE DEF counters, queues, statsTables, requests
<1>1. UNCHANGED <<minute, minuteStats, hourlyStats>>
  BY DEF CountRequest, RecordPass, RecordBlock, WriteMetricEvent, ReceiveEvent, FlushEventBatch,
         FlushCounters, RestartMetrics, metricsVars
<1>2. HoursAreFinal' /\ SumFunction(Totals)' = SumFunction(Totals)
  BY <1>1, TablesStay
<1>3. MetricsTyping /\ SumFunction(Totals) \in Nat
  BY MinuteSums DEF MetricsInv
<1>4. nextHourly' \in Nat /\ nextHourly' >= MinutesPerHour
  <2>1. CASE nextHourly' = nextHourly
    BY <1>3, <2>1 DEF MetricsTyping
  <2>2. CASE nextHourly' = minute + MinutesPerHour
    BY <1>3, <2>2, MetricsAssumption DEF MetricsTyping
  <2> QED BY <2>1, <2>2 DEF CountRequest, RecordPass, RecordBlock, WriteMetricEvent, ReceiveEvent,
            FlushEventBatch, FlushCounters, RestartMetrics, metricsVars
<1> DEFINE Rest == pendingMinute' \in CountRecords /\ metricEvents' \in Nat /\ eventChan' \in Nat /\ batch' \in Nat
                     /\ interceptEvents' \in Nat /\ passed' \in Nat /\ blocks' \in Nat
           Adds1 == metricEvents' + eventChan' + batch' + interceptEvents' <= blocks'
           Adds2 == SumFunction(Totals) + pendingMinute'.total + metricEvents' <= passed' + blocks'
<1>5. SUFFICES Rest /\ Adds1 /\ Adds2
  <2>1. MetricsTyping'
    BY <1>1, <1>3, <1>4, <1>5 DEF MetricsTyping
  <2>2. EventsAreBlocks' /\ MinutesAreRequests'
    BY <1>2, <1>5 DEF EventsAreBlocks, MinutesAreRequests
  <2> QED BY <1>2, <2>1, <2>2 DEF MetricsInv
<1>6. /\ metricEvents \in Nat /\ eventChan \in Nat /\ batch \in Nat /\ interceptEvents \in Nat
      /\ passed \in Nat /\ blocks \in Nat /\ pendingMinute \in CountRecords /\ SumFunction(Totals) \in Nat
      /\ pendingMinute.total \in Nat /\ pendingMinute.blocked \in Nat
      /\ metricEvents + eventChan + batch + interceptEvents <= blocks
      /\ SumFunction(Totals) + pendingMinute.total + metricEvents <= passed + blocks
  BY <1>3 DEF MetricsInv, MetricsTyping, EventsAreBlocks, MinutesAreRequests, CountRecords
<1> HIDE DEF Rest, Adds1, Adds2
<1>7. CASE UNCHANGED <<pendingMinute, metricEvents, eventChan, batch, interceptEvents, passed, blocks>>
  BY <1>6, <1>7 DEF Rest, Adds1, Adds2
<1>8. CASE RecordPass
  <2>1. /\ pendingMinute' = [total |-> pendingMinute.total + 1, blocked |-> pendingMinute.blocked + 0]
        /\ passed' = passed + 1 /\ UNCHANGED <<metricEvents, eventChan, batch, interceptEvents, blocks>>
    BY <1>8 DEF RecordPass, Plus, Count
  <2>2. pendingMinute'.total = pendingMinute.total + 1 /\ pendingMinute' \in CountRecords
    BY <1>6, <2>1 DEF CountRecords
  <2> QED BY <1>6, <2>1, <2>2 DEF Rest, Adds1, Adds2
<1>9. CASE RecordBlock
  <2>1. /\ blocks' = blocks + 1 /\ metricEvents' \in {metricEvents, metricEvents + 1}
        /\ UNCHANGED <<pendingMinute, eventChan, batch, interceptEvents, passed>>
    BY <1>9 DEF RecordBlock
  <2>2. metricEvents' \in Nat /\ metricEvents' <= metricEvents + 1
    BY <1>6, <2>1
  <2>3. Rest
    BY <1>6, <2>1, <2>2 DEF Rest
  <2>4. Adds1
    <3>1. /\ eventChan' = eventChan /\ batch' = batch /\ blocks' = blocks + 1 /\ interceptEvents' = interceptEvents
          /\ metricEvents' \in Nat /\ metricEvents' <= metricEvents + 1
      BY <2>1, <2>2
    <3>2. /\ metricEvents \in Nat /\ eventChan \in Nat /\ batch \in Nat /\ interceptEvents \in Nat /\ blocks \in Nat
          /\ metricEvents + eventChan + batch + interceptEvents <= blocks
      BY <1>6
    <3>3. \A a, b, c, d, n, x \in Nat : a + b + c + d <= n /\ x <= a + 1 => x + b + c + d <= n + 1
      OBVIOUS
    <3>4. metricEvents' + eventChan + batch + interceptEvents <= blocks + 1
      BY <3>1, <3>2, <3>3
    <3> QED BY <3>1, <3>4 DEF Adds1
  <2>5. Adds2
    BY <1>6, <2>1, <2>2 DEF Adds2
  <2> QED BY <2>3, <2>4, <2>5
<1>10. CASE WriteMetricEvent
  <2>1. /\ metricEvents > 0 /\ metricEvents' = metricEvents - 1
        /\ pendingMinute' = [total |-> pendingMinute.total + 1, blocked |-> pendingMinute.blocked + 1]
        /\ UNCHANGED <<batch, passed, blocks>>
    BY <1>10 DEF WriteMetricEvent, Plus, Count
  <2>2. \/ eventChan' = eventChan + 1 /\ interceptEvents' = interceptEvents
        \/ eventChan' = eventChan /\ interceptEvents' \in {interceptEvents, interceptEvents + 1}
    BY <1>10 DEF WriteMetricEvent, SaveEvent
  <2>3. pendingMinute'.total = pendingMinute.total + 1 /\ pendingMinute' \in CountRecords
    BY <1>6, <2>1 DEF CountRecords
  <2> QED BY <1>6, <2>1, <2>2, <2>3 DEF Rest, Adds1, Adds2
<1>11. CASE ReceiveEvent
  <2>1. /\ eventChan > 0 /\ eventChan' = eventChan - 1 /\ batch' = batch + 1
        /\ UNCHANGED <<pendingMinute, metricEvents, interceptEvents, passed, blocks>>
    BY <1>11 DEF ReceiveEvent
  <2> QED BY <1>6, <2>1 DEF Rest, Adds1, Adds2
<1>12. CASE FlushEventBatch
  <2>1. batch' = 0 /\ UNCHANGED <<pendingMinute, metricEvents, eventChan, passed, blocks>>
    BY <1>12 DEF FlushEventBatch
  <2>2. \E lost \in 0..batch : interceptEvents' = interceptEvents + batch - lost
    <3>1. CASE interceptEvents' = interceptEvents + batch
      BY <1>6, <3>1
    <3> QED BY <1>12, <3>1 DEF FlushEventBatch
  <2>3. PICK lost \in 0..batch : interceptEvents' = interceptEvents + batch - lost
    BY <2>2
  <2> QED BY <1>6, <2>1, <2>3 DEF Rest, Adds1, Adds2
<1>13. CASE RestartMetrics
  <2>1. /\ interceptEvents' \in {interceptEvents, interceptEvents + batch}
        /\ metricEvents' = 0 /\ eventChan' = 0 /\ batch' = 0
        /\ pendingMinute' = [total |-> 0, blocked |-> 0] /\ UNCHANGED <<passed, blocks>>
    BY <1>13 DEF RestartMetrics, NoCount, Count
  <2>2. pendingMinute'.total = 0 /\ pendingMinute' \in CountRecords
    BY <2>1 DEF CountRecords
  <2>3. interceptEvents' \in Nat /\ interceptEvents' <= interceptEvents + batch
    BY <1>6, <2>1
  <2>4. Rest
    BY <1>6, <2>1, <2>2, <2>3 DEF Rest
  <2>5. Adds1
    <3>1. /\ metricEvents' = 0 /\ eventChan' = 0 /\ batch' = 0 /\ blocks' = blocks
          /\ interceptEvents' \in Nat /\ interceptEvents' <= interceptEvents + batch
      BY <2>1, <2>3
    <3>2. /\ metricEvents \in Nat /\ eventChan \in Nat /\ batch \in Nat /\ interceptEvents \in Nat /\ blocks \in Nat
          /\ metricEvents + eventChan + batch + interceptEvents <= blocks
      BY <1>6
    <3>3. \A a, b, c, d, n, x \in Nat : a + b + c + d <= n /\ x <= d + c => 0 + 0 + 0 + x <= n
      OBVIOUS
    <3>4. 0 + 0 + 0 + interceptEvents' <= blocks
      BY <3>1, <3>2, <3>3
    <3> QED BY <3>1, <3>4 DEF Adds1
  <2>6. Adds2
    BY <1>6, <2>1, <2>2 DEF Adds2
  <2> QED BY <2>4, <2>5, <2>6
<1>14. CASE CountRequest \/ FlushCounters \/ UNCHANGED metricsVars
  BY <1>7, <1>14 DEF CountRequest, FlushCounters, metricsVars
<1> QED BY <1>8, <1>9, <1>10, <1>11, <1>12, <1>13, <1>14 DEF Rest, Adds1, Adds2

\* The counters of a minute go to its row.
LEMMA MinuteIsFlushed == ASSUME MetricsInv, FlushMinuteStats PROVE MetricsInv'
<1>1. /\ pendingMinute' = [total |-> 0, blocked |-> 0]
      /\ UNCHANGED <<minute, nextHourly, metricEvents, eventChan, batch, interceptEvents, hourlyStats, passed, blocks>>
  BY DEF FlushMinuteStats, NoCount, Count, queues, requests
<1>2. minuteStats' = [minuteStats EXCEPT ![minute] = Plus(@, pendingMinute)] \/ minuteStats' = minuteStats
  BY DEF FlushMinuteStats
<1>3. MetricsTyping /\ HoursAreFinal /\ EventsAreBlocks /\ MinutesAreRequests
  BY DEF MetricsInv
<1>4. /\ minute \in 0..MaxMinute /\ minuteStats \in [0..MaxMinute -> CountRecords]
      /\ pendingMinute.total \in Nat /\ pendingMinute.blocked \in Nat
      /\ minuteStats[minute].total \in Nat /\ minuteStats[minute].blocked \in Nat
      /\ metricEvents \in Nat /\ passed \in Nat /\ blocks \in Nat
  BY <1>3 DEF MetricsTyping, CountRecords
<1>5. /\ minuteStats' \in [0..MaxMinute -> CountRecords]
      /\ \A m \in (0..MaxMinute) \ {minute} : minuteStats'[m] = minuteStats[m]
      /\ minuteStats'[minute].total \in {minuteStats[minute].total, minuteStats[minute].total + pendingMinute.total}
  <2> DEFINE sum == Plus(minuteStats[minute], pendingMinute)
  <2>1. sum \in CountRecords /\ sum.total = minuteStats[minute].total + pendingMinute.total
    BY <1>4 DEF Plus, Count, CountRecords
  <2> HIDE DEF sum
  <2>2. minuteStats' = [minuteStats EXCEPT ![minute] = sum] \/ minuteStats' = minuteStats
    BY <1>2 DEF sum
  <2> QED BY <1>4, <2>1, <2>2
<1>6. pendingMinute' \in CountRecords /\ pendingMinute'.total = 0
  BY <1>1 DEF CountRecords
<1>7. MetricsTyping'
  BY <1>1, <1>3, <1>5, <1>6 DEF MetricsTyping
<1>8. HoursAreFinal'
  <2> SUFFICES ASSUME NEW h \in DOMAIN hourlyStats, hourlyStats[h] # NoCount
               PROVE  h < Hour(minute) /\ hourlyStats[h] = HourTotal(h)'
    BY <1>1 DEF HoursAreFinal
  <2>1. h < Hour(minute) /\ hourlyStats[h] = HourTotal(h)
    BY <1>3 DEF HoursAreFinal
  <2>2. Hour(minute) \in Nat /\ h \in Nat
    <3>1. minute \in Nat /\ MaxMinute \in Nat /\ h \in 0..Hour(MaxMinute)
      BY <1>3, <1>4, MetricsAssumption DEF MetricsTyping
    <3> QED BY <3>1, Hours
  <2>3. \A m \in MinutesOf(h) : m \in 0..MaxMinute /\ m # minute
    BY <2>1, <2>2 DEF MinutesOf
  <2>4. \A m \in MinutesOf(h) : Totals'[m] = Totals[m] /\ BlockTotals'[m] = BlockTotals[m]
    BY <1>5, <2>3 DEF Totals, BlockTotals
  <2>5. IsFiniteSet(MinutesOf(h))
    <3>1. IsFiniteSet(0..MaxMinute) /\ MinutesOf(h) \subseteq 0..MaxMinute
      BY MetricsAssumption, FS_Interval DEF MinutesOf
    <3> QED BY <3>1, FS_Subset
  <2>6. /\ SumFunctionOnSet(Totals', MinutesOf(h)) = SumFunctionOnSet(Totals, MinutesOf(h))
        /\ SumFunctionOnSet(BlockTotals', MinutesOf(h)) = SumFunctionOnSet(BlockTotals, MinutesOf(h))
    BY <2>4, <2>5, SumOfTheSame
  <2>7. HourTotal(h)' = HourTotal(h)
    BY <2>6 DEF HourTotal
  <2> QED BY <2>1, <2>7
<1>9. SumFunction(Totals)' \in Nat /\ SumFunction(Totals) \in Nat
      /\ SumFunction(Totals)' <= SumFunction(Totals) + pendingMinute.total
  <2>1. /\ SumFunction(Totals) = SumFunctionOnSet(Totals, 0..MaxMinute) /\ SumFunction(Totals) \in Nat
        /\ IsFiniteSet(0..MaxMinute) /\ \A m \in 0..MaxMinute : Totals[m] = minuteStats[m].total /\ Totals[m] \in Nat
    BY <1>3, MinuteSums
  <2>2. /\ SumFunction(Totals)' = SumFunctionOnSet(Totals', 0..MaxMinute)
        /\ \A m \in 0..MaxMinute : Totals'[m] = minuteStats'[m].total /\ Totals'[m] \in Nat
    <3>1. \A m \in 0..MaxMinute : minuteStats'[m].total \in Nat
      BY <1>5 DEF CountRecords
    <3>2. DOMAIN Totals' = 0..MaxMinute /\ \A m \in 0..MaxMinute : Totals'[m] = minuteStats'[m].total
      BY DEF Totals
    <3> QED BY <3>1, <3>2 DEF SumFunction
  <2> DEFINE t == Totals
             u == Totals'
  <2>3. \A m \in 0..MaxMinute : t[m] \in Int /\ u[m] \in Int
    BY <2>1, <2>2
  <2>4. \A m \in (0..MaxMinute) \ {minute} : t[m] = u[m]
    BY <1>5, <2>1, <2>2
  <2>5. u[minute] \in {t[minute], t[minute] + pendingMinute.total} /\ t[minute] \in Nat /\ u[minute] \in Nat
    BY <1>4, <1>5, <2>1, <2>2
  <2>6. SumFunctionOnSet(u, 0..MaxMinute) \in Nat
    BY <2>1, <2>2, SumOfNats
  <2> HIDE DEF t, u
  <2>7. SumFunctionOnSet(u, 0..MaxMinute) = SumFunctionOnSet(t, 0..MaxMinute) - t[minute] + u[minute]
    <3> DEFINE minutes == 0..MaxMinute
    <3>1. minute \in minutes /\ IsFiniteSet(minutes)
      BY <1>4, <2>1
    <3>2. \A m \in minutes : t[m] \in Int /\ u[m] \in Int
      BY <2>3
    <3>3. \A m \in minutes \ {minute} : t[m] = u[m]
      BY <2>4
    <3> SUFFICES SumFunctionOnSet(u, minutes) = SumFunctionOnSet(t, minutes) - t[minute] + u[minute]
      OBVIOUS
    <3> HIDE DEF minutes
    <3> QED BY <3>1, <3>2, <3>3, SumChanges
  <2>8. SumFunctionOnSet(t, 0..MaxMinute) = SumFunction(Totals) /\ SumFunctionOnSet(u, 0..MaxMinute) = SumFunction(Totals)'
    BY <2>1, <2>2 DEF t, u
  <2> QED BY <1>4, <2>1, <2>5, <2>6, <2>7, <2>8
<1>10. MinutesAreRequests'
  <2>1. SumFunction(Totals) + pendingMinute.total + metricEvents <= passed + blocks
    BY <1>3 DEF MinutesAreRequests
  <2> QED BY <1>1, <1>4, <1>6, <1>9, <2>1 DEF MinutesAreRequests
<1>11. EventsAreBlocks'
  BY <1>1, <1>3 DEF EventsAreBlocks
<1> QED BY <1>7, <1>8, <1>10, <1>11 DEF MetricsInv

\* The hour before the current one is added up.
LEMMA HourIsAggregated == ASSUME MetricsInv, AggregateHourlyStats PROVE MetricsInv'
<1>1. /\ minute >= nextHourly /\ nextHourly' = minute + MinutesPerHour - ((minute - nextHourly) % MinutesPerHour)
      /\ UNCHANGED <<minute, pendingMinute, metricEvents, eventChan, batch, interceptEvents, minuteStats, passed, blocks>>
      /\ \/ UNCHANGED hourlyStats
         \/ hourlyStats' = [hourlyStats EXCEPT ![AggregatedHour] = HourTotal(AggregatedHour)]
  BY DEF AggregateHourlyStats, StoreHour, queues, requests, counters
<1>2. MetricsTyping /\ HoursAreFinal /\ EventsAreBlocks /\ MinutesAreRequests
  BY DEF MetricsInv
<1>3. nextHourly' \in Nat /\ nextHourly' >= MinutesPerHour /\ minute >= MinutesPerHour /\ minute \in Nat
  <2>1. minute \in Nat /\ nextHourly \in Nat /\ nextHourly >= MinutesPerHour /\ minute >= nextHourly
        /\ MinutesPerHour \in Nat \ {0}
    BY <1>1, <1>2, MetricsAssumption DEF MetricsTyping
  <2>2. minute - nextHourly \in Nat
    BY <2>1
  <2>3. \A a \in Nat, b \in Nat \ {0} : a % b \in Nat /\ a % b < b /\ a % b <= a
    OBVIOUS
  <2> DEFINE late == (minute - nextHourly) % MinutesPerHour
  <2>4. late \in Nat /\ late < MinutesPerHour /\ late <= minute - nextHourly
    BY <2>1, <2>2, <2>3
  <2>5. nextHourly' = minute + MinutesPerHour - late
    BY <1>1
  <2> HIDE DEF late
  <2> QED BY <2>1, <2>4, <2>5
<1>4. /\ DOMAIN hourlyStats' = 0..Hour(MaxMinute)
      /\ \A h \in 0..Hour(MaxMinute) :
           \/ hourlyStats'[h] = hourlyStats[h]
           \/ h = AggregatedHour /\ hourlyStats'[h] = HourTotal(h)
      /\ hourlyStats' = [h \in 0..Hour(MaxMinute) |-> hourlyStats'[h]]
  <2>1. DOMAIN hourlyStats = 0..Hour(MaxMinute) /\ hourlyStats = [h \in 0..Hour(MaxMinute) |-> hourlyStats[h]]
    BY <1>2 DEF MetricsTyping
  <2> DEFINE total == HourTotal(AggregatedHour)
             hour == AggregatedHour
  <2>2. UNCHANGED hourlyStats \/ hourlyStats' = [hourlyStats EXCEPT ![hour] = total]
    BY <1>1
  <2> HIDE DEF total, hour
  <2>3. /\ DOMAIN hourlyStats' = 0..Hour(MaxMinute)
        /\ \A h \in 0..Hour(MaxMinute) :
             hourlyStats'[h] = hourlyStats[h] \/ (h = hour /\ hourlyStats'[h] = total)
        /\ hourlyStats' = [h \in 0..Hour(MaxMinute) |-> hourlyStats'[h]]
    BY <2>1, <2>2
  <2> QED BY <2>3 DEF total, hour
<1>5. MetricsTyping'
  BY <1>1, <1>2, <1>3, <1>4 DEF MetricsTyping
<1>6. \A h : HourTotal(h)' = HourTotal(h)
  BY <1>1 DEF HourTotal, Totals, BlockTotals
<1>7. HoursAreFinal'
  <2>1. AggregatedHour < Hour(minute)
    BY <1>3, Hours DEF AggregatedHour
  <2>2. DOMAIN hourlyStats = 0..Hour(MaxMinute)
    BY <1>2 DEF MetricsTyping
  <2> SUFFICES ASSUME NEW h \in 0..Hour(MaxMinute), hourlyStats'[h] # NoCount
               PROVE  h < Hour(minute) /\ hourlyStats'[h] = HourTotal(h)
    BY <1>1, <1>4, <1>6 DEF HoursAreFinal
  <2> QED BY <1>2, <1>4, <2>1, <2>2 DEF HoursAreFinal
<1>8. EventsAreBlocks' /\ MinutesAreRequests'
  BY <1>1, <1>2 DEF EventsAreBlocks, MinutesAreRequests, Totals
<1> QED BY <1>5, <1>7, <1>8 DEF MetricsInv

LEMMA MinuteIsOver == ASSUME MetricsInv, MinutePasses PROVE MetricsInv'
<1>1. /\ minute < MaxMinute /\ minute' = minute + 1
      /\ UNCHANGED <<nextHourly, pendingMinute, metricEvents, eventChan, batch, interceptEvents, minuteStats,
                     hourlyStats, passed, blocks>>
  BY DEF MinutePasses, queues, requests, counters, statsTables
<1>2. MetricsTyping /\ HoursAreFinal /\ EventsAreBlocks /\ MinutesAreRequests /\ minute \in Nat /\ MaxMinute \in Nat
  BY MetricsAssumption DEF MetricsInv, MetricsTyping
<1>3. MetricsTyping'
  BY <1>1, <1>2 DEF MetricsTyping
<1>4. \A h : HourTotal(h)' = HourTotal(h)
  BY <1>1 DEF HourTotal, Totals, BlockTotals
<1>5. HoursAreFinal'
  <2>1. Hour(minute) \in Nat /\ Hour(minute + 1) \in Nat /\ Hour(minute) <= Hour(minute + 1) /\ Hour(MaxMinute) \in Nat
    <3>1. minute + 1 \in Nat /\ minute <= minute + 1
      BY <1>2
    <3> QED BY <1>2, <3>1, Hours
  <2>2. DOMAIN hourlyStats = 0..Hour(MaxMinute)
    BY <1>2 DEF MetricsTyping
  <2> SUFFICES ASSUME NEW h \in 0..Hour(MaxMinute), hourlyStats[h] # NoCount
               PROVE  h < Hour(minute + 1) /\ hourlyStats[h] = HourTotal(h)
    BY <1>1, <1>4, <2>2 DEF HoursAreFinal
  <2>3. h < Hour(minute) /\ hourlyStats[h] = HourTotal(h)
    BY <1>2, <2>2 DEF HoursAreFinal
  <2> QED BY <2>1, <2>3
<1>6. EventsAreBlocks' /\ MinutesAreRequests'
  BY <1>1, <1>2 DEF EventsAreBlocks, MinutesAreRequests, Totals
<1> QED BY <1>3, <1>5, <1>6 DEF MetricsInv

LEMMA MetricsStart == MetricsInit => MetricsInv
<1> SUFFICES ASSUME MetricsInit PROVE MetricsInv
  OBVIOUS
<1>1. /\ minute = 0 /\ nextHourly = MinutesPerHour /\ pendingMinute = NoCount
      /\ metricEvents = 0 /\ eventChan = 0 /\ batch = 0 /\ interceptEvents = 0
      /\ minuteStats = [m \in 0..MaxMinute |-> NoCount]
      /\ hourlyStats = [h \in 0..Hour(MaxMinute) |-> NoCount] /\ passed = 0 /\ blocks = 0
  BY DEF MetricsInit
<1>2. NoCount \in CountRecords /\ NoCount.total = 0 /\ MaxMinute \in Nat /\ MinutesPerHour \in Nat
  BY MetricsAssumption DEF NoCount, Count, CountRecords
<1>3. MetricsTyping
  BY <1>1, <1>2 DEF MetricsTyping
<1>4. HoursAreFinal
  BY <1>1 DEF HoursAreFinal
<1>5. EventsAreBlocks
  BY <1>1 DEF EventsAreBlocks
<1>6. MinutesAreRequests
  <2>1. \A m \in 0..MaxMinute : Totals[m] = 0
    BY <1>1, <1>2 DEF Totals
  <2>2. SumFunction(Totals) = 0
    BY <1>3, <2>1, MinuteSums, SumOfZeros
  <2> QED BY <1>1, <1>2, <2>2 DEF MinutesAreRequests
<1> QED BY <1>3, <1>4, <1>5, <1>6 DEF MetricsInv

\* What is added up of the day.
DayTyping ==
  /\ dailyStats \in CountRecords /\ pendingTotal \in Nat /\ pendingBlocked \in Nat /\ arrived \in Nat
  /\ addedHours \subseteq 0..Hour(MaxMinute) /\ addedAgain \in BOOLEAN
AddedHoursArePast == \A h \in addedHours : h < Hour(minute)
TotalSum == SumFunctionOnSet(HourTotals, addedHours)
BlockSum == SumFunctionOnSet(HourBlocks, addedHours)
DayInv == DayTyping /\ AddedHoursArePast /\ (addedAgain \/ DayCountsTwice)

LEMMA HoursAreCounts ==
  ASSUME MetricsTyping
  PROVE  /\ \A h : HourTotal(h) \in CountRecords
         /\ \A h \in 0..Hour(MaxMinute) : /\ HourTotals[h] = HourTotal(h).total /\ HourTotals[h] \in Nat
                                          /\ HourBlocks[h] = HourTotal(h).blocked /\ HourBlocks[h] \in Nat
         /\ IsFiniteSet(0..Hour(MaxMinute))
<1>1. ASSUME NEW h PROVE HourTotal(h) \in CountRecords
  <2>1. IsFiniteSet(MinutesOf(h)) /\ MinutesOf(h) \subseteq 0..MaxMinute
    <3>1. IsFiniteSet(0..MaxMinute) /\ MinutesOf(h) \subseteq 0..MaxMinute
      BY MetricsAssumption, FS_Interval DEF MinutesOf
    <3> QED BY <3>1, FS_Subset
  <2>2. \A m \in MinutesOf(h) : Totals[m] \in Nat /\ BlockTotals[m] \in Nat
    BY <2>1 DEF Totals, BlockTotals, MetricsTyping, CountRecords
  <2>3. SumFunctionOnSet(Totals, MinutesOf(h)) \in Nat /\ SumFunctionOnSet(BlockTotals, MinutesOf(h)) \in Nat
    BY <2>1, <2>2, SumOfNats
  <2> QED BY <2>3 DEF HourTotal, Count, CountRecords
<1>2. \A h \in 0..Hour(MaxMinute) : HourTotals[h] = HourTotal(h).total /\ HourBlocks[h] = HourTotal(h).blocked
  BY DEF HourTotals, HourBlocks
<1>3. \A h : HourTotal(h).total \in Nat /\ HourTotal(h).blocked \in Nat
  BY <1>1 DEF CountRecords
<1>4. IsFiniteSet(0..Hour(MaxMinute))
  <2>1. Hour(MaxMinute) \in Nat
    BY MetricsAssumption, Hours
  <2> QED BY <2>1, FS_Interval
<1> QED BY <1>1, <1>2, <1>3, <1>4

LEMMA DaySums ==
  ASSUME MetricsTyping, DayTyping
  PROVE  TotalSum \in Nat /\ BlockSum \in Nat /\ IsFiniteSet(addedHours)
<1>1. IsFiniteSet(addedHours)
  BY HoursAreCounts, FS_Subset DEF DayTyping
<1>2. \A h \in addedHours : HourTotals[h] \in Nat /\ HourBlocks[h] \in Nat
  BY HoursAreCounts DEF DayTyping
<1> QED BY <1>1, <1>2, SumOfNats DEF TotalSum, BlockSum

LEMMA DayIs ==
  ASSUME TRUE
  PROVE  DayCountsTwice <=>
           /\ TotalSum <= dailyStats.total
           /\ dailyStats.total + pendingTotal <= arrived + TotalSum
           /\ BlockSum <= dailyStats.blocked
           /\ dailyStats.blocked + pendingBlocked + metricEvents <= blocks + BlockSum
BY DEF DayCountsTwice, TotalSum, BlockSum

\* The hours of the day stay what they were while minutes are written.
LEMMA DaySumsStay ==
  ASSUME MetricsTyping, DayTyping, addedHours' = addedHours,
         \A h \in addedHours : HourTotal(h)' = HourTotal(h)
  PROVE  TotalSum' = TotalSum /\ BlockSum' = BlockSum
<1>1. \A h \in addedHours : h \in 0..Hour(MaxMinute)
  BY DEF DayTyping
<1>2. \A h \in addedHours : HourTotals'[h] = HourTotals[h] /\ HourBlocks'[h] = HourBlocks[h]
  BY <1>1 DEF HourTotals, HourBlocks
<1>3. IsFiniteSet(addedHours)
  BY DaySums
<1>4. /\ SumFunctionOnSet(HourTotals', addedHours) = SumFunctionOnSet(HourTotals, addedHours)
      /\ SumFunctionOnSet(HourBlocks', addedHours) = SumFunctionOnSet(HourBlocks, addedHours)
  BY <1>2, <1>3, SumOfTheSame
<1> QED BY <1>4 DEF TotalSum, BlockSum

\* What comes and is written between two aggregations.
LEMMA DayIsKept ==
  ASSUME MetricsInv, DayInv,
         CountRequest \/ RecordPass \/ RecordBlock \/ WriteMetricEvent \/ ReceiveEvent \/ FlushEventBatch
           \/ FlushCounters \/ RestartMetrics \/ UNCHANGED metricsVars
  PROVE  DayInv'
<1> USE DEF counters, queues, statsTables, requests, day
<1>1. UNCHANGED <<minute, minuteStats, hourlyStats, addedHours, addedAgain>>
  BY DEF CountRequest, RecordPass, RecordBlock, WriteMetricEvent, ReceiveEvent, FlushEventBatch,
         FlushCounters, RestartMetrics, metricsVars
<1>2. MetricsTyping /\ DayTyping
  BY DEF MetricsInv, DayInv
<1>3. TotalSum \in Nat /\ BlockSum \in Nat
  BY <1>2, DaySums
<1>4. TotalSum' = TotalSum /\ BlockSum' = BlockSum
  <2>1. \A h : HourTotal(h)' = HourTotal(h)
    BY <1>1 DEF HourTotal, Totals, BlockTotals
  <2> QED BY <1>1, <1>2, <2>1, DaySumsStay
<1> DEFINE dt == dailyStats.total
           db == dailyStats.blocked
           A == TotalSum
           B == BlockSum
           Typed == dailyStats' \in CountRecords /\ pendingTotal' \in Nat /\ pendingBlocked' \in Nat /\ arrived' \in Nat
           TotalsHold == A <= dailyStats'.total /\ dailyStats'.total + pendingTotal' <= arrived' + A
           BlocksHold == B <= dailyStats'.blocked
                      /\ dailyStats'.blocked + pendingBlocked' + metricEvents' <= blocks' + B
<1>5. SUFFICES Typed /\ (addedAgain \/ (TotalsHold /\ BlocksHold))
  <2>1. DayTyping' /\ AddedHoursArePast'
    BY <1>1, <1>2, <1>5 DEF DayInv, DayTyping, AddedHoursArePast
  <2>2. addedAgain' \/ DayCountsTwice'
    BY <1>1, <1>4, <1>5 DEF DayCountsTwice, TotalSum, BlockSum
  <2> QED BY <2>1, <2>2 DEF DayInv
<1>6. /\ dt \in Nat /\ db \in Nat /\ A \in Nat /\ B \in Nat /\ pendingTotal \in Nat /\ pendingBlocked \in Nat
      /\ arrived \in Nat /\ blocks \in Nat /\ metricEvents \in Nat /\ dailyStats \in CountRecords
  BY <1>2, <1>3 DEF DayTyping, MetricsTyping, CountRecords
<1>7. addedAgain \/ (/\ A <= dt /\ dt + pendingTotal <= arrived + A
                     /\ B <= db /\ db + pendingBlocked + metricEvents <= blocks + B)
  BY DayIs DEF DayInv
<1> HIDE DEF A, B
<1>8. CASE UNCHANGED <<dailyStats, pendingTotal, pendingBlocked, arrived, blocks, metricEvents>>
  BY <1>6, <1>7, <1>8
<1>9. CASE CountRequest
  <2>1. /\ arrived' = arrived + 1 /\ pendingTotal' = pendingTotal + 1
        /\ UNCHANGED <<dailyStats, pendingBlocked, blocks, metricEvents>>
    BY <1>9 DEF CountRequest
  <2> QED BY <1>6, <1>7, <2>1
<1>10. CASE RecordBlock
  <2>1. /\ blocks' = blocks + 1 /\ metricEvents' \in {metricEvents, metricEvents + 1}
        /\ UNCHANGED <<dailyStats, pendingTotal, pendingBlocked, arrived>>
    BY <1>10 DEF RecordBlock
  <2> QED BY <1>6, <1>7, <2>1
<1>11. CASE WriteMetricEvent
  <2>1. /\ metricEvents > 0 /\ metricEvents' = metricEvents - 1 /\ pendingBlocked' = pendingBlocked + 1
        /\ UNCHANGED <<dailyStats, pendingTotal, arrived, blocks>>
    BY <1>11 DEF WriteMetricEvent
  <2> QED BY <1>6, <1>7, <2>1
<1>12. CASE FlushCounters
  <2>1. /\ pendingTotal' = 0 /\ pendingBlocked' = 0
        /\ UNCHANGED <<arrived, blocks, metricEvents>>
        /\ dailyStats' \in {Plus(dailyStats, Count(pendingTotal, pendingBlocked)),
                            Plus(dailyStats, Count(pendingTotal, 0)),
                            Plus(dailyStats, Count(0, pendingBlocked)), dailyStats}
    BY <1>12 DEF FlushCounters
  <2>2. PICK x \in {0, pendingTotal}, y \in {0, pendingBlocked} :
          dailyStats'.total = dt + x /\ dailyStats'.blocked = db + y /\ dailyStats' \in CountRecords
    <3>1. \A x \in Nat, y \in Nat : /\ Plus(dailyStats, Count(x, y)).total = dt + x
                                    /\ Plus(dailyStats, Count(x, y)).blocked = db + y
                                    /\ Plus(dailyStats, Count(x, y)) \in CountRecords
      BY <1>6 DEF Plus, Count, CountRecords
    <3>2. dt = dt + 0 /\ db = db + 0
      BY <1>6
    <3> HIDE DEF dt, db
    <3>3. CASE dailyStats' = dailyStats
      BY <1>6, <3>2, <3>3 DEF dt, db
    <3>4. ASSUME NEW x \in {0, pendingTotal}, NEW y \in {0, pendingBlocked},
                 dailyStats' = Plus(dailyStats, Count(x, y))
          PROVE  dailyStats'.total = dt + x /\ dailyStats'.blocked = db + y /\ dailyStats' \in CountRecords
      <4>1. x \in Nat /\ y \in Nat
        BY <1>6
      <4> QED BY <3>1, <3>4, <4>1
    <3> QED BY <2>1, <3>3, <3>4
  <2> QED BY <1>6, <1>7, <2>1, <2>2
<1>13. CASE RestartMetrics
  <2>1. /\ pendingTotal' = 0 /\ pendingBlocked' = 0 /\ metricEvents' = 0
        /\ UNCHANGED <<dailyStats, arrived, blocks>>
    BY <1>13 DEF RestartMetrics
  <2> QED BY <1>6, <1>7, <2>1
<1>14. CASE RecordPass \/ ReceiveEvent \/ FlushEventBatch \/ UNCHANGED metricsVars
  BY <1>8, <1>14 DEF RecordPass, ReceiveEvent, FlushEventBatch, metricsVars
<1> QED BY <1>9, <1>10, <1>11, <1>12, <1>13, <1>14

\* Minutes are written, and pass, after the hours that were added to the day.
LEMMA DayOutlivesMinutes ==
  ASSUME MetricsInv, DayInv, FlushMinuteStats \/ MinutePasses
  PROVE  DayInv'
<1> USE DEF counters, queues, statsTables, requests, day
<1>1. /\ UNCHANGED <<dailyStats, addedHours, addedAgain, pendingTotal, pendingBlocked, arrived, blocks, metricEvents>>
      /\ \/ minute' = minute /\ (minuteStats' = minuteStats
                                   \/ minuteStats' = [minuteStats EXCEPT ![minute] = Plus(@, pendingMinute)])
         \/ minute' = minute + 1 /\ minuteStats' = minuteStats
  BY DEF FlushMinuteStats, MinutePasses
<1>2. MetricsTyping /\ DayTyping /\ AddedHoursArePast
  BY DEF MetricsInv, DayInv
<1>3. minute \in Nat /\ minute + 1 \in Nat /\ MaxMinute \in Nat /\ minuteStats \in [0..MaxMinute -> CountRecords]
  BY <1>2, MetricsAssumption DEF MetricsTyping
<1>4. ASSUME NEW h \in addedHours PROVE HourTotal(h)' = HourTotal(h)
  <2>1. Hour(minute) \in Nat /\ Hour(MaxMinute) \in Nat /\ h \in 0..Hour(MaxMinute) /\ h < Hour(minute)
    BY <1>2, <1>3, Hours DEF DayTyping, AddedHoursArePast
  <2>2. \A m \in MinutesOf(h) : m \in 0..MaxMinute /\ m # minute
    BY <2>1 DEF MinutesOf
  <2>3. \A m \in MinutesOf(h) : minuteStats'[m] = minuteStats[m]
    BY <1>1, <1>3, <2>2
  <2>4. \A m \in MinutesOf(h) : Totals'[m] = Totals[m] /\ BlockTotals'[m] = BlockTotals[m]
    BY <2>2, <2>3 DEF Totals, BlockTotals
  <2>5. IsFiniteSet(MinutesOf(h))
    <3>1. IsFiniteSet(0..MaxMinute) /\ MinutesOf(h) \subseteq 0..MaxMinute
      BY MetricsAssumption, FS_Interval DEF MinutesOf
    <3> QED BY <3>1, FS_Subset
  <2>6. /\ SumFunctionOnSet(Totals', MinutesOf(h)) = SumFunctionOnSet(Totals, MinutesOf(h))
        /\ SumFunctionOnSet(BlockTotals', MinutesOf(h)) = SumFunctionOnSet(BlockTotals, MinutesOf(h))
    BY <2>4, <2>5, SumOfTheSame
  <2> QED BY <2>6 DEF HourTotal
<1>5. TotalSum' = TotalSum /\ BlockSum' = BlockSum
  BY <1>1, <1>2, <1>4, DaySumsStay
<1>6. addedAgain' \/ DayCountsTwice'
  BY <1>1, <1>5 DEF DayInv, DayCountsTwice, TotalSum, BlockSum
<1>7. AddedHoursArePast'
  <2>1. minute <= minute + 1
    BY <1>3
  <2>2. Hour(minute) \in Nat /\ Hour(minute + 1) \in Nat /\ Hour(minute) <= Hour(minute + 1) /\ Hour(MaxMinute) \in Nat
    BY <1>3, <2>1, Hours
  <2>3. Hour(minute') \in {Hour(minute), Hour(minute + 1)}
    BY <1>1
  <2>4. \A h \in addedHours : h \in 0..Hour(MaxMinute) /\ h < Hour(minute)
    BY <1>2 DEF DayTyping, AddedHoursArePast
  <2>5. \A h \in addedHours : h < Hour(minute')
    BY <2>2, <2>3, <2>4
  <2> QED BY <1>1, <2>5 DEF AddedHoursArePast, Hour
<1>8. DayTyping'
  BY <1>1, <1>2 DEF DayTyping
<1> QED BY <1>6, <1>7, <1>8 DEF DayInv

\* An hour is added to the day.
LEMMA HourIsAddedToDay == ASSUME MetricsInv, DayInv, AggregateHourlyStats PROVE DayInv'
<1> USE DEF counters, queues, requests, day
<1> DEFINE hour == AggregatedHour
           sum == HourTotal(AggregatedHour)
<1>1. /\ minute >= nextHourly
      /\ UNCHANGED <<minute, minuteStats, pendingTotal, pendingBlocked, arrived, blocks, metricEvents>>
      /\ \/ UNCHANGED <<dailyStats, addedHours, addedAgain>>
         \/ /\ dailyStats' = Plus(dailyStats, sum) /\ addedHours' = addedHours \cup {hour}
            /\ addedAgain' = (addedAgain \/ hour \in addedHours)
  BY DEF AggregateHourlyStats, AddToDay
<1>2. MetricsTyping /\ DayTyping /\ AddedHoursArePast
  BY DEF MetricsInv, DayInv
<1>3. \A h : HourTotal(h)' = HourTotal(h)
  BY <1>1 DEF HourTotal, Totals, BlockTotals
<1>4. HourTotals' = HourTotals /\ HourBlocks' = HourBlocks
  BY <1>3 DEF HourTotals, HourBlocks
<1>5. CASE UNCHANGED <<dailyStats, addedHours, addedAgain>>
  <2>1. TotalSum' = TotalSum /\ BlockSum' = BlockSum
    BY <1>4, <1>5 DEF TotalSum, BlockSum
  <2>2. addedAgain' \/ DayCountsTwice'
    BY <1>1, <1>5, <2>1 DEF DayInv, DayCountsTwice, TotalSum, BlockSum
  <2>3. DayTyping' /\ AddedHoursArePast'
    BY <1>1, <1>2, <1>5 DEF DayTyping, AddedHoursArePast
  <2> QED BY <2>2, <2>3 DEF DayInv
<1>6. CASE /\ dailyStats' = Plus(dailyStats, sum) /\ addedHours' = addedHours \cup {hour}
           /\ addedAgain' = (addedAgain \/ hour \in addedHours)
  <2>1. hour \in 0..Hour(MaxMinute) /\ hour < Hour(minute)
    <3>1. /\ minute \in Nat /\ minute <= MaxMinute /\ minute >= MinutesPerHour /\ MaxMinute \in Nat
          /\ MinutesPerHour \in Nat
      BY <1>1, <1>2, MetricsAssumption DEF MetricsTyping
    <3>2. Hour(minute) \in Nat /\ Hour(minute) >= 1 /\ Hour(minute) <= Hour(MaxMinute) /\ Hour(MaxMinute) \in Nat
      BY <3>1, Hours
    <3> QED BY <3>2 DEF AggregatedHour
  <2>2. sum \in CountRecords /\ HourTotals[hour] = sum.total /\ HourBlocks[hour] = sum.blocked
    BY <1>2, <2>1, HoursAreCounts
  <2> HIDE DEF hour, sum
  <2>3. /\ dailyStats.total \in Nat /\ dailyStats.blocked \in Nat /\ sum.total \in Nat /\ sum.blocked \in Nat
    BY <1>2, <2>2 DEF DayTyping, CountRecords
  <2>4. /\ dailyStats'.total = dailyStats.total + sum.total /\ dailyStats'.blocked = dailyStats.blocked + sum.blocked
        /\ dailyStats' \in CountRecords
    BY <1>6, <2>3 DEF Plus, Count, CountRecords
  <2>5. DayTyping'
    BY <1>1, <1>2, <1>6, <2>1, <2>4 DEF DayTyping
  <2>6. AddedHoursArePast'
    BY <1>1, <1>2, <1>6, <2>1 DEF AddedHoursArePast
  <2>7. ASSUME ~addedAgain' PROVE DayCountsTwice'
    <3>1. ~addedAgain /\ hour \notin addedHours
      BY <1>6, <2>7 DEF DayTyping
    <3>2. /\ TotalSum <= dailyStats.total /\ dailyStats.total + pendingTotal <= arrived + TotalSum
          /\ BlockSum <= dailyStats.blocked /\ dailyStats.blocked + pendingBlocked + metricEvents <= blocks + BlockSum
      BY <3>1, DayIs DEF DayInv
    <3>3. TotalSum \in Nat /\ BlockSum \in Nat /\ IsFiniteSet(addedHours)
      BY <1>2, DaySums
    <3> DEFINE now == addedHours \cup {hour}
    <3>4. /\ IsFiniteSet(now) /\ hour \in now /\ now \ {hour} = addedHours /\ now \subseteq 0..Hour(MaxMinute)
      <4>1. IsFiniteSet(addedHours \cup {hour})
        BY <3>3, FS_AddElement
      <4> QED BY <1>2, <2>1, <3>1, <4>1 DEF DayTyping
    <3>5. \A h \in now : HourTotals[h] \in Int /\ HourBlocks[h] \in Int
      BY <1>2, <3>4, HoursAreCounts
    <3>6. addedHours' = now
      BY <1>6
    <3> HIDE DEF now
    <3>7. /\ SumFunctionOnSet(HourTotals, now) = HourTotals[hour] + SumFunctionOnSet(HourTotals, now \ {hour})
          /\ SumFunctionOnSet(HourBlocks, now) = HourBlocks[hour] + SumFunctionOnSet(HourBlocks, now \ {hour})
      <4>1. IsFiniteSet(now) /\ hour \in now
        BY <3>4
      <4>2. \A h \in now : HourTotals[h] \in Int
        BY <3>5
      <4>3. \A h \in now : HourBlocks[h] \in Int
        BY <3>5
      <4>4. SumFunctionOnSet(HourTotals, now) = HourTotals[hour] + SumFunctionOnSet(HourTotals, now \ {hour})
        BY <4>1, <4>2, SumWithout
      <4>5. SumFunctionOnSet(HourBlocks, now) = HourBlocks[hour] + SumFunctionOnSet(HourBlocks, now \ {hour})
        BY <4>1, <4>3, SumWithout
      <4> QED BY <4>4, <4>5
    <3>8. TotalSum' = sum.total + TotalSum /\ BlockSum' = sum.blocked + BlockSum
      BY <1>4, <2>2, <3>4, <3>6, <3>7 DEF TotalSum, BlockSum
    <3>9. /\ pendingTotal \in Nat /\ pendingBlocked \in Nat /\ metricEvents \in Nat /\ arrived \in Nat /\ blocks \in Nat
      BY <1>2 DEF DayTyping, MetricsTyping
    <3>10. /\ TotalSum' <= dailyStats'.total /\ dailyStats'.total + pendingTotal' <= arrived' + TotalSum'
      BY <1>1, <2>3, <2>4, <3>2, <3>3, <3>8, <3>9
    <3>11. /\ BlockSum' <= dailyStats'.blocked
           /\ dailyStats'.blocked + pendingBlocked' + metricEvents' <= blocks' + BlockSum'
      BY <1>1, <2>3, <2>4, <3>2, <3>3, <3>8, <3>9
    <3> QED BY <3>10, <3>11 DEF DayCountsTwice, TotalSum, BlockSum
  <2> QED BY <2>5, <2>6, <2>7 DEF DayInv
<1> QED BY <1>1, <1>5, <1>6

LEMMA DayStart == MetricsInit => DayInv
<1> SUFFICES ASSUME MetricsInit PROVE DayInv
  OBVIOUS
<1>1. /\ dailyStats = NoCount /\ addedHours = {} /\ addedAgain = FALSE /\ pendingTotal = 0 /\ pendingBlocked = 0
      /\ arrived = 0 /\ blocks = 0 /\ metricEvents = 0
  BY DEF MetricsInit
<1>2. NoCount \in CountRecords /\ NoCount.total = 0 /\ NoCount.blocked = 0
  BY DEF NoCount, Count, CountRecords
<1>3. TotalSum = 0 /\ BlockSum = 0
  BY <1>1, SumOfNothing DEF TotalSum, BlockSum
<1>4. DayCountsTwice
  BY <1>1, <1>2, <1>3, DayIs
<1> QED BY <1>1, <1>2, <1>4 DEF DayInv, DayTyping, AddedHoursArePast

\* saveEvent, flushEventBatch, flushMinuteStats and AggregateHourlyStats of
\* infra/storage/metrics: events and minutes hold nothing twice, aggregated hours
\* are the sums of their minutes, and the day, to which flushCounters adds as well,
\* holds each of those hours a second time and nothing else twice, for any number of
\* requests, blocks, failures and restarts, any queues and any length of an hour.
THEOREM HistoryAlwaysAddsUp == MetricsSpec => []HistoryAddsUp
<1>1. MetricsInv /\ [MetricsNext]_metricsVars => MetricsInv'
  BY QueuesAddUp, MinuteIsFlushed, HourIsAggregated, MinuteIsOver DEF MetricsNext
<1>2. MetricsInv /\ DayInv /\ [MetricsNext]_metricsVars => DayInv'
  BY DayIsKept, DayOutlivesMinutes, HourIsAddedToDay DEF MetricsNext
<1>3. MetricsInv /\ DayInv => HistoryAddsUp
  BY DEF MetricsInv, DayInv, HoursAreFinal, EventsAreBlocks, MinutesAreRequests, HistoryAddsUp
<1> QED BY <1>1, <1>2, <1>3, MetricsStart, DayStart, PTL DEF MetricsSpec

-----------------------------------------------------------------------------
(* Reports, for any number of blocks, days, clean-ups and failures.          *)

\* The blocks of one address, path or rule, and those of some that were counted
\* on a day, or on some days; counts that do not exceed them; and
\* events that do not exceed the counts.
NumbersOf(hs, x) == {h \in 1..Len(hs) : hs[h] = x}
OfDay(H, k, d) == {h \in H : k[h] = d}
OfDays(H, k, T) == {h \in H : k[h] \in T}
CountsHold(hs, counts) ==
  \A x \in DOMAIN counts : counts[x] \in Nat /\ counts[x] <= Cardinality(NumbersOf(hs, x))
Behind(hs, events, counts) ==
  /\ events \subseteq [hit : 1..Len(hs), time : Nat] /\ IsFiniteSet(events)
  /\ \A x \in DOMAIN counts : Cardinality({e \in events : hs[e.hit] = x}) <= counts[x]

ReportsTyping ==
  /\ tick \in 0..LastTick /\ cutoff \in Int
  /\ hits \in Seq(Listed) /\ Len(hits) <= MaxHits
  /\ toWrite \in Seq(1..Len(hits)) /\ writing \in 0..Len(hits) /\ unsaved \subseteq 1..Len(hits)
  /\ rows \subseteq [hit : 1..Len(hits), time : 0..LastTick]
  /\ dayCounts \in [Dates -> [Listed -> Nat]]
  /\ countedOn \in [1..MaxHits -> Int]

\* A block goes through its steps in the order of the queue, and through each
\* of them once: what waits is younger than what was saved, written or counted.
InTurn ==
  /\ \A i, j \in DOMAIN toWrite : i < j => toWrite[i] < toWrite[j]
  /\ \A i \in DOMAIN toWrite :
       /\ writing < toWrite[i]
       /\ \A h \in unsaved : h < toWrite[i]
       /\ \A r \in rows : r.hit < toWrite[i]
       /\ \A h \in 1..MaxHits : countedOn[h] # NoTime => h < toWrite[i]
  /\ \A h \in 1..MaxHits : countedOn[h] # NoTime => h <= Len(hits) /\ h # writing
WrittenOnce ==
  /\ \A r \in rows : r.hit \notin unsaved
  /\ \A r, s \in rows : r.hit = s.hit => r = s

\* A day is counted in full, or is over and deleted together with its events.
DaysAreWhole ==
  \A d \in Dates :
    \/ \A x \in Listed : dayCounts[d][x] = Cardinality(OfDay(NumbersOf(hits, x), countedOn, d))
    \/ /\ d < Date(tick)
       /\ \A x \in Listed : dayCounts[d][x] = 0
       /\ \A r \in rows : Date(r.time) # d
CleanupIsPast == cutoff # NoTime => cutoff <= tick /\ \A r \in rows : cutoff <= r.time

InWindow(r) == {e \in r.before \ r.late : r.window.from <= e.time /\ e.time <= r.window.to}
ReadingAgrees ==
  reading # NoReading =>
    CountsHold(hits, reading.counts) /\ Behind(hits, InWindow(reading), reading.counts)
AnswerAgrees ==
  shown # NoAnswer =>
    /\ CountsHold(hits, shown.counts)
    /\ shown.source = "database" => Behind(hits, shown.details \ shown.late, shown.counts)

StoreInv == ReportsTyping /\ InTurn /\ WrittenOnce /\ DaysAreWhole /\ CleanupIsPast
ReportsInv == StoreInv /\ ReadingAgrees /\ AnswerAgrees

\* Days, like hours, come in the order of their times.
LEMMA DaysInOrder == \A t, u \in Int : Date(t) \in Int /\ (t <= u => Date(t) <= Date(u))
<1>1. TicksPerDay \in Nat \ {0}
  BY ReportsAssumption
<1>2. \A n \in Nat \ {0}, t, u \in Int : t \div n \in Int /\ (t <= u => t \div n <= u \div n)
  OBVIOUS
<1> QED BY <1>1, <1>2 DEF Date

\* The number of what falls under some days is the sum of what falls under each.
LEMMA SumOfDays ==
  ASSUME NEW H, IsFiniteSet(H), NEW k, NEW D, IsFiniteSet(D), NEW f,
         \A d \in D : f[d] = Cardinality(OfDay(H, k, d))
  PROVE  SumFunctionOnSet(f, D) = Cardinality(OfDays(H, k, D))
<1> DEFINE G == {T \in SUBSET D : SumFunctionOnSet(f, T) = Cardinality(OfDays(H, k, T))}
<1>1. {} \in G
  <2>1. OfDays(H, k, {}) = {}
    BY DEF OfDays
  <2> QED BY <2>1, SumOfNothing, FS_EmptySet
<1>2. ASSUME NEW T \in SUBSET D, T # {}, \A x \in T : T \ {x} \in G PROVE T \in G
  <2> DEFINE c == Chosen(T)
             R == T \ {c}
             one == OfDay(H, k, c)
             rest == OfDays(H, k, R)
  <2>1. IsFiniteSet(T) /\ IsFiniteSet(one) /\ IsFiniteSet(rest)
    BY FS_Subset DEF OfDay, OfDays
  <2>2. c \in T /\ SumFunctionOnSet(f, T) = f[c] + SumFunctionOnSet(f, R)
    BY <1>2, <2>1, SumOfOneMore
  <2>3. f[c] = Cardinality(one) /\ SumFunctionOnSet(f, R) = Cardinality(rest)
    BY <1>2, <2>2
  <2>4. one \cup rest = OfDays(H, k, T) /\ one \cap rest = {}
    BY <2>2 DEF OfDay, OfDays
  <2> HIDE DEF c, R, one, rest
  <2>5. Cardinality(OfDays(H, k, T)) = Cardinality(one) + Cardinality(rest) - Cardinality({})
    BY <2>1, <2>4, FS_Union
  <2>6. Cardinality(one) \in Nat /\ Cardinality(rest) \in Nat /\ Cardinality({}) = 0
    BY <2>1, FS_CardinalityType, FS_EmptySet
  <2>7. SumFunctionOnSet(f, T) = Cardinality(OfDays(H, k, T))
    BY <2>2, <2>3, <2>5, <2>6
  <2> QED BY <2>7
<1> HIDE DEF G
<1>3. D \in G
  BY <1>1, <1>2, FromTheEmptySet
<1> QED BY <1>3 DEF G

LEMMA NumbersAreFinite ==
  ASSUME NEW hs, Len(hs) \in Nat, NEW x
  PROVE  IsFiniteSet(NumbersOf(hs, x)) /\ Cardinality(NumbersOf(hs, x)) \in Nat
<1>1. IsFiniteSet(1..Len(hs))
  BY FS_Interval
<1>2. IsFiniteSet(NumbersOf(hs, x))
  BY <1>1, FS_Subset DEF NumbersOf
<1> QED BY <1>2, FS_CardinalityType

\* Another block takes nothing back.
LEMMA OneMoreBlock ==
  ASSUME NEW hs \in Seq(Listed), NEW y \in Listed, NEW counts
  PROVE  /\ CountsHold(hs, counts) => CountsHold(Append(hs, y), counts)
         /\ \A events : Behind(hs, events, counts) => Behind(Append(hs, y), events, counts)
<1> DEFINE gs == Append(hs, y)
<1>1. Len(hs) \in Nat /\ Len(gs) = Len(hs) + 1 /\ \A h \in 1..Len(hs) : gs[h] = hs[h]
  OBVIOUS
<1> HIDE DEF gs
<1>2. ASSUME NEW x PROVE Cardinality(NumbersOf(hs, x)) <= Cardinality(NumbersOf(gs, x))
                         /\ Cardinality(NumbersOf(hs, x)) \in Nat /\ Cardinality(NumbersOf(gs, x)) \in Nat
  <2>1. NumbersOf(hs, x) \subseteq NumbersOf(gs, x)
    BY <1>1 DEF NumbersOf
  <2>2. IsFiniteSet(NumbersOf(gs, x)) /\ Cardinality(NumbersOf(gs, x)) \in Nat /\ Cardinality(NumbersOf(hs, x)) \in Nat
    BY <1>1, NumbersAreFinite
  <2> QED BY <2>1, <2>2, FS_Subset
<1>3. CountsHold(hs, counts) => CountsHold(gs, counts)
  BY <1>2 DEF CountsHold
<1>4. ASSUME NEW events, Behind(hs, events, counts) PROVE Behind(gs, events, counts)
  <2>1. events \subseteq [hit : 1..Len(hs), time : Nat] /\ IsFiniteSet(events)
    BY <1>4 DEF Behind
  <2>2. events \subseteq [hit : 1..Len(gs), time : Nat]
    BY <1>1, <2>1
  <2>3. ASSUME NEW x PROVE {e \in events : gs[e.hit] = x} = {e \in events : hs[e.hit] = x}
    BY <1>1, <2>1
  <2> QED BY <1>4, <2>1, <2>2, <2>3 DEF Behind
<1> QED BY <1>3, <1>4 DEF gs

\* Fewer events, no more of each kind.
LEMMA FewerEvents ==
  ASSUME NEW hs, NEW counts, NEW events, NEW fewer, fewer \subseteq events,
         CountsHold(hs, counts), Behind(hs, events, counts)
  PROVE  Behind(hs, fewer, counts)
<1>1. events \subseteq [hit : 1..Len(hs), time : Nat] /\ IsFiniteSet(events) /\ IsFiniteSet(fewer)
  BY FS_Subset DEF Behind
<1>2. ASSUME NEW x \in DOMAIN counts PROVE Cardinality({e \in fewer : hs[e.hit] = x}) <= counts[x]
  <2> DEFINE A == {e \in events : hs[e.hit] = x}
             B == {e \in fewer : hs[e.hit] = x}
  <2>1. B \subseteq A /\ IsFiniteSet(A) /\ IsFiniteSet(B)
    BY <1>1, FS_Subset
  <2>2. Cardinality(A) <= counts[x] /\ counts[x] \in Nat
    BY <1>2 DEF Behind, CountsHold
  <2> HIDE DEF A, B
  <2>3. Cardinality(B) <= Cardinality(A) /\ Cardinality(A) \in Nat /\ Cardinality(B) \in Nat
    BY <2>1, FS_Subset, FS_CardinalityType
  <2>4. Cardinality(B) <= counts[x]
    BY <2>2, <2>3
  <2> QED BY <2>4 DEF B
<1> QED BY <1>1, <1>2 DEF Behind

\* What is stored, and one query of it: the counts of the days of a window are no
\* more than the blocks, and no less than the events of the window that were
\* counted on the day they were written.
LEMMA RowsAreFinite ==
  ASSUME StoreInv, NEW E \in SUBSET rows, NEW H, IsFiniteSet(H), \A e \in E : e.hit \in H
  PROVE  IsFiniteSet(E) /\ Cardinality(E) <= Cardinality(H)
<1> DEFINE f == [e \in E |-> e.hit]
<1>1. f \in Injection(E, H)
  <2>1. \A r, s \in E : r.hit = s.hit => r = s
    BY DEF StoreInv, WrittenOnce
  <2> QED BY <2>1 DEF Injection, IsInjective
<1> QED BY <1>1, FS_Injection

LEMMA StoredCountsAgree ==
  ASSUME StoreInv, NEW w, w.from \in Int, w.to \in Int, NEW x \in Listed
  PROVE  LET late == {r \in rows : countedOn[r.hit] # Date(r.time)}
             E == {e \in rows \ late : w.from <= e.time /\ e.time <= w.to}
         IN  /\ StoredCounts(w)[x] \in Nat
             /\ StoredCounts(w)[x] <= Cardinality(NumbersOf(hits, x))
             /\ IsFiniteSet(E) /\ E \subseteq [hit : 1..Len(hits), time : Nat]
             /\ Cardinality({e \in E : hits[e.hit] = x}) <= StoredCounts(w)[x]
<1> DEFINE late == {r \in rows : countedOn[r.hit] # Date(r.time)}
           E == {e \in rows \ late : w.from <= e.time /\ e.time <= w.to}
           Ex == {e \in E : hits[e.hit] = x}
           D == DatesOf(w)
           H == NumbersOf(hits, x)
           f == CountsOf(x)
           full == [d \in Dates |-> Cardinality(OfDay(H, countedOn, d))]
           Kept == {d \in Dates : f[d] = full[d]}
           L == OfDays(H, countedOn, D \cap Kept)
           low == [d \in Dates |-> Cardinality(OfDay(L, countedOn, d))]
<1>1. /\ tick \in 0..LastTick /\ Len(hits) \in Nat
      /\ rows \subseteq [hit : 1..Len(hits), time : 0..LastTick]
      /\ dayCounts \in [Dates -> [Listed -> Nat]]
  BY DEF StoreInv, ReportsTyping
<1>2. LastTick \in Nat /\ Date(LastTick) \in Int /\ IsFiniteSet(Dates) /\ D \subseteq Dates /\ IsFiniteSet(D)
  <2>1. LastTick \in Nat /\ Date(LastTick) \in Int
    BY ReportsAssumption, DaysInOrder
  <2>2. IsFiniteSet(Dates) /\ D \subseteq Dates
    BY <2>1, FS_Interval DEF Dates, DatesOf
  <2> QED BY <2>1, <2>2, FS_Subset
<1>3. IsFiniteSet(H) /\ Cardinality(H) \in Nat /\ IsFiniteSet(L) /\ Cardinality(L) \in Nat
  <2>1. IsFiniteSet(H) /\ Cardinality(H) \in Nat
    BY <1>1, NumbersAreFinite
  <2>2. L \subseteq H
    BY DEF OfDays
  <2> HIDE DEF L, H
  <2> QED BY <2>1, <2>2, FS_Subset, FS_CardinalityType
<1>4. ASSUME NEW d \in Dates
      PROVE  /\ f[d] = dayCounts[d][x] /\ f[d] \in Nat
             /\ full[d] = Cardinality(OfDay(H, countedOn, d)) /\ full[d] \in Nat
             /\ low[d] = Cardinality(OfDay(L, countedOn, d)) /\ low[d] \in Nat
             /\ f[d] = full[d] \/ (f[d] = 0 /\ \A r \in rows : Date(r.time) # d)
  <2>1. f[d] = dayCounts[d][x] /\ f[d] \in Nat
    BY <1>1, <1>4 DEF CountsOf
  <2>2. /\ full[d] = Cardinality(OfDay(H, countedOn, d))
        /\ low[d] = Cardinality(OfDay(L, countedOn, d))
    BY <1>4
  <2>3. IsFiniteSet(OfDay(H, countedOn, d)) /\ IsFiniteSet(OfDay(L, countedOn, d))
    <3>1. OfDay(H, countedOn, d) \subseteq H /\ OfDay(L, countedOn, d) \subseteq L
      BY DEF OfDay
    <3> HIDE DEF H, L
    <3> QED BY <1>3, <3>1, FS_Subset
  <2>4. full[d] \in Nat /\ low[d] \in Nat
    BY <2>2, <2>3, FS_CardinalityType
  <2>5. \/ dayCounts[d][x] = Cardinality(OfDay(H, countedOn, d))
        \/ dayCounts[d][x] = 0 /\ \A r \in rows : Date(r.time) # d
    BY <1>4 DEF StoreInv, DaysAreWhole
  <2> QED BY <2>1, <2>2, <2>4, <2>5
<1>17. \A d \in Dates : f[d] \in Int /\ full[d] \in Int /\ f[d] <= full[d]
  <2> SUFFICES ASSUME NEW d \in Dates PROVE f[d] \in Int /\ full[d] \in Int /\ f[d] <= full[d]
    OBVIOUS
  <2>1. f[d] \in Nat /\ full[d] \in Nat /\ (f[d] = full[d] \/ f[d] = 0)
    BY <1>4
  <2> HIDE DEF full, low, f, H
  <2> QED BY <2>1
<1> HIDE DEF full, low, f, H
<1>5. ASSUME NEW d \in Dates PROVE low[d] <= f[d] \/ d \notin D
  <2>1. CASE d \in Kept /\ d \in D
    <3>1. OfDay(L, countedOn, d) = OfDay(H, countedOn, d)
      BY <2>1 DEF OfDay, OfDays
    <3>2. low[d] = f[d] /\ f[d] \in Nat
      BY <1>4, <1>5, <2>1, <3>1
    <3> QED BY <3>2
  <2>2. CASE d \notin Kept
    <3>1. OfDay(L, countedOn, d) = {}
      BY <2>2 DEF OfDay, OfDays
    <3>2. low[d] = 0 /\ f[d] \in Nat
      BY <1>4, <1>5, <3>1, FS_EmptySet
    <3> QED BY <3>2
  <2> QED BY <2>1, <2>2
<1>6. ASSUME NEW e \in Ex PROVE e.hit \in L
  <2>1. e \in rows /\ countedOn[e.hit] = Date(e.time) /\ hits[e.hit] = x
        /\ w.from <= e.time /\ e.time <= w.to /\ e.hit \in 1..Len(hits) /\ e.time \in 0..LastTick
    BY <1>1, <1>6
  <2> DEFINE d == Date(e.time)
  <2>2. /\ d \in Int /\ Date(w.from) <= d /\ d <= Date(w.to) /\ Date(0) <= d /\ d <= Date(LastTick)
        /\ Date(0) = 0
    <3>1. e.time \in Int /\ LastTick \in Int /\ 0 <= e.time /\ e.time <= LastTick
      BY <1>2, <2>1
    <3>2. Date(0) = 0
      BY ReportsAssumption DEF Date
    <3>3. 0 \in Int /\ Date(0) \in Int /\ Date(w.from) \in Int /\ Date(w.to) \in Int /\ Date(LastTick) \in Int
      BY <1>2, DaysInOrder
    <3>4. Date(0) <= d /\ d <= Date(LastTick) /\ d \in Int
      BY <3>1, DaysInOrder
    <3>5. Date(w.from) <= d /\ d <= Date(w.to)
      BY <2>1, <3>1, DaysInOrder
    <3> QED BY <3>2, <3>3, <3>4, <3>5
  <2>3. d \in D /\ d \in Dates
    BY <1>2, <2>2 DEF DatesOf, Dates
  <2>4. f[d] = full[d]
    BY <1>4, <2>1, <2>3
  <2>5. e.hit \in H
    BY <2>1 DEF H, NumbersOf
  <2> QED BY <2>1, <2>3, <2>4, <2>5 DEF OfDays
<1>7. StoredCounts(w)[x] = SumFunctionOnSet(f, D)
  BY DEF StoredCounts, f
<1>8. Ex \subseteq rows /\ E \subseteq rows
  OBVIOUS
<1>9. Cardinality(OfDays(H, countedOn, D)) <= Cardinality(H) /\ OfDays(L, countedOn, D) = L
      /\ Cardinality(OfDays(H, countedOn, D)) \in Nat
  <2>1. OfDays(H, countedOn, D) \subseteq H /\ OfDays(L, countedOn, D) = L
    BY DEF OfDays
  <2> HIDE DEF L
  <2> QED BY <1>3, <2>1, FS_Subset, FS_CardinalityType
<1> HIDE DEF L, Ex, E, D, Kept, late
<1>10. SumFunctionOnSet(f, D) \in Nat
  BY <1>2, <1>4, SumOfNats
<1>11. SumFunctionOnSet(f, D) <= Cardinality(H)
  <2>1. SumFunctionOnSet(f, D) <= SumFunctionOnSet(full, D)
    <3>1. \A d \in D : f[d] \in Int /\ full[d] \in Int /\ f[d] <= full[d]
      BY <1>2, <1>17
    <3> QED BY <1>2, <3>1, SumAtMost
  <2>2. SumFunctionOnSet(full, D) = Cardinality(OfDays(H, countedOn, D))
    <3>1. \A d \in D : full[d] = Cardinality(OfDay(H, countedOn, d))
      BY <1>2, <1>4
    <3> QED BY <1>2, <1>3, <3>1, SumOfDays
  <2> QED BY <1>3, <1>9, <1>10, <2>1, <2>2
<1>12. Cardinality(L) <= SumFunctionOnSet(f, D)
  <2>1. SumFunctionOnSet(low, D) <= SumFunctionOnSet(f, D)
    <3>1. \A d \in D : low[d] \in Int /\ f[d] \in Int /\ low[d] <= f[d]
      BY <1>2, <1>4, <1>5
    <3> QED BY <1>2, <3>1, SumAtMost
  <2>2. SumFunctionOnSet(low, D) = Cardinality(OfDays(L, countedOn, D))
    <3>1. \A d \in D : low[d] = Cardinality(OfDay(L, countedOn, d))
      BY <1>2, <1>4
    <3> QED BY <1>2, <1>3, <3>1, SumOfDays
  <2> QED BY <1>9, <2>1, <2>2
<1>13. IsFiniteSet(Ex) /\ Cardinality(Ex) <= Cardinality(L) /\ Cardinality(Ex) \in Nat
  BY <1>3, <1>6, <1>8, RowsAreFinite, FS_CardinalityType
<1>14. IsFiniteSet(E)
  <2>1. IsFiniteSet(1..Len(hits)) /\ \A e \in E : e.hit \in 1..Len(hits)
    BY <1>1, <1>8, FS_Interval
  <2> QED BY <1>8, <2>1, RowsAreFinite
<1>15. E \subseteq [hit : 1..Len(hits), time : Nat]
  BY <1>1, <1>2, <1>8
<1>16. Cardinality(Ex) <= SumFunctionOnSet(f, D)
  BY <1>3, <1>10, <1>12, <1>13
<1> QED BY <1>7, <1>10, <1>11, <1>14, <1>15, <1>16 DEF Ex, E, late, H

\* What a step leaves alone.
LEMMA StoreStays ==
  ASSUME StoreInv, UNCHANGED <<tick, hits, queueVars, storedVars, countedOn, cutoff>>
  PROVE  StoreInv'
<1>1. /\ tick' = tick /\ hits' = hits /\ toWrite' = toWrite /\ writing' = writing
      /\ unsaved' = unsaved /\ rows' = rows /\ dayCounts' = dayCounts
      /\ countedOn' = countedOn /\ cutoff' = cutoff
  BY DEF queueVars, storedVars
<1>2. ReportsTyping' /\ InTurn'
  BY <1>1 DEF StoreInv, ReportsTyping, InTurn
<1>3. WrittenOnce' /\ DaysAreWhole' /\ CleanupIsPast'
  BY <1>1 DEF StoreInv, WrittenOnce, DaysAreWhole, CleanupIsPast
<1> QED BY <1>2, <1>3 DEF StoreInv

LEMMA ReadersStay ==
  ASSUME ReadingAgrees, AnswerAgrees, hits' = hits,
         reading' \in {reading, NoReading}, shown' \in {shown, NoAnswer}
  PROVE  ReadingAgrees' /\ AnswerAgrees'
<1>1. ReadingAgrees'
  BY DEF ReadingAgrees, InWindow
<1>2. AnswerAgrees'
  BY DEF AnswerAgrees
<1> QED BY <1>1, <1>2

\* recordBlock: the new block is the youngest.
LEMMA BlockIsReported == ASSUME ReportsInv, NEW y \in Listed, ReportBlock(y) PROVE ReportsInv'
<1> DEFINE n == Len(hits) + 1
<1>1. /\ hits' = Append(hits, y) /\ toWrite' = Append(toWrite, Len(hits')) /\ Len(hits) < MaxHits
      /\ tick' = tick /\ writing' = writing /\ unsaved' = unsaved /\ rows' = rows
      /\ dayCounts' = dayCounts /\ countedOn' = countedOn /\ cutoff' = cutoff
      /\ reading' = reading /\ shown' = shown
  BY DEF ReportBlock, storedVars, readerVars
<1>2. ReportsTyping /\ InTurn /\ WrittenOnce /\ DaysAreWhole /\ CleanupIsPast
  BY DEF ReportsInv, StoreInv
<1>3. /\ Len(hits) \in Nat /\ n \in 1..MaxHits /\ Len(hits') = n /\ hits' \in Seq(Listed)
      /\ \A h \in 1..Len(hits) : hits'[h] = hits[h]
  BY <1>1, <1>2, ReportsAssumption DEF ReportsTyping
<1>4. /\ toWrite' \in Seq(1..n) /\ Len(toWrite') = Len(toWrite) + 1 /\ toWrite'[Len(toWrite) + 1] = n
      /\ Len(toWrite) \in Nat
      /\ \A i \in 1..Len(toWrite) : toWrite'[i] = toWrite[i] /\ toWrite[i] \in 1..Len(hits)
  <2>1. toWrite \in Seq(1..Len(hits)) /\ toWrite' = Append(toWrite, n)
    BY <1>1, <1>2, <1>3 DEF ReportsTyping
  <2>2. toWrite \in Seq(1..n) /\ n \in 1..n
    <3>1. Len(toWrite) \in Nat /\ \A i \in 1..Len(toWrite) : toWrite[i] \in 1..n
      BY <1>3, <2>1
    <3> QED BY <1>3, <2>1, <3>1, SeqDef
  <2> QED BY <2>1, <2>2
<1>5. ReportsTyping'
  <2>1. /\ writing' \in 0..Len(hits') /\ unsaved' \subseteq 1..Len(hits')
        /\ rows' \subseteq [hit : 1..Len(hits'), time : 0..LastTick]
    BY <1>1, <1>2, <1>3 DEF ReportsTyping
  <2> QED BY <1>1, <1>2, <1>3, <1>4, <2>1 DEF ReportsTyping
<1>6. InTurn'
  <2>1. /\ writing \in 0..Len(hits) /\ unsaved \subseteq 1..Len(hits) /\ (\A r \in rows : r.hit \in 1..Len(hits))
    BY <1>2 DEF ReportsTyping
  <2>2. DOMAIN toWrite' = 1..(Len(toWrite) + 1) /\ DOMAIN toWrite = 1..Len(toWrite)
    BY <1>2, <1>4 DEF ReportsTyping
  <2>3. ASSUME NEW i \in DOMAIN toWrite'
        PROVE  \/ i \in DOMAIN toWrite /\ toWrite'[i] = toWrite[i] /\ toWrite[i] < n
               \/ toWrite'[i] = n /\ i = Len(toWrite) + 1
    <3>1. CASE i \in 1..Len(toWrite)
      <4>1. toWrite'[i] = toWrite[i] /\ toWrite[i] \in 1..Len(hits)
        BY <1>4, <3>1
      <4> QED BY <1>3, <2>2, <3>1, <4>1
    <3>2. CASE i = Len(toWrite) + 1
      BY <1>4, <3>2
    <3> QED BY <1>4, <2>2, <2>3, <3>1, <3>2
  <2>4. \A h \in 1..MaxHits : countedOn[h] # NoTime => h < n /\ h # writing
    BY <1>2, <1>3 DEF InTurn
  <2>5. ASSUME NEW i \in DOMAIN toWrite', NEW j \in DOMAIN toWrite', i < j PROVE toWrite'[i] < toWrite'[j]
    <3>1. i \in DOMAIN toWrite /\ toWrite'[i] = toWrite[i] /\ toWrite[i] < n
      BY <1>4, <2>2, <2>3, <2>5
    <3>2. CASE j \in DOMAIN toWrite /\ toWrite'[j] = toWrite[j]
      BY <1>2, <2>5, <3>1, <3>2 DEF InTurn
    <3>3. CASE toWrite'[j] = n
      BY <3>1, <3>3
    <3> QED BY <2>3, <3>2, <3>3
  <2>6. ASSUME NEW i \in DOMAIN toWrite'
        PROVE  /\ writing < toWrite'[i]
               /\ \A h \in unsaved : h < toWrite'[i]
               /\ \A r \in rows : r.hit < toWrite'[i]
               /\ \A h \in 1..MaxHits : countedOn[h] # NoTime => h < toWrite'[i]
    <3>1. CASE i \in DOMAIN toWrite /\ toWrite'[i] = toWrite[i]
      BY <1>2, <3>1 DEF InTurn
    <3>2. CASE toWrite'[i] = n
      BY <1>3, <2>1, <2>4, <3>2
    <3> QED BY <2>3, <3>1, <3>2
  <2>7. \A h \in 1..MaxHits : countedOn[h] # NoTime => h <= Len(hits') /\ h # writing
    BY <1>3, <2>4
  <2> QED BY <1>1, <2>5, <2>6, <2>7 DEF InTurn
<1>7. WrittenOnce' /\ CleanupIsPast'
  BY <1>1, <1>2 DEF WrittenOnce, CleanupIsPast
<1>8. DaysAreWhole'
  <2>1. ASSUME NEW d \in Dates, NEW x
        PROVE  OfDay(NumbersOf(hits', x), countedOn, d) = OfDay(NumbersOf(hits, x), countedOn, d)
    <3>1. d # NoTime
      BY <2>1, DaysInOrder, ReportsAssumption DEF Dates, NoTime
    <3>2. countedOn[n] = NoTime
      BY <1>2, <1>3 DEF InTurn
    <3>3. \A h : h \in 1..Len(hits') <=> h \in 1..Len(hits) \/ h = n
      BY <1>3
    <3> QED BY <1>3, <3>1, <3>2, <3>3 DEF OfDay, NumbersOf
  <2> QED BY <1>1, <1>2, <2>1 DEF DaysAreWhole
<1>9. ReadingAgrees' /\ AnswerAgrees'
  <2>1. hits \in Seq(Listed) /\ ReadingAgrees /\ AnswerAgrees
    BY <1>2 DEF ReportsTyping, ReportsInv
  <2>2. ReadingAgrees'
    BY <1>1, <2>1, OneMoreBlock DEF ReadingAgrees, InWindow
  <2>3. AnswerAgrees'
    BY <1>1, <2>1, OneMoreBlock DEF AnswerAgrees
  <2> QED BY <2>2, <2>3
<1> QED BY <1>5, <1>6, <1>7, <1>8, <1>9 DEF ReportsInv, StoreInv

\* The worker of metricEventCh: the oldest one leaves the queue.
LEMMA HitIsSaved == ASSUME ReportsInv, SaveHit PROVE ReportsInv'
<1> DEFINE n == toWrite[1]
<1>1. /\ writing = 0 /\ toWrite # <<>> /\ writing' = n /\ toWrite' = Tail(toWrite)
      /\ unsaved' = unsaved \cup {n}
      /\ tick' = tick /\ hits' = hits /\ rows' = rows /\ dayCounts' = dayCounts
      /\ countedOn' = countedOn /\ cutoff' = cutoff /\ reading' = reading /\ shown' = shown
  BY DEF SaveHit, storedVars, readerVars
<1>2. ReportsTyping /\ InTurn /\ WrittenOnce /\ DaysAreWhole /\ CleanupIsPast
  BY DEF ReportsInv, StoreInv
<1>3. toWrite \in Seq(1..Len(hits)) /\ Len(hits) \in Nat
  BY <1>2 DEF ReportsTyping
<1>4. /\ toWrite' \in Seq(1..Len(hits)) /\ 1 \in DOMAIN toWrite /\ n \in 1..Len(hits)
      /\ \A i \in DOMAIN toWrite' : i \in Nat /\ i + 1 \in DOMAIN toWrite /\ 1 < i + 1 /\ toWrite'[i] = toWrite[i + 1]
      /\ \A i \in DOMAIN toWrite : i \in Nat /\ toWrite[i] \in 1..Len(hits)
  BY <1>1, <1>3
<1> HIDE DEF n
<1>5. ReportsTyping'
  BY <1>1, <1>2, <1>4 DEF ReportsTyping
<1>6. InTurn'
  <2>1. ASSUME NEW i \in DOMAIN toWrite' PROVE n < toWrite'[i]
    BY <1>2, <1>4 DEF InTurn, n
  <2>2. ASSUME NEW i \in DOMAIN toWrite', NEW j \in DOMAIN toWrite', i < j PROVE toWrite'[i] < toWrite'[j]
    <3>1. i + 1 \in DOMAIN toWrite /\ j + 1 \in DOMAIN toWrite /\ i + 1 < j + 1
      BY <1>4, <2>2
    <3>2. toWrite[i + 1] < toWrite[j + 1]
      BY <1>2, <3>1 DEF InTurn
    <3> QED BY <1>4, <3>2
  <2>3. \A i \in DOMAIN toWrite' :
          /\ \A h \in unsaved : h < toWrite'[i]
          /\ \A r \in rows : r.hit < toWrite'[i]
          /\ \A h \in 1..MaxHits : countedOn[h] # NoTime => h < toWrite'[i]
    BY <1>2, <1>4 DEF InTurn
  <2>4. \A h \in 1..MaxHits : countedOn[h] # NoTime => h <= Len(hits) /\ h < n
    BY <1>2, <1>4 DEF InTurn, n
  <2>5. \A h \in 1..MaxHits : countedOn[h] # NoTime => h <= Len(hits) /\ h # n
    BY <1>4, <2>4
  <2> QED BY <1>1, <2>1, <2>2, <2>3, <2>5 DEF InTurn
<1>7. WrittenOnce'
  <2>1. \A r \in rows : r.hit < n /\ r.hit \in Nat
    BY <1>2, <1>4 DEF InTurn, ReportsTyping, n
  <2>2. \A r \in rows : r.hit # n
    BY <1>4, <2>1
  <2> QED BY <1>1, <1>2, <2>2 DEF WrittenOnce
<1>8. DaysAreWhole' /\ CleanupIsPast'
  BY <1>1, <1>2 DEF DaysAreWhole, CleanupIsPast
<1>9. ReadingAgrees' /\ AnswerAgrees'
  BY <1>1, ReadersStay DEF ReportsInv
<1> QED BY <1>5, <1>6, <1>7, <1>8, <1>9 DEF ReportsInv, StoreInv

\* The day that is counted now is one that is not over.
LEMMA HitIsCounted == ASSUME ReportsInv, CountHit PROVE ReportsInv'
<1>1. /\ writing # 0 /\ writing' = 0
      /\ tick' = tick /\ hits' = hits /\ toWrite' = toWrite /\ unsaved' = unsaved /\ rows' = rows
      /\ cutoff' = cutoff /\ reading' = reading /\ shown' = shown
  BY DEF CountHit, readerVars
<1>2. ReportsTyping /\ InTurn /\ WrittenOnce /\ DaysAreWhole /\ CleanupIsPast
  BY DEF ReportsInv, StoreInv
<1>3. /\ writing \in 1..Len(hits) /\ Len(hits) \in Nat /\ writing \in 1..MaxHits
      /\ hits[writing] \in Listed /\ countedOn[writing] = NoTime
  BY <1>1, <1>2, ReportsAssumption DEF ReportsTyping, InTurn
<1>4. /\ tick \in Int /\ Date(tick) \in Dates /\ Date(tick) \in Int /\ \A d \in Dates : d \in Int /\ d # NoTime
  <2>1. tick \in Int /\ LastTick \in Int /\ 0 <= tick /\ tick <= LastTick
    BY <1>2, ReportsAssumption DEF ReportsTyping
  <2>2. Date(tick) \in Int /\ Date(LastTick) \in Int /\ Date(0) \in Int /\ Date(0) <= Date(tick) /\ Date(tick) <= Date(LastTick)
    BY <2>1, DaysInOrder
  <2>3. Date(0) = 0
    BY ReportsAssumption DEF Date
  <2> QED BY <2>1, <2>2, <2>3 DEF Dates, NoTime
<1>5. ReadingAgrees' /\ AnswerAgrees'
  BY <1>1, ReadersStay DEF ReportsInv
<1>6. WrittenOnce' /\ CleanupIsPast'
  BY <1>1, <1>2 DEF WrittenOnce, CleanupIsPast
<1>7. CASE dayCounts' = dayCounts /\ countedOn' = countedOn
  <2>1. ReportsTyping' /\ DaysAreWhole'
    BY <1>1, <1>2, <1>3, <1>7 DEF ReportsTyping, DaysAreWhole
  <2>2. InTurn'
    <3>1. \A i \in DOMAIN toWrite : 0 < toWrite[i]
      BY <1>2, <1>3 DEF ReportsTyping
    <3>2. \A h \in 1..MaxHits : h # 0
      BY ReportsAssumption
    <3> QED BY <1>1, <1>2, <1>7, <3>1, <3>2 DEF InTurn
  <2> QED BY <1>5, <1>6, <2>1, <2>2 DEF ReportsInv, StoreInv
<1>8. CASE /\ dayCounts' = [dayCounts EXCEPT ![Date(tick)][hits[writing]] = @ + 1]
           /\ countedOn' = [countedOn EXCEPT ![writing] = Date(tick)]
  <2> DEFINE D == Date(tick)
             y == hits[writing]
  <2>1. dayCounts \in [Dates -> [Listed -> Nat]] /\ countedOn \in [1..MaxHits -> Int]
    BY <1>2 DEF ReportsTyping
  <2>2. /\ dayCounts' \in [Dates -> [Listed -> Nat]]
        /\ countedOn' \in [1..MaxHits -> Int]
        /\ countedOn'[writing] = D
        /\ \A h \in 1..MaxHits : h # writing => countedOn'[h] = countedOn[h]
        /\ dayCounts'[D][y] = dayCounts[D][y] + 1
        /\ \A d \in Dates, x \in Listed : d # D \/ x # y => dayCounts'[d][x] = dayCounts[d][x]
    <3> HIDE DEF D, y
    <3>1. D \in Dates /\ y \in Listed /\ D \in Int
      BY <1>3, <1>4 DEF D, y
    <3>2. /\ dayCounts' = [dayCounts EXCEPT ![D][y] = @ + 1] /\ countedOn' = [countedOn EXCEPT ![writing] = D]
      BY <1>8 DEF D, y
    <3>3. /\ countedOn' \in [1..MaxHits -> Int] /\ countedOn'[writing] = D
          /\ \A h \in 1..MaxHits : h # writing => countedOn'[h] = countedOn[h]
      BY <1>3, <2>1, <3>1, <3>2
    <3> QED BY <2>1, <3>1, <3>2, <3>3
  <2>3. ReportsTyping'
    BY <1>1, <1>2, <1>3, <2>2 DEF ReportsTyping
  <2>4. InTurn'
    <3>1. \A i \in DOMAIN toWrite : 0 < toWrite[i] /\ writing < toWrite[i]
      BY <1>2, <1>3 DEF ReportsTyping, InTurn
    <3>2. \A h \in 1..MaxHits : h # 0
      BY ReportsAssumption
    <3>3. \A h \in 1..MaxHits : countedOn'[h] # NoTime => countedOn[h] # NoTime \/ h = writing
      BY <2>2
    <3>4. writing <= Len(hits)
      BY <1>3
    <3> QED BY <1>1, <1>2, <3>1, <3>2, <3>3, <3>4 DEF InTurn
  <2>5. DaysAreWhole'
    <3> DEFINE Old(x, d) == OfDay(NumbersOf(hits, x), countedOn, d)
               New(x, d) == OfDay(NumbersOf(hits, x), countedOn', d)
    <3>1. ASSUME NEW d \in Dates, NEW x, d # D \/ x # y PROVE New(x, d) = Old(x, d)
      <4>1. \A h \in NumbersOf(hits, x) : h \in 1..MaxHits
        BY <1>2, ReportsAssumption DEF NumbersOf, ReportsTyping
      <4>2. \A h \in NumbersOf(hits, x) : countedOn'[h] = d <=> countedOn[h] = d
        <5>1. \A h \in NumbersOf(hits, x) : h # writing => countedOn'[h] = countedOn[h]
          BY <2>2, <4>1
        <5>2. writing \in NumbersOf(hits, x) => countedOn'[writing] # d /\ countedOn[writing] # d
          BY <1>3, <1>4, <2>2, <3>1 DEF NumbersOf
        <5> QED BY <5>1, <5>2
      <4> QED BY <4>2 DEF OfDay
    <3>2. Cardinality(New(y, D)) = Cardinality(Old(y, D)) + 1
      <4>1. writing \in NumbersOf(hits, y) /\ writing \notin Old(y, D)
        BY <1>3, <1>4 DEF NumbersOf, OfDay
      <4>2. \A h \in NumbersOf(hits, y) : h \in 1..MaxHits
        BY <1>2, ReportsAssumption DEF NumbersOf, ReportsTyping
      <4>3. New(y, D) = Old(y, D) \cup {writing}
        BY <2>2, <4>1, <4>2 DEF OfDay
      <4>4. IsFiniteSet(Old(y, D))
        BY <1>3, NumbersAreFinite, FS_Subset DEF OfDay
      <4> QED BY <4>1, <4>3, <4>4, FS_AddElement
    <3>3. ASSUME NEW d \in Dates, NEW x \in Listed, dayCounts[d][x] = Cardinality(Old(x, d))
          PROVE  dayCounts'[d][x] = Cardinality(New(x, d))
      <4>1. CASE d # D \/ x # y
        BY <2>2, <3>1, <3>3, <4>1
      <4>2. CASE d = D /\ x = y
        BY <2>2, <3>2, <3>3, <4>2
      <4> QED BY <4>1, <4>2
    <3>4. ASSUME NEW d \in Dates, d < D, NEW x \in Listed, dayCounts[d][x] = 0 PROVE dayCounts'[d][x] = 0
      <4>1. d # D
        BY <1>4, <3>4
      <4> QED BY <2>2, <3>4, <4>1
    <3> QED BY <1>1, <1>2, <3>3, <3>4 DEF DaysAreWhole
  <2> QED BY <1>5, <1>6, <2>3, <2>4, <2>5 DEF ReportsInv, StoreInv
<1> QED BY <1>7, <1>8 DEF CountHit

\* flushEventBatch: what is written is written today, and leaves the batch.
LEMMA RowsAreWritten == ASSUME ReportsInv, WriteEventRows PROVE ReportsInv'
<1>1. PICK written \in SUBSET unsaved : rows' = rows \cup [hit : written, time : {tick}]
  BY DEF WriteEventRows
<1>2. /\ unsaved' = {}
      /\ tick' = tick /\ hits' = hits /\ toWrite' = toWrite /\ writing' = writing
      /\ dayCounts' = dayCounts /\ countedOn' = countedOn /\ cutoff' = cutoff
      /\ reading' = reading /\ shown' = shown
  BY DEF WriteEventRows, readerVars
<1>3. ReportsTyping /\ InTurn /\ WrittenOnce /\ DaysAreWhole /\ CleanupIsPast
  BY DEF ReportsInv, StoreInv
<1>4. /\ \A r \in rows' : r \in rows \/ (r.hit \in written /\ r.time = tick /\ r = [hit |-> r.hit, time |-> tick])
      /\ written \subseteq 1..Len(hits) /\ tick \in 0..LastTick
  BY <1>1, <1>3 DEF ReportsTyping
<1>5. ReportsTyping'
  <2>1. rows' \subseteq [hit : 1..Len(hits), time : 0..LastTick]
    BY <1>1, <1>3, <1>4 DEF ReportsTyping
  <2> QED BY <1>2, <1>3, <2>1 DEF ReportsTyping
<1>6. InTurn'
  <2>1. \A i \in DOMAIN toWrite : \A r \in rows' : r.hit < toWrite[i]
    BY <1>1, <1>3, <1>4 DEF InTurn
  <2> QED BY <1>2, <1>3, <2>1 DEF InTurn
<1>7. WrittenOnce'
  <2>1. ASSUME NEW r \in rows', NEW s \in rows', r.hit = s.hit PROVE r = s
    <3>1. CASE r \in rows /\ s \in rows
      BY <1>3, <2>1, <3>1 DEF WrittenOnce
    <3>2. CASE r \in rows /\ s \notin rows
      BY <1>1, <1>3, <1>4, <2>1, <3>2 DEF WrittenOnce
    <3>3. CASE r \notin rows /\ s \in rows
      BY <1>1, <1>3, <1>4, <2>1, <3>3 DEF WrittenOnce
    <3>4. CASE r \notin rows /\ s \notin rows
      BY <1>4, <2>1, <3>4
    <3> QED BY <3>1, <3>2, <3>3, <3>4
  <2> QED BY <1>2, <2>1 DEF WrittenOnce
<1>8. DaysAreWhole'
  <2>1. ASSUME NEW d \in Dates, d < Date(tick), \A r \in rows : Date(r.time) # d
        PROVE  \A r \in rows' : Date(r.time) # d
    <3>1. Date(tick) # d
      BY <1>4, <2>1, DaysInOrder, ReportsAssumption DEF Dates
    <3> QED BY <1>4, <2>1, <3>1
  <2> QED BY <1>2, <1>3, <2>1 DEF DaysAreWhole
<1>9. CleanupIsPast'
  BY <1>2, <1>3, <1>4 DEF CleanupIsPast
<1>10. ReadingAgrees' /\ AnswerAgrees'
  BY <1>2, ReadersStay DEF ReportsInv
<1> QED BY <1>5, <1>6, <1>7, <1>8, <1>9, <1>10 DEF ReportsInv, StoreInv

\* CleanupOldData, the events: those that stay are as young as the cut.
LEMMA OldRowsAreDeleted == ASSUME ReportsInv, DeleteOldRows PROVE ReportsInv'
<1>1. /\ tick' = tick /\ hits' = hits /\ toWrite' = toWrite /\ writing' = writing /\ unsaved' = unsaved
      /\ dayCounts' = dayCounts /\ countedOn' = countedOn
      /\ reading' = reading /\ shown' = shown
      /\ \/ cutoff' = CleanupTime /\ rows' = {r \in rows : r.time >= CleanupTime}
         \/ cutoff' = cutoff /\ rows' = rows
  BY DEF DeleteOldRows, queueVars, readerVars
<1>2. ReportsTyping /\ InTurn /\ WrittenOnce /\ DaysAreWhole /\ CleanupIsPast
  BY DEF ReportsInv, StoreInv
<1>3. CleanupTime \in Int /\ CleanupTime <= tick
  <2>1. RetentionDays \in Nat /\ TicksPerDay \in Nat /\ tick \in Int
    BY <1>2, ReportsAssumption DEF ReportsTyping
  <2>2. \A a, b \in Nat, t \in Int : t - a * b \in Int /\ t - a * b <= t
    <3>1. \A a, b \in Nat : a * b \in Nat
      OBVIOUS
    <3> QED BY <3>1
  <2> QED BY <2>1, <2>2 DEF CleanupTime
<1>4. rows' \subseteq rows /\ cutoff' \in Int
  BY <1>1, <1>2, <1>3 DEF ReportsTyping
<1>5. ReportsTyping' /\ InTurn'
  BY <1>1, <1>2, <1>4 DEF ReportsTyping, InTurn
<1>6. WrittenOnce' /\ DaysAreWhole'
  BY <1>1, <1>2, <1>4 DEF WrittenOnce, DaysAreWhole
<1>7. CleanupIsPast'
  <2>1. CASE cutoff' = CleanupTime /\ rows' = {r \in rows : r.time >= CleanupTime}
    <3>1. \A r \in rows' : r.time \in Int /\ r.time >= CleanupTime
      BY <1>2, <2>1, ReportsAssumption DEF ReportsTyping
    <3>2. \A r \in rows' : CleanupTime <= r.time
      BY <1>3, <3>1
    <3> QED BY <1>1, <1>3, <2>1, <3>2 DEF CleanupIsPast
  <2>2. CASE cutoff' = cutoff /\ rows' = rows
    BY <1>1, <1>2, <2>2 DEF CleanupIsPast
  <2> QED BY <1>1, <2>1, <2>2
<1>8. ReadingAgrees' /\ AnswerAgrees'
  BY <1>1, ReadersStay DEF ReportsInv
<1> QED BY <1>5, <1>6, <1>7, <1>8 DEF ReportsInv, StoreInv

\* CleanupOldData, the counts: the days before that of the cut have no events left.
LEMMA OldCountsAreDeleted == ASSUME ReportsInv, DeleteOldCounts PROVE ReportsInv'
<1>1. /\ tick' = tick /\ hits' = hits /\ toWrite' = toWrite /\ writing' = writing /\ unsaved' = unsaved
      /\ rows' = rows /\ countedOn' = countedOn /\ cutoff' = NoTime /\ cutoff # NoTime
      /\ reading' = reading /\ shown' = shown
      /\ \/ dayCounts' = [d \in Dates |-> IF TooOld(d, cutoff) THEN [x \in Listed |-> 0] ELSE dayCounts[d]]
         \/ dayCounts' = dayCounts
  BY DEF DeleteOldCounts, queueVars, readerVars
<1>2. ReportsTyping /\ InTurn /\ WrittenOnce /\ DaysAreWhole /\ CleanupIsPast
  BY DEF ReportsInv, StoreInv
<1>3. dayCounts \in [Dates -> [Listed -> Nat]]
  BY <1>2 DEF ReportsTyping
<1>4. /\ dayCounts' \in [Dates -> [Listed -> Nat]]
      /\ \A d \in Dates : \/ \A x \in Listed : dayCounts'[d][x] = dayCounts[d][x]
                          \/ d < Date(cutoff) /\ \A x \in Listed : dayCounts'[d][x] = 0
  BY <1>1, <1>3 DEF TooOld
<1>5. ReportsTyping' /\ InTurn'
  <2>1. cutoff' \in Int
    BY <1>1 DEF NoTime
  <2> QED BY <1>1, <1>2, <1>4, <2>1 DEF ReportsTyping, InTurn
<1>6. WrittenOnce' /\ CleanupIsPast'
  BY <1>1, <1>2 DEF WrittenOnce, CleanupIsPast
<1>7. DaysAreWhole'
  <2>1. ASSUME NEW d \in Dates, d < Date(cutoff) PROVE d < Date(tick) /\ \A r \in rows : Date(r.time) # d
    <3>1. tick \in Int /\ cutoff \in Int /\ cutoff <= tick /\ \A r \in rows : cutoff <= r.time /\ r.time \in Int
      BY <1>1, <1>2, ReportsAssumption DEF ReportsTyping, CleanupIsPast
    <3>2. d \in Int /\ Date(cutoff) \in Int /\ Date(tick) \in Int /\ Date(cutoff) <= Date(tick)
      BY <3>1, ReportsAssumption, DaysInOrder DEF Dates
    <3>3. \A r \in rows : Date(r.time) \in Int /\ Date(cutoff) <= Date(r.time)
      BY <3>1, DaysInOrder
    <3> QED BY <2>1, <3>2, <3>3
  <2> QED BY <1>1, <1>2, <1>4, <2>1 DEF DaysAreWhole
<1>8. ReadingAgrees' /\ AnswerAgrees'
  BY <1>1, ReadersStay DEF ReportsInv
<1> QED BY <1>5, <1>6, <1>7, <1>8 DEF ReportsInv, StoreInv

\* The counters of the process are of blocks that happened.
LEMMA MemoryHolds ==
  ASSUME StoreInv, NEW seen, seen \subseteq 1..Len(hits), NEW counts,
         counts = [x \in Listed |-> Cardinality({h \in seen : hits[h] = x})]
  PROVE  CountsHold(hits, counts)
<1>1. Len(hits) \in Nat
  BY DEF StoreInv, ReportsTyping
<1>2. ASSUME NEW x \in Listed
      PROVE  counts[x] \in Nat /\ counts[x] <= Cardinality(NumbersOf(hits, x))
  <2>1. {h \in seen : hits[h] = x} \subseteq NumbersOf(hits, x) /\ IsFiniteSet(NumbersOf(hits, x))
    BY <1>1, NumbersAreFinite DEF NumbersOf
  <2> QED BY <1>2, <2>1, FS_Subset, FS_CardinalityType
<1> QED BY <1>2 DEF CountsHold

LEMMA ProcessCountsHold == ASSUME StoreInv PROVE CountsHold(hits, FromMemory.counts) /\ FromMemory.source = "memory"
<1>1. OfThisProcess \subseteq 1..Len(hits)
  BY DEF OfThisProcess
<1>2. FromMemory.counts = [x \in Listed |-> Cardinality({h \in OfThisProcess : hits[h] = x})]
  BY DEF FromMemory, MemoryCounts
<1> QED BY <1>1, <1>2, MemoryHolds DEF FromMemory

\* The first query.
LEMMA CountsAreRead ==
  ASSUME ReportsInv, NEW w, w.from \in Int, w.to \in Int, ReadCounts(w)
  PROVE  ReportsInv'
<1> DEFINE late == {r \in rows : countedOn[r.hit] # Date(r.time)}
           r(top) == [counts |-> [x \in top |-> StoredCounts(w)[x]], window |-> w, before |-> rows, late |-> late]
<1>1. UNCHANGED <<tick, hits, queueVars, storedVars, countedOn, cutoff>>
  BY DEF ReadCounts
<1>2. StoreInv' /\ hits' = hits
  BY <1>1, StoreStays DEF ReportsInv
<1>3. \/ reading' = reading /\ shown' = FromMemory
      \/ \E top \in Top(StoredCounts(w)) : reading' = r(top) /\ shown' = shown
  BY DEF ReadCounts
<1>4. StoreInv /\ ReadingAgrees /\ AnswerAgrees
  BY DEF ReportsInv
<1>5. CASE reading' = reading /\ shown' = FromMemory
  <2>1. CountsHold(hits', shown'.counts) /\ shown'.source # "database"
    BY <1>2, <1>4, <1>5, ProcessCountsHold
  <2>2. AnswerAgrees'
    BY <2>1 DEF AnswerAgrees
  <2>3. ReadingAgrees'
    BY <1>2, <1>4, <1>5 DEF ReadingAgrees, InWindow
  <2> QED BY <1>2, <2>2, <2>3 DEF ReportsInv
<1>6. ASSUME NEW top \in Top(StoredCounts(w)), reading' = r(top), shown' = shown
      PROVE  ReportsInv'
  <2>1. top \subseteq Listed
    BY DEF Top
  <2> DEFINE counts == [x \in top |-> StoredCounts(w)[x]]
             E == {e \in rows \ late : w.from <= e.time /\ e.time <= w.to}
  <2>2. /\ reading'.counts = counts /\ InWindow(reading') = E
    BY <1>6 DEF InWindow
  <2>3. ASSUME NEW x \in top
        PROVE  /\ counts[x] \in Nat /\ counts[x] <= Cardinality(NumbersOf(hits, x))
               /\ IsFiniteSet(E) /\ E \subseteq [hit : 1..Len(hits), time : Nat]
               /\ Cardinality({e \in E : hits[e.hit] = x}) <= counts[x]
    BY <1>4, <2>1, <2>3, StoredCountsAgree
  <2>4. IsFiniteSet(E) /\ E \subseteq [hit : 1..Len(hits), time : Nat]
    <3>1. rows \subseteq [hit : 1..Len(hits), time : 0..LastTick] /\ Len(hits) \in Nat /\ LastTick \in Nat
      BY <1>4, ReportsAssumption DEF StoreInv, ReportsTyping
    <3>2. E \in SUBSET rows /\ IsFiniteSet(1..Len(hits)) /\ \A e \in E : e.hit \in 1..Len(hits)
      BY <3>1, FS_Interval
    <3> HIDE DEF E
    <3>3. E \subseteq [hit : 1..Len(hits), time : Nat]
      BY <3>1, <3>2
    <3> QED BY <1>4, <3>2, <3>3, RowsAreFinite
  <2> HIDE DEF E, counts
  <2>5. DOMAIN counts = top
    BY DEF counts
  <2>6. CountsHold(hits, counts) /\ Behind(hits, E, counts)
    BY <2>3, <2>4, <2>5 DEF CountsHold, Behind
  <2>7. ReadingAgrees'
    BY <1>2, <2>2, <2>6 DEF ReadingAgrees
  <2>8. AnswerAgrees'
    BY <1>2, <1>4, <1>6 DEF AnswerAgrees
  <2> QED BY <1>2, <2>7, <2>8 DEF ReportsInv
<1> QED BY <1>3, <1>5, <1>6

\* The second query: of the events of the window, those that are still there.
LEMMA DetailsAreRead == ASSUME ReportsInv, ReadDetails PROVE ReportsInv'
<1>1. UNCHANGED <<tick, hits, queueVars, storedVars, countedOn, cutoff>> /\ reading # NoReading /\ reading' = NoReading
  BY DEF ReadDetails
<1>2. StoreInv' /\ hits' = hits
  BY <1>1, StoreStays DEF ReportsInv
<1>3. PICK details \in {EventsOf(reading), {}} :
        shown' = [source |-> "database", counts |-> reading.counts, details |-> details, late |-> reading.late]
  BY DEF ReadDetails
<1>4. CountsHold(hits, reading.counts) /\ Behind(hits, InWindow(reading), reading.counts)
  BY <1>1 DEF ReportsInv, ReadingAgrees
<1>5. details \ reading.late \subseteq InWindow(reading)
  BY <1>3 DEF EventsOf, InWindow
<1>6. Behind(hits, details \ reading.late, reading.counts)
  BY <1>4, <1>5, FewerEvents
<1>7. AnswerAgrees'
  <2>1. shown'.counts = reading.counts /\ shown'.details \ shown'.late = details \ reading.late
    BY <1>3
  <2> QED BY <1>2, <1>4, <1>6, <2>1 DEF AnswerAgrees
<1>8. ReadingAgrees'
  BY <1>1 DEF ReadingAgrees
<1> QED BY <1>2, <1>7, <1>8 DEF ReportsInv

\* A page of events, of the database or of the ring.
LEMMA PageIsShown ==
  ASSUME ReportsInv, NEW source, NEW page, page \subseteq 1..Len(hits),
         UNCHANGED <<tick, hits, queueVars, storedVars, countedOn, cutoff, reading>>,
         shown' = PageAnswer(source, page)
  PROVE  ReportsInv'
<1>1. StoreInv' /\ hits' = hits /\ reading' = reading
  BY StoreStays DEF ReportsInv
<1> DEFINE counts == [x \in Listed |-> Cardinality({h \in page : hits[h] = x})]
<1>2. shown'.counts = counts /\ shown'.details = {} /\ shown'.late = {}
  BY DEF PageAnswer
<1>3. CountsHold(hits, counts)
  BY MemoryHolds DEF ReportsInv
<1> HIDE DEF counts
<1>4. Behind(hits, {}, counts)
  <2>1. ASSUME NEW x \in DOMAIN counts PROVE Cardinality({e \in {} : hits[e.hit] = x}) <= counts[x]
    <3>1. {e \in {} : hits[e.hit] = x} = {}
      OBVIOUS
    <3>2. counts[x] \in Nat
      BY <1>3, <2>1 DEF CountsHold
    <3> QED BY <3>1, <3>2, FS_EmptySet
  <2> QED BY <2>1, FS_EmptySet DEF Behind
<1>5. AnswerAgrees'
  <2>1. shown'.details \ shown'.late = {}
    BY <1>2
  <2> QED BY <1>1, <1>2, <1>3, <1>4, <2>1 DEF AnswerAgrees
<1>6. ReadingAgrees'
  BY <1>1 DEF ReportsInv, ReadingAgrees, InWindow
<1> QED BY <1>1, <1>5, <1>6 DEF ReportsInv

LEMMA EventsAreListed ==
  ASSUME ReportsInv, NEW from, NEW to, NEW whenItFails, NEW whenEmpty,
         ListEvents(from, to, whenItFails, whenEmpty)
  PROVE  ReportsInv'
<1>1. UNCHANGED <<tick, hits, queueVars, storedVars, countedOn, cutoff, reading>>
  BY DEF ListEvents
<1>2. \/ \E page \in StoredPages(from, to) : shown' = FromRows(page)
      \/ \E ring \in RingPages : shown' = FromRing(ring)
  BY DEF ListEvents
<1>3. ASSUME NEW page \in StoredPages(from, to), shown' = FromRows(page) PROVE ReportsInv'
  <2>1. page \subseteq rows
    BY DEF StoredPages, Newest
  <2>2. {e.hit : e \in page} \subseteq 1..Len(hits)
    BY <2>1 DEF ReportsInv, StoreInv, ReportsTyping
  <2> QED BY <1>1, <1>3, <2>2, PageIsShown DEF FromRows
<1>4. ASSUME NEW ring \in RingPages, shown' = FromRing(ring) PROVE ReportsInv'
  <2>1. ring \subseteq 1..Len(hits)
    BY DEF RingPages, Newest, OfThisProcess
  <2> QED BY <1>1, <1>4, <2>1, PageIsShown DEF FromRing
<1> QED BY <1>2, <1>3, <1>4

\* A restart forgets what waits.
LEMMA ReportsRestart == ASSUME ReportsInv, RestartReports PROVE ReportsInv'
<1>1. /\ toWrite' = <<>> /\ writing' = 0 /\ unsaved' = {} /\ cutoff' = NoTime
      /\ reading' = NoReading /\ shown' = NoAnswer
      /\ tick' = tick /\ hits' = hits /\ rows' = rows /\ dayCounts' = dayCounts /\ countedOn' = countedOn
  BY DEF RestartReports, storedVars
<1>2. ReportsTyping /\ InTurn /\ WrittenOnce /\ DaysAreWhole
  BY DEF ReportsInv, StoreInv
<1>3. ReportsTyping'
  <2>1. toWrite' \in Seq(1..Len(hits)) /\ writing' \in 0..Len(hits) /\ cutoff' \in Int
    BY <1>1, <1>2 DEF ReportsTyping, NoTime
  <2> QED BY <1>1, <1>2, <2>1 DEF ReportsTyping
<1>4. InTurn'
  <2>1. DOMAIN toWrite' = {} /\ \A h \in 1..MaxHits : h # 0
    BY <1>1, ReportsAssumption
  <2> QED BY <1>1, <1>2, <2>1 DEF InTurn
<1>5. WrittenOnce' /\ DaysAreWhole' /\ CleanupIsPast'
  BY <1>1, <1>2 DEF WrittenOnce, DaysAreWhole, CleanupIsPast
<1>6. ReadingAgrees' /\ AnswerAgrees'
  BY <1>1, ReadersStay DEF ReportsInv
<1> QED BY <1>3, <1>4, <1>5, <1>6 DEF ReportsInv, StoreInv

LEMMA TickIsOver == ASSUME ReportsInv, TickPasses PROVE ReportsInv'
<1>1. /\ tick < LastTick /\ tick' = tick + 1 /\ shown' = NoAnswer
      /\ toWrite' = toWrite /\ writing' = writing /\ unsaved' = unsaved /\ cutoff' = cutoff
      /\ reading' = reading /\ hits' = hits /\ rows' = rows /\ dayCounts' = dayCounts /\ countedOn' = countedOn
  BY DEF TickPasses, storedVars, queueVars
<1>2. ReportsTyping /\ InTurn /\ WrittenOnce /\ DaysAreWhole /\ CleanupIsPast
  BY DEF ReportsInv, StoreInv
<1>3. tick \in Int /\ tick' \in Int /\ tick <= tick' /\ tick' \in 0..LastTick
  BY <1>1, <1>2, ReportsAssumption DEF ReportsTyping
<1>4. ReportsTyping' /\ InTurn' /\ WrittenOnce'
  BY <1>1, <1>2, <1>3 DEF ReportsTyping, InTurn, WrittenOnce
<1>5. DaysAreWhole'
  <2>1. Date(tick) \in Int /\ Date(tick') \in Int /\ Date(tick) <= Date(tick')
    BY <1>3, DaysInOrder
  <2>2. \A d \in Dates : d < Date(tick) => d < Date(tick')
    BY <2>1, DaysInOrder, ReportsAssumption DEF Dates
  <2> QED BY <1>1, <1>2, <2>2 DEF DaysAreWhole
<1>6. CleanupIsPast'
  <2>1. cutoff \in Int
    BY <1>2 DEF ReportsTyping
  <2> QED BY <1>1, <1>2, <1>3, <2>1 DEF CleanupIsPast
<1>7. ReadingAgrees' /\ AnswerAgrees'
  BY <1>1, ReadersStay DEF ReportsInv
<1> QED BY <1>4, <1>5, <1>6, <1>7 DEF ReportsInv, StoreInv

LEMMA ReportsStart == ReportsInit => ReportsInv
<1> SUFFICES ASSUME ReportsInit PROVE ReportsInv
  OBVIOUS
<1>1. /\ tick = TicksPerDay - 1 /\ hits = <<>> /\ toWrite = <<>> /\ writing = 0 /\ unsaved = {} /\ rows = {}
      /\ dayCounts = [d \in Dates |-> [x \in Listed |-> 0]] /\ countedOn = [h \in 1..MaxHits |-> NoTime]
      /\ cutoff = NoTime /\ reading = NoReading /\ shown = NoAnswer
  BY DEF ReportsInit
<1>2. ReportsTyping
  <2>1. tick \in 0..LastTick /\ cutoff \in Int /\ Len(hits) = 0 /\ 0 <= MaxHits
    BY <1>1, ReportsAssumption DEF NoTime
  <2>2. dayCounts \in [Dates -> [Listed -> Nat]] /\ countedOn \in [1..MaxHits -> Int]
    BY <1>1 DEF NoTime
  <2> QED BY <1>1, <2>1, <2>2 DEF ReportsTyping
<1>3. InTurn /\ WrittenOnce /\ CleanupIsPast
  <2>1. DOMAIN toWrite = {} /\ \A h \in 1..MaxHits : countedOn[h] = NoTime
    BY <1>1
  <2> QED BY <1>1, <2>1 DEF InTurn, WrittenOnce, CleanupIsPast
<1>4. DaysAreWhole
  <2>1. ASSUME NEW x, NEW d PROVE OfDay(NumbersOf(hits, x), countedOn, d) = {}
    BY <1>1 DEF NumbersOf, OfDay
  <2> QED BY <1>1, <2>1, FS_EmptySet DEF DaysAreWhole
<1> QED BY <1>1, <1>2, <1>3, <1>4 DEF ReportsInv, StoreInv, ReadingAgrees, AnswerAgrees

\* CleanupOldData, GetTopStats and GetRuleHitStats of storage/metrics and the pages
\* that show their answers: a list agrees with the events behind it, for any number
\* of blocks, failures and restarts and any retention, window and length of a list.
THEOREM ListsAgreeWithDetails == ReportsSpec => []DetailsAreCounted
<1>1. ReportsInv /\ [ReportsNext]_reportVars => ReportsInv'
  <2> SUFFICES ASSUME ReportsInv, [ReportsNext]_reportVars PROVE ReportsInv'
    OBVIOUS
  <2>1. ASSUME UNCHANGED reportVars PROVE ReportsInv'
    <3>1. /\ UNCHANGED <<tick, hits, queueVars, storedVars, countedOn, cutoff>>
          /\ reading' = reading /\ shown' = shown /\ hits' = hits
      BY <2>1 DEF reportVars, readerVars
    <3> QED BY <3>1, StoreStays, ReadersStay DEF ReportsInv
  <2>2. ASSUME ForgetAnswer PROVE ReportsInv'
    <3>1. /\ UNCHANGED <<tick, hits, queueVars, storedVars, countedOn, cutoff>>
          /\ reading' = reading /\ shown' = NoAnswer /\ hits' = hits
      BY <2>2 DEF ForgetAnswer
    <3> QED BY <3>1, StoreStays, ReadersStay DEF ReportsInv
  <2>3. tick \in Int /\ TicksPerDay \in Int /\ WindowDays \in Int /\ Date(tick) \in Int
    BY ReportsAssumption, DaysInOrder DEF ReportsInv, StoreInv, ReportsTyping
  <2>4. ASSUME ReadDashboard PROVE ReportsInv'
    <3>1. PICK w \in DashboardWindow : ReadCounts(w)
      BY <2>4 DEF ReadDashboard
    <3>2. w.from \in Int /\ w.to \in Int
      BY <2>3 DEF DashboardWindow
    <3> QED BY <3>1, <3>2, CountsAreRead
  <2>5. ASSUME ReadAsked PROVE ReportsInv'
    <3>1. PICK w \in AskedWindows : ReadCounts(w)
      BY <2>5 DEF ReadAsked
    <3>2. w.from \in Int /\ w.to \in Int
      BY <2>3 DEF AskedWindows
    <3> QED BY <3>1, <3>2, CountsAreRead
  <2>6. ASSUME ListRecent \/ ListIntercepts \/ ListHistory PROVE ReportsInv'
    BY <2>6, EventsAreListed DEF ListRecent, ListIntercepts, ListHistory
  <2> QED BY <2>1, <2>2, <2>4, <2>5, <2>6, BlockIsReported, HitIsSaved, HitIsCounted, RowsAreWritten,
             OldRowsAreDeleted, OldCountsAreDeleted, DetailsAreRead, ReportsRestart, TickIsOver
          DEF ReportsNext
<1>2. ReportsInv => DetailsAreCounted
  <2> SUFFICES ASSUME ReportsInv, shown # NoAnswer, NEW x \in DOMAIN shown.counts
               PROVE  /\ shown.counts[x] <= Cardinality({h \in 1..Len(hits) : hits[h] = x})
                      /\ shown.source = "database" =>
                           Cardinality({e \in shown.details \ shown.late : hits[e.hit] = x}) <= shown.counts[x]
    BY DEF DetailsAreCounted
  <2>1. CountsHold(hits, shown.counts)
        /\ (shown.source = "database" => Behind(hits, shown.details \ shown.late, shown.counts))
    BY DEF ReportsInv, AnswerAgrees
  <2> QED BY <2>1 DEF CountsHold, Behind, NumbersOf
<1> QED BY ReportsStart, <1>1, <1>2, PTL DEF ReportsSpec


-----------------------------------------------------------------------------
(* The log file by line numbers: what is sorted, paged and counted of it.       *)
\* Lines whose time can be compared.
Timed(ls, S) == \A i \in S : ls[i].day \in Int /\ ls[i].hour \in Int

\* Of finitely many lines one is no newer than the others,
LEMMA OneIsOldest ==
  ASSUME NEW ls, NEW S, IsFiniteSet(S), Timed(ls, S), S # {}
  PROVE  \E i \in S : \A k \in S : ~Newer(ls[i], ls[k])
<1> DEFINE G == {T \in SUBSET S : T = {} \/ \E i \in T : \A k \in T : ~Newer(ls[i], ls[k])}
<1>1. {} \in G
  OBVIOUS
<1>2. ASSUME NEW T \in SUBSET S, T # {}, \A i \in T : T \ {i} \in G PROVE T \in G
  <2>1. PICK i \in T : TRUE
    BY <1>2
  <2>2. T \ {i} \in G
    BY <1>2
  <2>3. ls[i].day \in Int /\ ls[i].hour \in Int /\ ~Newer(ls[i], ls[i])
    BY <2>1 DEF Timed, Newer
  <2>4. CASE T \ {i} = {}
    <3>1. \A k \in T : k = i
      BY <2>4
    <3> QED BY <2>3, <3>1
  <2>5. CASE T \ {i} # {}
    <3>1. PICK j \in T \ {i} : \A k \in T \ {i} : ~Newer(ls[j], ls[k])
      BY <2>2, <2>5
    <3>2. /\ \A k \in T : ls[k].day \in Int /\ ls[k].hour \in Int
          /\ ls[j].day \in Int /\ ls[j].hour \in Int
      BY <3>1 DEF Timed
    <3>3. CASE Newer(ls[j], ls[i])
      <4>1. ASSUME NEW k \in T PROVE ~Newer(ls[i], ls[k])
        <5>1. CASE k = i
          BY <2>3, <5>1
        <5>2. CASE k # i
          <6>1. ~Newer(ls[j], ls[k])
            BY <3>1, <4>1, <5>2
          <6> QED BY <2>3, <3>2, <3>3, <4>1, <6>1 DEF Newer
        <5> QED BY <5>1, <5>2
      <4> QED BY <2>1, <4>1
    <3>4. CASE ~Newer(ls[j], ls[i])
      <4>1. \A k \in T : ~Newer(ls[j], ls[k])
        BY <3>1, <3>4
      <4> QED BY <3>1, <4>1
    <3> QED BY <3>3, <3>4
  <2> QED BY <2>4, <2>5
<1> HIDE DEF G
<1>3. S \in G
  <2>1. \A T \in SUBSET S : T # {} /\ (\A x \in T : T \ {x} \in G) => T \in G
    BY <1>2
  <2> QED BY <1>1, <2>1, FromTheEmptySet
<1> QED BY <1>3 DEF G

\* so they can be sorted.
LEMMA LinesCanBeSorted ==
  ASSUME NEW ls, NEW S, IsFiniteSet(S), Timed(ls, S)
  PROVE  NewestFirst(ls, S) # {}
<1> DEFINE G == {T \in SUBSET S : NewestFirst(ls, T) # {}}
<1>1. {} \in G
  <2>1. Cardinality({}) = 0
    BY FS_EmptySet
  <2> DEFINE s == [i \in 1..0 |-> i]
  <2>2. s \in [1..0 -> {}] /\ DOMAIN s = {}
    OBVIOUS
  <2> HIDE DEF s
  <2>3. s \in NewestFirst(ls, {})
    BY <2>1, <2>2 DEF NewestFirst
  <2> QED BY <2>3
<1>2. ASSUME NEW T \in SUBSET S, T # {}, \A i \in T : T \ {i} \in G PROVE T \in G
  <2>1. IsFiniteSet(T) /\ Timed(ls, T)
    BY FS_Subset DEF Timed
  <2>2. PICK x \in T : \A k \in T : ~Newer(ls[x], ls[k])
    BY <1>2, <2>1, OneIsOldest
  <2> DEFINE R == T \ {x}
             n == Cardinality(R)
  <2>3. IsFiniteSet(R) /\ n \in Nat /\ Cardinality(T) = n + 1
    <3>1. IsFiniteSet(R) /\ Cardinality(R) = Cardinality(T) - 1
      BY <2>1, <2>2, FS_RemoveElement
    <3>2. Cardinality(T) \in Nat /\ Cardinality(R) \in Nat
      BY <2>1, <3>1, FS_CardinalityType
    <3> QED BY <3>1, <3>2
  <2>4. PICK s \in NewestFirst(ls, R) : TRUE
    BY <1>2, <2>2
  <2> DEFINE t == [i \in 1..(n + 1) |-> IF i = n + 1 THEN x ELSE s[i]]
  <2>5. /\ s \in [1..n -> R]
        /\ \A i, j \in 1..n : i < j => s[i] # s[j] /\ ~Newer(ls[s[j]], ls[s[i]])
    BY <2>4 DEF NewestFirst
  <2> HIDE DEF R, n
  <2>6. R \subseteq T /\ x \notin R
    BY DEF R
  <2>7. t \in [1..(n + 1) -> T]
    BY <2>2, <2>3, <2>5, <2>6
  <2>8. ASSUME NEW i \in 1..(n + 1), NEW j \in 1..(n + 1), i < j
        PROVE  t[i] # t[j] /\ ~Newer(ls[t[j]], ls[t[i]])
    <3>1. i \in 1..n /\ t[i] = s[i] /\ s[i] \in R
      BY <2>3, <2>5, <2>8
    <3>2. CASE j = n + 1
      <4>1. t[j] = x /\ s[i] \in T
        BY <2>6, <3>1, <3>2
      <4> QED BY <2>2, <2>6, <3>1, <4>1
    <3>3. CASE j # n + 1
      <4>1. j \in 1..n /\ t[j] = s[j]
        BY <2>3, <2>8, <3>3
      <4> QED BY <2>5, <2>8, <3>1, <4>1
    <3> QED BY <3>2, <3>3
  <2>9. DOMAIN t = 1..(n + 1)
    OBVIOUS
  <2> HIDE DEF t
  <2>10. t \in NewestFirst(ls, T)
    BY <2>3, <2>7, <2>8, <2>9 DEF NewestFirst
  <2> QED BY <2>10
<1> HIDE DEF G
<1>3. S \in G
  <2>1. \A T \in SUBSET S : T # {} /\ (\A x \in T : T \ {x} \in G) => T \in G
    BY <1>2
  <2> QED BY <1>1, <2>1, FromTheEmptySet
<1> QED BY <1>3 DEF G

\* What is sorted is there once each.
LEMMA SortedLines ==
  ASSUME NEW ls, NEW S, IsFiniteSet(S), Timed(ls, S), NEW s, s = SortLogs(ls, S)
  PROVE  /\ Cardinality(S) \in Nat /\ s \in [1..Cardinality(S) -> S]
         /\ s \in Seq(S) /\ Len(s) = Cardinality(S)
         /\ \A i, j \in 1..Cardinality(S) : s[i] = s[j] => i = j
         /\ \A x \in S : \E i \in 1..Cardinality(S) : s[i] = x
<1> DEFINE n == Cardinality(S)
<1>1. n \in Nat
  BY FS_CardinalityType
<1>2. s \in NewestFirst(ls, S)
  BY LinesCanBeSorted DEF SortLogs
<1>3. s \in [1..n -> S] /\ \A i, j \in 1..n : i < j => s[i] # s[j]
  BY <1>2 DEF NewestFirst
<1>4. \A i, j \in 1..n : s[i] = s[j] => i = j
  BY <1>1, <1>3
<1>5. IsFiniteSet(1..n) /\ Cardinality(1..n) = n
  BY <1>1, FS_Interval
<1>6. s \in Injection(1..n, S)
  BY <1>3, <1>4 DEF Injection, IsInjective
<1>7. s \in Surjection(1..n, S)
  BY <1>5, <1>6, FS_Injection
<1>8. \A x \in S : \E i \in 1..n : s[i] = x
  BY <1>7 DEF Surjection
<1>9. s \in Seq(S) /\ Len(s) = n
  <2> HIDE DEF n
  <2>1. DOMAIN s = 1..n /\ s = [i \in 1..n |-> s[i]] /\ \A i \in 1..n : s[i] \in S
    BY <1>3
  <2>2. [i \in 1..n |-> s[i]] \in Seq(S)
    BY <1>1, <2>1, IsASeq
  <2> QED BY <1>1, <2>1, <2>2, LenProperties
<1> QED BY <1>1, <1>3, <1>4, <1>8, <1>9

\* Those whose value is one, or one of several.
Where(S, f, v) == {x \in S : f[x] = v}
WhereIn(S, f, P) == {x \in S : f[x] \in P}

\* Counting by a function: what has a value in a set is counted value by value.
LEMMA CountedByValue ==
  ASSUME NEW S, IsFiniteSet(S), NEW P, IsFiniteSet(P), NEW f, NEW c,
         \A p \in P : c[p] = Cardinality(Where(S, f, p))
  PROVE  SumFunctionOnSet(c, P) = Cardinality(WhereIn(S, f, P))
<1> USE DEF Where, WhereIn
<1> DEFINE of(T) == {x \in S : f[x] \in T}
           G == {T \in SUBSET P : SumFunctionOnSet(c, T) = Cardinality(of(T))}
<1>1. {} \in G
  <2>1. of({}) = {}
    OBVIOUS
  <2> QED BY <2>1, SumOfNothing, FS_EmptySet
<1>2. ASSUME NEW T \in SUBSET P, T # {}, \A p \in T : T \ {p} \in G PROVE T \in G
  <2> DEFINE p == Chosen(T)
             one == {x \in S : f[x] = p}
  <2>1. IsFiniteSet(T)
    BY FS_Subset
  <2>2. p \in T /\ SumFunctionOnSet(c, T) = c[p] + SumFunctionOnSet(c, T \ {p})
    BY <1>2, <2>1, SumOfOneMore
  <2>3. SumFunctionOnSet(c, T \ {p}) = Cardinality(of(T \ {p})) /\ c[p] = Cardinality(one)
    BY <1>2, <2>2
  <2> HIDE DEF p
  <2>4. of(T) = one \cup of(T \ {p}) /\ one \cap of(T \ {p}) = {}
    BY <2>2
  <2>5. IsFiniteSet(one) /\ IsFiniteSet(of(T \ {p}))
    BY FS_Subset
  <2> HIDE DEF of, one
  <2>6. Cardinality(one) \in Nat /\ Cardinality(of(T \ {p})) \in Nat
    BY <2>5, FS_CardinalityType
  <2>7. Cardinality(of(T)) = Cardinality(one) + Cardinality(of(T \ {p}))
    <3>1. Cardinality(of(T)) = Cardinality(one) + Cardinality(of(T \ {p})) - Cardinality({})
      <4>1. Cardinality(one \cup of(T \ {p})) = Cardinality(one) + Cardinality(of(T \ {p})) - Cardinality(one \cap of(T \ {p}))
        BY <2>5, FS_Union
      <4> QED BY <2>4, <4>1
    <3>2. Cardinality({}) = 0
      BY FS_EmptySet
    <3> QED BY <2>6, <3>1, <3>2
  <2>8. SumFunctionOnSet(c, T) = Cardinality(of(T))
    BY <2>2, <2>3, <2>7
  <2> QED BY <2>8
<1> HIDE DEF G, of
<1>3. P \in G
  <2>1. \A T \in SUBSET P : T # {} /\ (\A x \in T : T \ {x} \in G) => T \in G
    BY <1>2
  <2> QED BY <1>1, <2>1, FromTheEmptySet
<1> QED BY <1>3 DEF G, of

\* What can be paired is as much.
LEMMA PairedIsAsMuch ==
  ASSUME NEW S, NEW T, IsFiniteSet(S), NEW f, \A x \in S : f[x] \in T,
         \A x, y \in S : f[x] = f[y] => x = y, \A y \in T : \E x \in S : f[x] = y
  PROVE  IsFiniteSet(T) /\ Cardinality(T) = Cardinality(S)
<1> DEFINE g == [x \in S |-> f[x]]
<1>1. g \in Bijection(S, T)
  BY DEF Bijection, Injection, Surjection, IsInjective
<1>2. ExistsBijection(S, T)
  BY <1>1 DEF ExistsBijection
<1> QED BY <1>2, FS_Bijection

\* A place in a list is on one page, at one place of it,
LEMMA OnePage ==
  ASSUME NEW size \in Nat \ {0}, NEW j \in Nat \ {0}
  PROVE  \E p \in 1..j, k \in 1..size : j = (p - 1) * size + k
<1> DEFINE q == (j - 1) \div size
           r == (j - 1) % size
<1>1. j - 1 \in Nat /\ size > 0
  OBVIOUS
<1>2. q \in Nat /\ r \in 0..(size - 1) /\ j - 1 = q * size + r
  BY <1>1, SMT
<1> HIDE DEF q, r
<1>3. q <= q * size
  BY <1>2
<1>4. q + 1 \in 1..j /\ r + 1 \in 1..size /\ j = ((q + 1) - 1) * size + (r + 1)
  BY <1>1, <1>2, <1>3
<1> QED BY <1>4

\* and on no other.
LEMMA OnlyOnePage ==
  ASSUME NEW size \in Nat \ {0}, NEW p \in Nat, NEW q \in Nat, NEW k \in 1..size, NEW l \in 1..size,
         (p - 1) * size + k = (q - 1) * size + l
  PROVE  p = q /\ k = l
<1>1. ASSUME NEW a \in Nat, NEW b \in Nat, a < b, NEW m \in 1..size, NEW n \in 1..size
      PROVE  (a - 1) * size + m < (b - 1) * size + n
  <2>1. b - 1 = (a - 1) + (b - a) /\ b - a >= 1 /\ b - a \in Nat
    BY <1>1
  <2>2. (b - 1) * size = (a - 1) * size + (b - a) * size
    BY <2>1
  <2>3. (b - a) * size >= size
    BY <2>1
  <2> QED BY <2>1, <2>2, <2>3
<1>2. p = q
  <2>1. (p - 1) * size + k \in Int /\ (q - 1) * size + l \in Int
    OBVIOUS
  <2> QED BY <1>1, <2>1
<1> QED BY <1>2

\* What a slice has, and where.
LEMMA SliceIs ==
  ASSUME NEW S, NEW s \in Seq(S), NEW start \in Nat, NEW size \in Nat
  PROVE  /\ DOMAIN Slice(s, start, size) = {k \in 1..size : start + k <= Len(s)}
         /\ \A k \in 1..size : start + k <= Len(s) => Slice(s, start, size)[k] = s[start + k]
         /\ Len(Slice(s, start, size)) = Cardinality(DOMAIN Slice(s, start, size))
<1> DEFINE n == Len(s)
           end == IF start + size < n THEN start + size ELSE n
           t == SubSeq(s, start + 1, end)
           len == IF start + 1 <= end THEN end - (start + 1) + 1 ELSE 0
<1>1. n \in Nat /\ \A i \in 1..n : s[i] \in S
  OBVIOUS
<1>2. Slice(s, start, size) = t
  BY DEF Slice
<1> HIDE DEF n
<1>3. end \in Nat /\ start + 1 \in Int /\ end <= n /\ len \in Nat
  BY <1>1
<1>4. \A i \in (start + 1)..end : s[i] \in S
  BY <1>1, <1>3
<1>5. \A k \in 1..size : start + k <= n <=> k <= end - start
  BY <1>1
<1>6. end - (start + 1) + 1 = end - start
  BY <1>3
<1> HIDE DEF end
<1>7. /\ t \in Seq(S) /\ Len(t) = len
      /\ \A i \in 1..(end - (start + 1) + 1) : t[i] = s[start + 1 + i - 1]
  BY <1>3, <1>4, SubSeqProperties
<1>8. DOMAIN t = 1..len
  BY <1>7
<1>9. len = IF start + 1 <= end THEN end - start ELSE 0
  BY <1>6
<1>10. 1..len = {k \in 1..size : start + k <= n}
  <2>1. end - start <= size
    BY <1>1 DEF end
  <2> QED BY <1>3, <1>5, <1>9, <2>1
<1>11. ASSUME NEW k \in 1..size, start + k <= n PROVE t[k] = s[start + k]
  <2>1. k <= end - start
    BY <1>5, <1>11
  <2>2. k \in 1..(end - (start + 1) + 1) /\ start + 1 + k - 1 = start + k
    BY <1>3, <1>6, <2>1
  <2> QED BY <1>7, <2>2
<1> HIDE DEF t, len
<1>12. Cardinality(1..len) = len
  <2>1. len \in Int /\ (1 > len => len = 0) /\ (len - 1) + 1 = len
    BY <1>3
  <2> QED BY <2>1, FS_Interval
<1> QED BY <1>2, <1>7, <1>8, <1>10, <1>11, <1>12 DEF n

\* A list in pages of a size, and how much of a set is on each of them.
CutInto(page, s, size, m) == \A p \in 1..m : page[p] = Slice(s, (p - 1) * size, size)
CountsOn(c, page, B, m) ==
  \A p \in 1..m : c[p] = Cardinality({k \in DOMAIN page[p] : page[p][k] \in B})

\* The pages of a list that is cut into as many as it has lines, or more.
LEMMA PagesShowAll ==
  ASSUME NEW ls, NEW S, IsFiniteSet(S), Timed(ls, S), NEW m \in Nat, Cardinality(S) <= m,
         NEW size \in Nat \ {0}, NEW B, NEW page, NEW c,
         CutInto(page, SortLogs(ls, S), size, m), CountsOn(c, page, B, m)
  PROVE  SumFunctionOnSet(c, 1..m) = Cardinality(S \cap B)
<1> DEFINE s == SortLogs(ls, S)
           n == Cardinality(S)
           J == {j \in 1..n : s[j] \in B}
           Lies(j, p, k) == p \in 1..m /\ k \in 1..size /\ j = (p - 1) * size + k
           f == [j \in J |-> CHOOSE p \in 1..m : \E k \in 1..size : Lies(j, p, k)]
<1>1. /\ n \in Nat /\ s \in [1..n -> S] /\ s \in Seq(S) /\ Len(s) = n
      /\ \A i, j \in 1..n : s[i] = s[j] => i = j
      /\ \A x \in S : \E i \in 1..n : s[i] = x
  BY SortedLines
<1>2. IsFiniteSet(J) /\ IsFiniteSet(1..m)
  <2>1. n \in Int /\ m \in Int
    BY <1>1
  <2> HIDE DEF n
  <2>2. IsFiniteSet(1..n) /\ IsFiniteSet(1..m)
    BY <2>1, FS_Interval
  <2> QED BY <2>2, FS_Subset
<1>3. Cardinality(J) = Cardinality(S \cap B)
  <2> HIDE DEF s, n
  <2>1. \A j \in J : s[j] \in S \cap B
    BY <1>1
  <2>2. \A i, j \in J : s[i] = s[j] => i = j
    BY <1>1
  <2>3. \A x \in S \cap B : \E j \in J : s[j] = x
    BY <1>1
  <2> HIDE DEF J
  <2> QED BY <1>2, <2>1, <2>2, <2>3, PairedIsAsMuch
<1>4. ASSUME NEW j \in J PROVE f[j] \in 1..m /\ \E k \in 1..size : Lies(j, f[j], k)
  <2>1. j \in Nat \ {0} /\ j <= m
    BY <1>1
  <2>2. \E p \in 1..j, k \in 1..size : j = (p - 1) * size + k
    BY <2>1, OnePage
  <2>3. \E p \in 1..m : \E k \in 1..size : Lies(j, p, k)
    BY <2>1, <2>2
  <2> HIDE DEF Lies, J
  <2> QED BY <2>3
<1>5. ASSUME NEW p \in 1..m PROVE c[p] = Cardinality({j \in J : f[j] = p})
  <2> DEFINE K == {k \in DOMAIN page[p] : page[p][k] \in B}
             g == [k \in K |-> (p - 1) * size + k]
  <2>1. (p - 1) * size \in Nat
    OBVIOUS
  <2>2. /\ DOMAIN page[p] = {k \in 1..size : (p - 1) * size + k <= n}
        /\ \A k \in 1..size : (p - 1) * size + k <= n => page[p][k] = s[(p - 1) * size + k]
    <3> HIDE DEF s, n
    <3>1. page[p] = Slice(s, (p - 1) * size, size) /\ size \in Nat
      BY DEF s, CutInto
    <3> DEFINE from == (p - 1) * size
    <3> HIDE DEF from
    <3>2. from \in Nat /\ size \in Nat /\ s \in Seq(S) /\ Len(s) = n
      BY <1>1, <2>1 DEF from
    <3>3. /\ DOMAIN Slice(s, from, size) = {k \in 1..size : from + k <= Len(s)}
          /\ \A k \in 1..size : from + k <= Len(s) => Slice(s, from, size)[k] = s[from + k]
      BY <3>2, SliceIs
    <3>4. page[p] = Slice(s, from, size)
      BY <3>1 DEF from
    <3>5. /\ DOMAIN page[p] = {k \in 1..size : from + k <= n}
          /\ \A k \in 1..size : from + k <= n => page[p][k] = s[from + k]
      BY <3>2, <3>3, <3>4
    <3> QED BY <3>5 DEF from
  <2> HIDE DEF s, n
  <2>3. \A k \in K : k \in 1..size /\ g[k] = (p - 1) * size + k /\ g[k] <= n /\ page[p][k] = s[g[k]] /\ page[p][k] \in B
    BY <2>2
  <2> HIDE DEF g
  <2>4. \A k \in K : g[k] \in J
    BY <1>1, <2>1, <2>3
  <2>5. ASSUME NEW k \in K PROVE f[g[k]] = p
    <3>1. PICK l \in 1..size : Lies(g[k], f[g[k]], l)
      BY <1>4, <2>4, <2>5
    <3>2. f[g[k]] \in 1..m
      BY <1>4, <2>4, <2>5
    <3> HIDE DEF f
    <3>3. (f[g[k]] - 1) * size + l = (p - 1) * size + k
      BY <2>3, <2>5, <3>1
    <3>4. f[g[k]] \in Nat /\ p \in Nat /\ k \in 1..size
      BY <2>3, <2>5, <3>2
    <3> QED BY <3>3, <3>4, OnlyOnePage
  <2>6. \A k, l \in K : g[k] = g[l] => k = l
    BY <2>1, <2>3
  <2>7. ASSUME NEW j \in J, f[j] = p PROVE \E k \in K : g[k] = j
    <3>1. PICK k \in 1..size : Lies(j, p, k)
      BY <1>4, <2>7
    <3>2. j = (p - 1) * size + k /\ j \in 1..n /\ s[j] \in B
      BY <3>1, <2>7
    <3>3. (p - 1) * size + k <= n
      BY <1>1, <3>2
    <3>4. k \in K
      BY <2>2, <3>2, <3>3
    <3> QED BY <2>3, <3>2, <3>4
  <2>8. IsFiniteSet(K)
    <3>1. IsFiniteSet(1..size)
      BY FS_Interval
    <3>2. K \in SUBSET (1..size)
      BY <2>2
    <3> QED BY <3>1, <3>2, FS_Subset
  <2>9. c[p] = Cardinality(K)
    BY DEF CountsOn
  <2> DEFINE T == {j \in J : f[j] = p}
  <2>10. \A k \in K : g[k] \in T
    BY <2>4, <2>5
  <2>11. \A j \in T : \E k \in K : g[k] = j
    BY <2>7
  <2> HIDE DEF K, T, J, f
  <2>12. Cardinality(T) = Cardinality(K)
    BY <2>6, <2>8, <2>10, <2>11, PairedIsAsMuch
  <2> QED BY <2>9, <2>12 DEF T
<1>6. {j \in J : f[j] \in 1..m} = J
  BY <1>4
<1> HIDE DEF J, f
<1>7. SumFunctionOnSet(c, 1..m) = Cardinality({j \in J : f[j] \in 1..m})
  <2> DEFINE P == 1..m
  <2>1. IsFiniteSet(J) /\ IsFiniteSet(P) /\ \A p \in P : c[p] = Cardinality(Where(J, f, p))
    BY <1>2, <1>5 DEF Where
  <2> HIDE DEF P
  <2>2. SumFunctionOnSet(c, P) = Cardinality(WhereIn(J, f, P))
    BY <2>1, CountedByValue
  <2> QED BY <2>2 DEF P, WhereIn
<1> QED BY <1>3, <1>6, <1>7

\* What a function makes of finitely many is finite.
LEMMA ValuesAreFinite ==
  ASSUME NEW S, IsFiniteSet(S), NEW f
  PROVE  IsFiniteSet({f[x] : x \in S})
<1> DEFINE g == [x \in S |-> f[x]]
           T == {f[x] : x \in S}
<1>1. g \in Surjection(S, T)
  BY DEF Surjection
<1> QED BY <1>1, FS_Surjection

\* In groups by a value they are as many as there are.
LEMMA GroupsAddUp ==
  ASSUME NEW R, IsFiniteSet(R), NEW S, S \subseteq R, NEW f, NEW c, NEW P, P = {f[x] : x \in R},
         \A p \in P : c[p] = Cardinality(Where(S, f, p))
  PROVE  SumFunctionOnSet(c, P) = Cardinality(S)
<1>1. IsFiniteSet(S) /\ IsFiniteSet(P)
  BY FS_Subset, ValuesAreFinite
<1>2. WhereIn(S, f, P) = S
  BY DEF WhereIn
<1>3. SumFunctionOnSet(c, P) = Cardinality(WhereIn(S, f, P))
  BY <1>1, CountedByValue
<1> QED BY <1>2, <1>3

\* The file is a sequence of lines.
LinesTyped == lines \in Seq(LineKinds)

\* What is entire of it is finite, and has a time and a status.
LEMMA EntireAreLines ==
  ASSUME LinesTyped, NEW S, S \subseteq Entire(lines)
  PROVE  /\ IsFiniteSet(S) /\ Cardinality(S) \in Nat /\ Cardinality(S) <= Len(lines) + 1
         /\ Len(lines) + 1 \in Nat /\ S \subseteq DOMAIN lines /\ Timed(lines, S)
         /\ \A i \in S : lines[i].status \in Int /\ lines[i].day \in Int
<1> DEFINE n == Len(lines)
<1>1. n \in Nat /\ DOMAIN lines = 1..n /\ \A i \in 1..n : lines[i] \in LineKinds
  BY DEF LinesTyped
<1> HIDE DEF n
<1>2. S \subseteq 1..n /\ \A i \in S : "junk" \notin DOMAIN lines[i]
  BY <1>1 DEF Entire
<1>3. \A i \in S : lines[i].day \in Int /\ lines[i].hour \in Int /\ lines[i].status \in Int
  BY <1>1, <1>2, LinesAssumption
<1>4. IsFiniteSet(1..n) /\ Cardinality(1..n) = n
  BY <1>1, FS_Interval
<1>5. IsFiniteSet(S) /\ Cardinality(S) <= n
  BY <1>2, <1>4, FS_Subset
<1>6. Cardinality(S) \in Nat
  BY <1>5, FS_CardinalityType
<1> QED BY <1>1, <1>2, <1>3, <1>5, <1>6 DEF n, Timed

\* Pages that show lines show each of them once.
LEMMA PagesShowEachOnce ==
  ASSUME LinesTyped, NEW S, S \subseteq Entire(lines), NEW size \in Nat \ {0}, NEW page,
         DOMAIN page = 1..(Len(lines) + 1),
         CutInto(page, SortLogs(lines, S), size, Len(lines) + 1)
  PROVE  EachOnce(page, S)
<1> DEFINE m == Len(lines) + 1
<1> SUFFICES ASSUME NEW i \in DOMAIN lines
             PROVE  Sum(Occurrences(page, {i})) = IF i \in S THEN 1 ELSE 0
  BY DEF EachOnce
<1> DEFINE c == Occurrences(page, {i})
<1>1. /\ IsFiniteSet(S) /\ Cardinality(S) <= m /\ m \in Nat /\ Timed(lines, S)
  BY EntireAreLines
<1>2. DOMAIN c = 1..m /\ CountsOn(c, page, {i}, m)
  BY DEF Occurrences, CountsOn
<1> HIDE DEF c, m
<1>3. SumFunctionOnSet(c, 1..m) = Cardinality(S \cap {i})
  BY <1>1, <1>2, PagesShowAll DEF m
<1>4. Cardinality(S \cap {i}) = IF i \in S THEN 1 ELSE 0
  <2>1. CASE i \in S
    <3>1. S \cap {i} = {i}
      BY <2>1
    <3> QED BY <2>1, <3>1, FS_Singleton
  <2>2. CASE i \notin S
    <3>1. S \cap {i} = {}
      BY <2>2
    <3> QED BY <2>2, <3>1, FS_EmptySet
  <2> QED BY <2>1, <2>2
<1>5. Sum(c) = SumFunctionOnSet(c, 1..m)
  BY <1>2 DEF Sum
<1> QED BY <1>3, <1>4, <1>5 DEF c

\* What pages count of their lines adds up to what there is of them.
LEMMA PagesAddUp ==
  ASSUME LinesTyped, NEW S, S \subseteq Entire(lines), NEW size \in Nat \ {0}, NEW page,
         CutInto(page, SortLogs(lines, S), size, Len(lines) + 1), NEW B, B \subseteq S, NEW c,
         DOMAIN c = 1..(Len(lines) + 1), CountsOn(c, page, B, Len(lines) + 1)
  PROVE  Sum(c) = Cardinality(B)
<1> DEFINE m == Len(lines) + 1
<1>1. /\ IsFiniteSet(S) /\ Cardinality(S) <= m /\ m \in Nat /\ Timed(lines, S)
  BY EntireAreLines
<1>2. DOMAIN c = 1..m /\ CountsOn(c, page, B, m) /\ CutInto(page, SortLogs(lines, S), size, m)
  OBVIOUS
<1> HIDE DEF m
<1>3. SumFunctionOnSet(c, 1..m) = Cardinality(S \cap B)
  BY <1>1, <1>2, PagesShowAll
<1>4. S \cap B = B
  OBVIOUS
<1> QED BY <1>2, <1>3, <1>4 DEF Sum

\* What is on a page is of the list.
LEMMA PagesAreOfList ==
  ASSUME LinesTyped, NEW S, S \subseteq Entire(lines), NEW size \in Nat \ {0}, NEW page,
         CutInto(page, SortLogs(lines, S), size, Len(lines) + 1), NEW p \in 1..(Len(lines) + 1)
  PROVE  /\ \A k \in DOMAIN page[p] : page[p][k] \in S
         /\ Len(page[p]) = Cardinality(DOMAIN page[p])
<1> DEFINE s == SortLogs(lines, S)
           from == (p - 1) * size
<1>1. /\ IsFiniteSet(S) /\ Timed(lines, S) /\ Len(lines) + 1 \in Nat
  BY EntireAreLines
<1>2. s \in Seq(S)
  BY <1>1, SortedLines
<1>3. page[p] = Slice(s, from, size) /\ from \in Nat /\ size \in Nat
  BY <1>1 DEF CutInto
<1> HIDE DEF s, from
<1>4. /\ DOMAIN Slice(s, from, size) = {k \in 1..size : from + k <= Len(s)}
      /\ \A k \in 1..size : from + k <= Len(s) => Slice(s, from, size)[k] = s[from + k]
      /\ Len(Slice(s, from, size)) = Cardinality(DOMAIN Slice(s, from, size))
  BY <1>2, <1>3, SliceIs
<1>5. \A j \in 1..Len(s) : s[j] \in S
  BY <1>2
<1>6. \A k \in 1..size : from + k <= Len(s) => from + k \in 1..Len(s)
  <2>1. Len(s) \in Nat
    BY <1>2
  <2> QED BY <1>3, <2>1
<1> QED BY <1>3, <1>4, <1>5, <1>6

\* What a trend counts hour by hour adds up to what there is.
LEMMA TrendAddsUp ==
  ASSUME LinesTyped, NEW R, R \subseteq Entire(lines), NEW S, S \subseteq R, NEW c,
         DOMAIN c = {HourOf(lines[i]) : i \in R},
         \A h \in DOMAIN c : c[h] = Cardinality({i \in S : HourOf(lines[i]) = h})
  PROVE  Sum(c) = Cardinality(S)
<1> DEFINE f == [i \in R |-> HourOf(lines[i])]
           P == {f[i] : i \in R}
<1>1. IsFiniteSet(R)
  BY EntireAreLines
<1>2. P = DOMAIN c
  OBVIOUS
<1>3. \A p \in P : c[p] = Cardinality(Where(S, f, p))
  <2> SUFFICES ASSUME NEW p \in P PROVE c[p] = Cardinality(Where(S, f, p))
    OBVIOUS
  <2>1. Where(S, f, p) = {i \in S : HourOf(lines[i]) = p}
    BY DEF Where
  <2>2. p \in DOMAIN c
    BY <1>2
  <2> QED BY <2>1, <2>2
<1> DEFINE Q == P
<1> HIDE DEF f
<1>4. Q = {f[x] : x \in R}
  OBVIOUS
<1> HIDE DEF Q
<1>5. SumFunctionOnSet(c, Q) = Cardinality(S)
  BY <1>1, <1>3, <1>4, GroupsAddUp
<1> QED BY <1>2, <1>5 DEF Sum, Q

\* The list of the file, its statistics and those of its pages.
LEMMA FileAlwaysAgrees ==
  ASSUME LinesTyped, NEW size \in Nat \ {0}, NEW b, NEW e
  PROVE  FileAgrees(b, e, size)
<1> DEFINE query(p) == [from |-> b, to |-> e, page |-> p, size |-> size]
           m == Len(lines) + 1
           pages == 1..m
           list == [p \in pages |-> ReadAndFilterLogs(lines, query(p))]
           simple == [p \in pages |-> GetSimpleStats(lines, query(p))]
           stats == CalculateLogStats(lines, query(1))
           all == stats.all
           trend == stats.trend
           F == Matching(lines, query(1))
           s == SortLogs(lines, F)
           page == [p \in pages |-> list[p].entries]
           E == ErrorsFrom(400, lines, F)
           G == ErrorsFrom(500, lines, F)
           B == BlockedOf(lines, F)
           fails == \E i \in DOMAIN lines : TooLong(lines[i])
<1>1. \A p \in pages : query(p).from = b /\ query(p).to = e /\ query(p).page = p /\ query(p).size = size
  OBVIOUS
<1>2. query(1).from = b /\ query(1).to = e
  OBVIOUS
<1>3. \A p \in pages : Matching(lines, query(p)) = F
  BY <1>1, <1>2 DEF Matching, MatchLogEntry
<1>4. F \subseteq Entire(lines)
  BY DEF Matching, Parsed
<1>5. /\ IsFiniteSet(F) /\ Cardinality(F) \in Nat /\ Timed(lines, F)
      /\ \A i \in F : lines[i].status \in Int
  BY <1>4, EntireAreLines
<1>6. Len(s) = Cardinality(F)
  BY <1>5, SortedLines
<1>7. ~fails => \A p \in pages : list[p] = [err |-> FALSE, total |-> Len(s), entries |-> Slice(s, (p - 1) * size, size)]
  <2> SUFFICES ASSUME ~fails, NEW p \in pages
               PROVE  ReadAndFilterLogs(lines, query(p))
                        = [err |-> FALSE, total |-> Len(s), entries |-> Slice(s, (p - 1) * size, size)]
    OBVIOUS
  <2>1. FirstOfPage(query(p)) = (p - 1) * size
    BY <1>1 DEF FirstOfPage
  <2> QED BY <1>1, <1>3, <2>1 DEF ReadAndFilterLogs
<1>8. /\ E \subseteq F /\ G \subseteq E /\ B \subseteq F
  BY <1>5 DEF ErrorsFrom, BlockedOf
<1>9. /\ all.requests = Cardinality(F) /\ all.blocked = Cardinality(B) /\ all.errors = Cardinality(G)
      /\ DOMAIN trend = {HourOf(lines[i]) : i \in F}
      /\ \A h \in DOMAIN trend :
           LET at == {i \in F : HourOf(lines[i]) = h}
           IN /\ trend[h].requests = Cardinality(at)
              /\ trend[h].blocked = Cardinality(BlockedOf(lines, at))
              /\ trend[h].errors = Cardinality(ErrorsFrom(500, lines, at))
  <2> QED BY DEF CalculateLogStats
<1>10. ASSUME ~fails
       PROVE  /\ CutInto(page, s, size, m) /\ DOMAIN page = pages
              /\ \A p \in pages : ~list[p].err /\ list[p].total = Len(s)
  <2> HIDE DEF list, s, fails
  <2>1. \A p \in pages : /\ ~list[p].err /\ list[p].total = Len(s)
                         /\ list[p].entries = Slice(s, (p - 1) * size, size)
    <3> SUFFICES ASSUME NEW p \in pages
                 PROVE  /\ ~list[p].err /\ list[p].total = Len(s)
                        /\ list[p].entries = Slice(s, (p - 1) * size, size)
      OBVIOUS
    <3> DEFINE t == Slice(s, (p - 1) * size, size)
    <3>1. list[p] = [err |-> FALSE, total |-> Len(s), entries |-> t]
      BY <1>7, <1>10
    <3> HIDE DEF t
    <3>2. ~list[p].err /\ list[p].total = Len(s) /\ list[p].entries = t
      BY <3>1
    <3> QED BY <3>2 DEF t
  <2>2. \A p \in pages : page[p] = Slice(s, (p - 1) * size, size)
    BY <2>1
  <2> HIDE DEF page
  <2>3. CutInto(page, s, size, m)
    BY <2>2 DEF CutInto
  <2> QED BY <2>1, <2>3 DEF page
<1>11. \A p \in pages : simple[p] = CalculateSimpleStats(lines, page[p])
  BY DEF GetSimpleStats
<1> HIDE DEF list, simple, stats, all, trend, F, s, page, E, G, B, m, fails
<1>12. ASSUME ~fails PROVE EachOnce(page, F)
  BY <1>12, <1>4, <1>10, PagesShowEachOnce DEF s, m
<1>13. ASSUME ~fails PROVE \A p \in pages : ~list[p].err /\ list[p].total = all.requests
  BY <1>13, <1>6, <1>9, <1>10
<1>14. ASSUME ~fails
       PROVE  \A p \in pages : /\ \A k \in DOMAIN page[p] : page[p][k] \in F
                               /\ Len(page[p]) = Cardinality(DOMAIN page[p])
  BY <1>14, <1>4, <1>10, PagesAreOfList DEF s, m
<1>15. ASSUME ~fails, NEW p \in pages
       PROVE  /\ simple[p].total = Cardinality({k \in DOMAIN page[p] : page[p][k] \in F})
              /\ simple[p].blocked = Cardinality({k \in DOMAIN page[p] : page[p][k] \in B})
              /\ simple[p].errors = Cardinality({k \in DOMAIN page[p] : page[p][k] \in E})
  <2>1. /\ simple[p].total = Len(page[p])
        /\ simple[p].blocked = Cardinality({k \in DOMAIN page[p] : IsBlock(lines[page[p][k]])})
        /\ simple[p].errors = Cardinality({k \in DOMAIN page[p] : lines[page[p][k]].status >= 400})
    <3> DEFINE t == page[p]
    <3>1. simple[p] = CalculateSimpleStats(lines, t)
      BY <1>11
    <3> HIDE DEF t
    <3>2. /\ CalculateSimpleStats(lines, t).total = Len(t)
          /\ CalculateSimpleStats(lines, t).blocked = Cardinality({k \in DOMAIN t : IsBlock(lines[t[k]])})
          /\ CalculateSimpleStats(lines, t).errors = Cardinality({k \in DOMAIN t : lines[t[k]].status >= 400})
      BY DEF CalculateSimpleStats
    <3> QED BY <3>1, <3>2 DEF t
  <2>2. {k \in DOMAIN page[p] : page[p][k] \in F} = DOMAIN page[p]
    BY <1>14, <1>15
  <2>3. {k \in DOMAIN page[p] : page[p][k] \in B} = {k \in DOMAIN page[p] : IsBlock(lines[page[p][k]])}
    BY <1>14, <1>15 DEF B, BlockedOf
  <2>4. {k \in DOMAIN page[p] : page[p][k] \in E} = {k \in DOMAIN page[p] : lines[page[p][k]].status >= 400}
    BY <1>14, <1>15 DEF E, ErrorsFrom
  <2> QED BY <1>14, <1>15, <2>1, <2>2, <2>3, <2>4
<1>16. ASSUME ~fails
       PROVE  /\ Sum([p \in pages |-> simple[p].total]) = Cardinality(F)
              /\ Sum([p \in pages |-> simple[p].blocked]) = Cardinality(B)
              /\ Sum([p \in pages |-> simple[p].errors]) = Cardinality(E)
  <2>1. ASSUME NEW S, S \subseteq F, NEW c, DOMAIN c = pages, CountsOn(c, page, S, m)
        PROVE  Sum(c) = Cardinality(S)
    BY <1>4, <1>10, <1>16, <2>1, PagesAddUp DEF s, m
  <2>2. /\ CountsOn([p \in pages |-> simple[p].total], page, F, m)
        /\ CountsOn([p \in pages |-> simple[p].blocked], page, B, m)
        /\ CountsOn([p \in pages |-> simple[p].errors], page, E, m)
    BY <1>15, <1>16 DEF CountsOn
  <2>3. /\ DOMAIN [p \in pages |-> simple[p].total] = pages
        /\ DOMAIN [p \in pages |-> simple[p].blocked] = pages
        /\ DOMAIN [p \in pages |-> simple[p].errors] = pages
    OBVIOUS
  <2>4. Sum([p \in pages |-> simple[p].total]) = Cardinality(F)
    BY <2>1, <2>2, <2>3
  <2>5. Sum([p \in pages |-> simple[p].blocked]) = Cardinality(B)
    BY <1>8, <2>1, <2>2, <2>3
  <2>6. Sum([p \in pages |-> simple[p].errors]) = Cardinality(E)
    BY <1>8, <2>1, <2>2, <2>3
  <2> QED BY <2>4, <2>5, <2>6
<1>17. Cardinality(G) <= Cardinality(E) /\ Cardinality(G) \in Nat /\ Cardinality(E) \in Nat
  BY <1>5, <1>8, FS_Subset, FS_CardinalityType
<1>18. /\ Sum([h \in DOMAIN trend |-> trend[h].requests]) = Cardinality(F)
       /\ Sum([h \in DOMAIN trend |-> trend[h].blocked]) = Cardinality(B)
       /\ Sum([h \in DOMAIN trend |-> trend[h].errors]) = Cardinality(G)
  <2>1. ASSUME NEW S, S \subseteq F, NEW c, DOMAIN c = DOMAIN trend,
               \A h \in DOMAIN trend : c[h] = Cardinality({i \in S : HourOf(lines[i]) = h})
        PROVE  Sum(c) = Cardinality(S)
    BY <1>4, <1>9, <2>1, TrendAddsUp
  <2>2. ASSUME NEW h \in DOMAIN trend
        PROVE  /\ trend[h].requests = Cardinality({i \in F : HourOf(lines[i]) = h})
               /\ trend[h].blocked = Cardinality({i \in B : HourOf(lines[i]) = h})
               /\ trend[h].errors = Cardinality({i \in G : HourOf(lines[i]) = h})
    <3> DEFINE at == {i \in F : HourOf(lines[i]) = h}
    <3>1. BlockedOf(lines, at) = {i \in B : HourOf(lines[i]) = h}
      BY DEF BlockedOf, B
    <3>2. ErrorsFrom(500, lines, at) = {i \in G : HourOf(lines[i]) = h}
      BY DEF ErrorsFrom, G
    <3>3. /\ trend[h].requests = Cardinality(at)
          /\ trend[h].blocked = Cardinality(BlockedOf(lines, at))
          /\ trend[h].errors = Cardinality(ErrorsFrom(500, lines, at))
      BY <1>9
    <3> QED BY <3>1, <3>2, <3>3
  <2>3. Sum([h \in DOMAIN trend |-> trend[h].requests]) = Cardinality(F)
    BY <2>1, <2>2
  <2>4. Sum([h \in DOMAIN trend |-> trend[h].blocked]) = Cardinality(B)
    BY <1>8, <2>1, <2>2
  <2>5. Sum([h \in DOMAIN trend |-> trend[h].errors]) = Cardinality(G)
    <3>1. G \subseteq F
      BY <1>8
    <3> QED BY <3>1, <2>1, <2>2
  <2> QED BY <2>3, <2>4, <2>5
<1> DEFINE T1 == EachOnce(page, F)
           T2 == Sum([p \in pages |-> simple[p].total]) = all.requests
           T3 == Sum([p \in pages |-> simple[p].blocked]) = all.blocked
           T4 == Sum([p \in pages |-> simple[p].errors]) >= all.errors
           T5 == Sum([h \in DOMAIN trend |-> trend[h].requests]) = all.requests
           T6 == Sum([h \in DOMAIN trend |-> trend[h].blocked]) = all.blocked
           T7 == Sum([h \in DOMAIN trend |-> trend[h].errors]) = all.errors
<1>19. ~fails => T1
  BY <1>12
<1>20. ~fails => T2 /\ T3
  BY <1>9, <1>16
<1>21. ~fails => T4
  BY <1>9, <1>16, <1>17
<1>22. T5 /\ T6 /\ T7
  BY <1>9, <1>18
<1>23. ~fails => \A p \in pages : ~list[p].err /\ list[p].total = all.requests
  BY <1>13
<1> QED BY <1>19, <1>20, <1>21, <1>22, <1>23
        DEF FileAgrees, list, simple, stats, all, trend, F, page, m, fails

\* The rows with one of several values of a field.
WithField(R, field, Q) == {i \in R : lines[i][field] \in Q}

\* Groups by a field: each has as many as there are, and some of them as many as are in
\* them.
LEMMA GroupsByField ==
  ASSUME LinesTyped, NEW R, R \subseteq Entire(lines), NEW field, NEW groups,
         groups = GroupedBy(lines, R, field), NEW Q, Q \subseteq DOMAIN groups,
         NEW c, DOMAIN c = Q, \A v \in Q : c[v] = groups[v]
  PROVE  Sum(c) = Cardinality(WithField(R, field, Q))
<1> DEFINE f == [i \in R |-> lines[i][field]]
<1>1. IsFiniteSet(R)
  BY EntireAreLines
<1>2. DOMAIN groups = {f[i] : i \in R}
  BY DEF GroupedBy
<1>3. \A v \in DOMAIN groups : groups[v] = Cardinality({i \in R : lines[i][field] = v})
  BY DEF GroupedBy
<1>4. \A v \in Q : c[v] = Cardinality(Where(R, f, v))
  <2> SUFFICES ASSUME NEW v \in Q PROVE c[v] = Cardinality(Where(R, f, v))
    OBVIOUS
  <2>1. Where(R, f, v) = {i \in R : lines[i][field] = v}
    BY DEF Where
  <2> HIDE DEF f
  <2> QED BY <1>3, <2>1
<1>5. IsFiniteSet(Q)
  <2> HIDE DEF f
  <2>1. IsFiniteSet({f[i] : i \in R})
    BY <1>1, ValuesAreFinite
  <2> QED BY <1>2, <2>1, FS_Subset
<1>6. WhereIn(R, f, Q) = WithField(R, field, Q)
  BY DEF WhereIn, WithField
<1> HIDE DEF f
<1>7. SumFunctionOnSet(c, Q) = Cardinality(WhereIn(R, f, Q))
  BY <1>1, <1>4, <1>5, CountedByValue
<1> QED BY <1>6, <1>7 DEF Sum

\* The statistics of the rows, their groups, series and pages.
LEMMA RowsAlwaysAgree ==
  ASSUME LinesTyped, NEW weekAgo, weekAgo.day \in Int, NEW since, since.day \in Int,
         NEW today \in Int, NEW limit \in Nat \ {0}
  PROVE  RowsAgree(weekAgo, since, today, limit)
<1> DEFINE found == Entire(lines)
           stats == GetStats(lines, found, weekAgo, today)
           series == GetTimeSeries(lines, found, since)
           m == Len(lines) + 1
           pages == 1..m
           R == Recent(lines, found, weekAgo)
           L == Recent(lines, found, since)
           page == [p \in pages |-> QueryLogs(lines, found, limit, (p - 1) * limit).logs]
<1>1. /\ R \subseteq Entire(lines) /\ IsFiniteSet(R) /\ Cardinality(R) \in Nat
      /\ \A i \in R : lines[i].day \in Int
      /\ L \subseteq Entire(lines) /\ IsFiniteSet(L) /\ Cardinality(L) \in Nat
      /\ \A i \in L : lines[i].day \in Int
  <2>1. R \subseteq Entire(lines) /\ L \subseteq Entire(lines)
    BY DEF Recent
  <2> HIDE DEF R, L
  <2> QED BY <2>1, EntireAreLines
<1>2. /\ stats.total = Cardinality(R) /\ stats.today = Cardinality({i \in R : lines[i].day >= today})
      /\ stats.blocked = Cardinality(BlockedOf(lines, R))
  BY DEF GetStats
<1>3. series = GroupedBy(lines, L, "day")
  BY DEF GetTimeSeries
<1>4. \A field, top : top \in AggregateByField(lines, found, weekAgo, field, limit) =>
        LET groups == GroupedBy(lines, R, field)
        IN /\ DOMAIN top \subseteq DOMAIN groups /\ \A v \in DOMAIN top : top[v] = groups[v]
           /\ Cardinality(DOMAIN top) = limit \/ DOMAIN top = DOMAIN groups
  BY DEF AggregateByField
<1>5. CutInto(page, SortLogs(lines, found), limit, m)
  <2>1. \A p \in pages : page[p] = Slice(SortLogs(lines, found), (p - 1) * limit, limit)
    BY DEF QueryLogs
  <2> HIDE DEF page
  <2> QED BY <2>1 DEF CutInto
<1>6. DOMAIN page = pages
  OBVIOUS
<1> DEFINE between(t, u) == Cardinality(Recent(lines, found, t) \ Recent(lines, found, u))
           early == between(since, weekAgo)
           late == between(weekAgo, since)
<1>11. early = Cardinality(L \ R) /\ late = Cardinality(R \ L)
  OBVIOUS
<1>12. weekAgo.day < today /\ since.day < today =>
         {i \in L : lines[i].day >= today} = {i \in R : lines[i].day >= today}
  <2> SUFFICES ASSUME weekAgo.day < today, since.day < today, NEW i \in found, lines[i].day >= today
               PROVE  NotBefore(lines[i], weekAgo) /\ NotBefore(lines[i], since)
    BY DEF Recent
  <2>1. lines[i].day \in Int
    BY EntireAreLines
  <2> QED BY <2>1 DEF NotBefore
<1> HIDE DEF found, stats, series, m, R, L, page, between, early, late
<1>7. EachOnce(page, found)
  BY <1>5, <1>6, PagesShowEachOnce DEF found, m
<1>8. ASSUME NEW field, NEW top \in AggregateByField(lines, found, weekAgo, field, limit)
      PROVE  /\ Sum(top) <= stats.total
             /\ limit > Cardinality(DOMAIN top) => Sum(top) = stats.total
             /\ field = "action" /\ "block" \in DOMAIN top => top["block"] = stats.blocked
  <2> DEFINE groups == GroupedBy(lines, R, field)
             Q == DOMAIN top
             T == WithField(R, field, Q)
  <2>1. /\ Q \subseteq DOMAIN groups /\ \A v \in Q : top[v] = groups[v]
        /\ Cardinality(Q) = limit \/ Q = DOMAIN groups
    BY <1>4
  <2>2. /\ DOMAIN groups = {lines[i][field] : i \in R}
        /\ \A v \in DOMAIN groups : groups[v] = Cardinality({i \in R : lines[i][field] = v})
    BY DEF GroupedBy
  <2> HIDE DEF groups, Q
  <2>3. Sum(top) = Cardinality(T)
    BY <1>1, <2>1, GroupsByField DEF groups, Q
  <2>4. Cardinality(T) <= Cardinality(R)
    BY <1>1, FS_Subset DEF WithField
  <2>5. ASSUME limit > Cardinality(Q) PROVE T = R
    <3>1. Q = DOMAIN groups
      BY <2>1, <2>5
    <3> QED BY <2>2, <3>1 DEF WithField
  <2>6. ASSUME field = "action", "block" \in Q PROVE top["block"] = stats.blocked
    <3>1. BlockedOf(lines, R) = {i \in R : lines[i][field] = "block"}
      BY <2>6 DEF BlockedOf, IsBlock
    <3>2. top["block"] = Cardinality({i \in R : lines[i][field] = "block"})
      BY <2>1, <2>2, <2>6
    <3> QED BY <1>2, <3>1, <3>2
  <2> QED BY <1>2, <2>3, <2>4, <2>5, <2>6 DEF Q
<1>9. Sum(series) = stats.total + early - late
  <2> DEFINE Q == DOMAIN series
             field == "day"
             T == WithField(L, field, Q)
  <2>1. Q = {lines[i][field] : i \in L}
    BY <1>3 DEF GroupedBy
  <2>2. T = L
    BY <2>1 DEF WithField
  <2>3. series = GroupedBy(lines, L, field) /\ Q \subseteq Q
    BY <1>3
  <2> HIDE DEF field
  <2>4. Sum(series) = Cardinality(T)
    BY <1>1, <2>3, GroupsByField
  <2>5. /\ Cardinality(L \ R) = Cardinality(L) - Cardinality(L \cap R)
        /\ Cardinality(R \ L) = Cardinality(R) - Cardinality(L \cap R)
        /\ Cardinality(L \cap R) \in Nat
    <3>1. R \cap L = L \cap R /\ IsFiniteSet(L \cap R)
      BY <1>1, FS_Intersection
    <3>2. Cardinality(L \cap R) \in Nat
      BY <3>1, FS_CardinalityType
    <3> QED BY <1>1, <3>1, <3>2, FS_Difference
  <2> QED BY <1>1, <1>2, <1>11, <2>2, <2>4, <2>5
<1>10. ASSUME weekAgo.day < today, since.day < today
       PROVE  Sum([d \in {x \in DOMAIN series : x >= today} |-> series[d]]) = stats.today
  <2> DEFINE Q == {x \in DOMAIN series : x >= today}
             c == [d \in Q |-> series[d]]
             field == "day"
             T == WithField(L, field, Q)
  <2>1. DOMAIN series = {lines[i][field] : i \in L}
    BY <1>3 DEF GroupedBy
  <2>2. T = {i \in L : lines[i].day >= today}
    BY <2>1 DEF WithField
  <2>3. /\ Q \subseteq DOMAIN series /\ DOMAIN c = Q /\ \A v \in Q : c[v] = series[v]
        /\ series = GroupedBy(lines, L, field)
    BY <1>3
  <2> HIDE DEF c, Q, field
  <2>4. Sum(c) = Cardinality(T)
    BY <1>1, <2>3, GroupsByField
  <2> QED BY <1>2, <1>10, <1>12, <2>2, <2>4 DEF c, Q
<1> QED BY <1>7, <1>8, <1>9, <1>10 DEF RowsAgree, found, stats, series, page, m, between, early, late

\* The lines of the file are lines.
LEMMA LinesAreTyped == QueriesSpec => []LinesTyped
<1>1. QueriesInit => LinesTyped
  BY DEF QueriesInit, LinesTyped
<1>2. ASSUME LinesTyped, [FileNext \/ CacheNext]_queryVars PROVE LinesTyped'
  <2>1. CASE AppendLine
    BY <1>2, <2>1 DEF AppendLine, LinesTyped
  <2>2. CASE NewFile
    BY <2>2 DEF NewFile, LinesTyped
  <2>3. CASE CacheNext
    <3>1. lines' = lines
      BY <2>3 DEF CacheNext, GetOrLoad, Get, Join, AddToGroup, Load, Done, Unregister, Wait,
                  Set, Ages, RowsChange
    <3> QED BY <1>2, <3>1 DEF LinesTyped
  <2>4. CASE UNCHANGED queryVars
    BY <1>2, <2>4 DEF queryVars, LinesTyped
  <2> QED BY <1>2, <2>1, <2>2, <2>3, <2>4 DEF FileNext
<1> QED BY <1>1, <1>2, PTL DEF QueriesSpec

\* Whatever lines the file has, whatever bounds, dates and pages are asked for, and
\* whatever the clocks of the dates: the list, its pages and its statistics agree unless
\* a line is too long, and the groups, the series and the pages of the database as far
\* as their dates do (readAndFilterLogs, calculateLogStats, calculateSimpleStats,
\* GetStats, AggregateByField, GetTimeSeries, QueryLogs).
THEOREM ListAndStatsAlwaysAgree == QueriesSpec => []ListAndStatsAgree
<1>1. ASSUME LinesTyped PROVE ListAndStatsAgree
  <2>1. \A size \in PageSizes : size \in Nat \ {0}
    BY LinesAssumption
  <2>2. \A t \in RowTimes : t.day \in Int
    BY LinesAssumption DEF RowTimes
  <2> QED BY <1>1, <2>1, <2>2, FileAlwaysAgrees, RowsAlwaysAgree DEF ListAndStatsAgree
<1> QED BY <1>1, LinesAreTyped, PTL
=============================================================================
