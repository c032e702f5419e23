------------------------------ MODULE FoldProofs ------------------------------
(***************************************************************************)
(* Induction over natural numbers and over finite sets, stated with a set  *)
(* where the library has an operator, and what it gives about the folds    *)
(* and sums of the community modules.                                      *)
(***************************************************************************)
EXTENDS Naturals, FiniteSetsExt, FiniteSetTheorems, WellFoundedInduction, TLAPS

-----------------------------------------------------------------------------
(* Induction.                                                              *)

LEMMA NatRelation ==
  \E R : /\ IsWellFoundedOn(R, Nat)
         /\ \A x, y \in Nat : x < y => <<x, y>> \in R
  <1>1. IsWellFoundedOn(OpToRel(<, Nat), Nat)
    BY NatLessThanWellFounded
  <1>2. \A x, y \in Nat : x < y => <<x, y>> \in OpToRel(<, Nat)
    BY DEF OpToRel
  <1>3. QED
    BY <1>1, <1>2, Zenon

(* A set of natural numbers has a least element.                           *)
LEMMA SmallestNat ==
  ASSUME NEW T \in SUBSET Nat, T # {}
  PROVE  \E n \in T : \A m \in T : n <= m
  <1>1. PICK R : /\ IsWellFoundedOn(R, Nat)
                 /\ \A x, y \in Nat : x < y => <<x, y>> \in R
    BY NatRelation
  <1>2. IsWellFoundedOn(R, Nat) /\ T \subseteq Nat /\ T # {}
    BY <1>1
  <1>3. PICK x \in T : \A y \in T : ~ (<<y, x>> \in R)
    BY <1>2, WFMin, Zenon
  <1>4. \A y \in T : ~ (y < x)
    BY <1>1, <1>3
  <1>5. QED
    BY <1>4

(* What holds of 0 and of the successor of whatever it holds of.           *)
LEMMA NatInductionSet ==
  ASSUME NEW G \in SUBSET Nat, 0 \in G, \A n \in G : n + 1 \in G
  PROVE  G = Nat
  <1> SUFFICES ASSUME Nat \ G # {}
               PROVE  FALSE
    OBVIOUS
  <1>1. PICK n \in Nat \ G : \A m \in Nat \ G : n <= m
    BY SmallestNat
  <1>2. n - 1 \in Nat /\ n - 1 \notin G
    BY <1>1
  <1>3. QED
    BY <1>1, <1>2

(* What holds of a subset whenever it holds of all smaller ones.           *)
LEMMA SubsetInduction ==
  ASSUME NEW S, IsFiniteSet(S), NEW G,
         \A T \in SUBSET S : (\A U \in SUBSET T : U # T => U \in G) => T \in G
  PROVE  SUBSET S \subseteq G
  <1> DEFINE Bad == {T \in SUBSET S : T \notin G}
             Sizes == {Cardinality(T) : T \in Bad}
  <1>1. \A T \in SUBSET S : IsFiniteSet(T) /\ Cardinality(T) \in Nat
    BY FS_Subset, FS_CardinalityType
  <1>2. Sizes \in SUBSET Nat
    BY <1>1
  <1> SUFFICES ASSUME Sizes # {}
               PROVE  FALSE
    OBVIOUS
  <1>3. PICK n \in Sizes : \A m \in Sizes : n <= m
    BY <1>2, SmallestNat
  <1>4. PICK T \in Bad : n = Cardinality(T)
    BY <1>3
  <1>5. ASSUME NEW U \in SUBSET T, U # T
        PROVE  U \in G
    <2>1. U \in SUBSET S /\ Cardinality(U) <= Cardinality(T) /\ Cardinality(U) # Cardinality(T)
      BY <1>1, <1>5, FS_Subset
    <2>2. Cardinality(U) \in Nat /\ Cardinality(T) \in Nat
      BY <1>1, <2>1
    <2>3. Cardinality(U) \notin Sizes
      BY <1>3, <1>4, <2>1, <2>2
    <2>4. QED
      BY <2>1, <2>3
  <1>6. QED
    BY <1>5

-----------------------------------------------------------------------------
(* Folds.                                                                  *)

(* g[T] is base with the elements of T folded into it, c[T] the last one.  *)
IsFold(g, S, base, step, c) ==
  \A T \in SUBSET S : g[T] = IF T = {} THEN base ELSE step[<<c[T], g[T \ {c[T]}]>>]

(* A finite set can be folded, whichever element c takes from it first.    *)
LEMMA FoldExists ==
  ASSUME NEW S, IsFiniteSet(S), NEW V, NEW base \in V, NEW step \in [S \X V -> V],
         NEW c, \A T \in SUBSET S : T # {} => c[T] \in T
  PROVE  \E g \in [SUBSET S -> V] : IsFold(g, S, base, step, c)
  <1> DEFINE Value(g, T) == IF T = {} THEN base ELSE step[<<c[T], g[T \ {c[T]}]>>]
             UpTo(g, n) == \A T \in SUBSET S : Cardinality(T) <= n => g[T] = Value(g, T)
             G == {n \in Nat : \E g \in [SUBSET S -> V] : UpTo(g, n)}
  <1>1. \A T \in SUBSET S : IsFiniteSet(T) /\ Cardinality(T) \in Nat
    BY FS_Subset, FS_CardinalityType
  <1>2. \A T \in SUBSET S : T # {} => /\ c[T] \in S
                                     /\ T \ {c[T]} \in SUBSET S
                                     /\ Cardinality(T \ {c[T]}) = Cardinality(T) - 1
    BY <1>1, FS_RemoveElement
  <1>3. 0 \in G
    <2> DEFINE g0 == [T \in SUBSET S |-> base]
    <2>1. \A T \in SUBSET S : Cardinality(T) <= 0 => T = {}
      BY <1>1, FS_EmptySet
    <2>2. g0 \in [SUBSET S -> V] /\ UpTo(g0, 0)
      BY <2>1
    <2>3. QED
      BY <2>2
  <1>4. ASSUME NEW n \in G
        PROVE  n + 1 \in G
    <2>1. PICK g \in [SUBSET S -> V] : UpTo(g, n)
      OBVIOUS
    <2> DEFINE h == [T \in SUBSET S |-> Value(g, T)]
    <2>2. \A T \in SUBSET S : Value(g, T) \in V
      BY <1>2
    <2>3. h \in [SUBSET S -> V]
      BY <2>2
    <2>4. ASSUME NEW T \in SUBSET S, Cardinality(T) <= n + 1
          PROVE  h[T] = Value(h, T)
      <3>1. CASE T = {}
        BY <3>1
      <3>2. CASE T # {}
        <4> DEFINE U == T \ {c[T]}
        <4>1. U \in SUBSET S /\ Cardinality(U) <= n
          BY <1>1, <1>2, <2>4, <3>2
        <4>2. g[U] = Value(g, U)
          BY <2>1, <4>1
        <4>3. h[U] = Value(g, U)
          BY <4>1
        <4>4. h[T] = step[<<c[T], g[U]>>]
          BY <3>2
        <4>5. QED
          BY <3>2, <4>2, <4>3, <4>4
      <3>3. QED
        BY <3>1, <3>2
    <2>5. UpTo(h, n + 1)
      BY <2>4
    <2> HIDE DEF h, UpTo
    <2>6. QED
      BY <2>3, <2>5
  <1> HIDE DEF UpTo
  <1>5. G = Nat
    <2>1. G \in SUBSET Nat
      OBVIOUS
    <2> HIDE DEF G
    <2>2. QED
      BY <1>3, <1>4, <2>1, NatInductionSet
  <1>6. PICK g \in [SUBSET S -> V] : UpTo(g, Cardinality(S))
    <2>1. Cardinality(S) \in G
      BY <1>1, <1>5
    <2>2. QED
      BY <2>1
  <1>7. \A T \in SUBSET S : Cardinality(T) <= Cardinality(S)
    BY FS_Subset
  <1>8. \A T \in SUBSET S : g[T] = Value(g, T)
    BY <1>6, <1>7 DEF UpTo
  <1>9. QED
    BY <1>8 DEF IsFold

(* What is folded from the least number up, the greatest taken off first.  *)
LEMMA MaxIn ==
  ASSUME NEW n \in Nat, NEW T \in SUBSET (1 .. n), T # {}
  PROVE  Max(T) \in T /\ \A y \in T : Max(T) >= y
  <1> DEFINE Bounds == {m \in Nat : \A y \in T : y <= m}
  <1>1. Bounds \in SUBSET Nat /\ n \in Bounds
    OBVIOUS
  <1>2. PICK b \in Bounds : \A m \in Bounds : b <= m
    BY <1>1, SmallestNat
  <1>3. b \in T
    <2>1. b \in Nat /\ \A y \in T : y \in Nat /\ 1 <= y /\ y <= b
      BY <1>2
    <2>2. b >= 1 /\ b - 1 \in Nat
      <3>1. PICK y \in T : TRUE
        OBVIOUS
      <3> HIDE DEF Bounds
      <3>2. QED
        BY <2>1, <3>1
    <2>3. PICK y \in T : ~(y <= b - 1)
      BY <1>2, <2>1, <2>2
    <2>4. y = b
      BY <2>1, <2>2, <2>3
    <2>5. QED
      BY <2>4
  <1>4. \E x \in T : \A y \in T : x >= y
    BY <1>2, <1>3
  <1>5. Max(T) = CHOOSE x \in T : \A y \in T : x >= y
    BY DEF Max
  <1>6. QED
    BY <1>4, <1>5

LEMMA MaxUpTo ==
  ASSUME NEW n \in Nat \ {0}
  PROVE  Max(1 .. n) = n
  <1>1. Max(1 .. n) \in 1 .. n /\ \A y \in 1 .. n : Max(1 .. n) >= y
    <2>1. 1 .. n \in SUBSET (1 .. n) /\ 1 .. n # {} /\ n \in Nat
      OBVIOUS
    <2>2. QED
      BY <2>1, MaxIn
  <1>2. n \in 1 .. n
    OBVIOUS
  <1>3. QED
    BY <1>1, <1>2

FoldsUp(g, n, base, step) ==
  \A T \in SUBSET (1 .. n) :
    g[T] = IF T = {} THEN base ELSE step[<<Max(T), g[T \ {Max(T)}]>>]

LEMMA FoldUpExists ==
  ASSUME NEW n \in Nat, NEW V, NEW base \in V, NEW step \in [(1 .. n) \X V -> V]
  PROVE  \E g \in [SUBSET (1 .. n) -> V] : FoldsUp(g, n, base, step)
  <1> DEFINE S == 1 .. n
             c == [T \in SUBSET S |-> Max(T)]
  <1>1. IsFiniteSet(S)
    BY FS_Interval
  <1>2. \A T \in SUBSET S : c[T] = Max(T) /\ (T # {} => c[T] \in T)
    BY MaxIn
  <1> HIDE DEF c, S
  <1>3. PICK g \in [SUBSET S -> V] : IsFold(g, S, base, step, c)
    <2>1. step \in [S \X V -> V]
      BY DEF S
    <2>2. QED
      BY <1>1, <1>2, <2>1, FoldExists
  <1>4. \A T \in SUBSET S : g[T] = IF T = {} THEN base ELSE step[<<Max(T), g[T \ {Max(T)}]>>]
    BY <1>2, <1>3 DEF IsFold
  <1>5. QED
    BY <1>4 DEF S, FoldsUp

-----------------------------------------------------------------------------
(* Sums.                                                                   *)

(* The sum of f taken apart one argument at a time, always in the same     *)
(* order: sum[T] is the sum over T, a subset of S.                         *)
First(T) == CHOOSE x \in T : TRUE

TakenApart(sum, f, S) ==
  /\ sum \in [SUBSET S -> Nat]
  /\ SumFunction(f) = sum[S]
  /\ sum[{}] = 0
  /\ \A T \in SUBSET S : T # {} => First(T) \in T /\ sum[T] = f[First(T)] + sum[T \ {First(T)}]

LEMMA SumTakenApart ==
  ASSUME NEW S, IsFiniteSet(S), NEW f \in [S -> Nat]
  PROVE  \E sum : TakenApart(sum, f, S)
  <1> DEFINE first == [T \in SUBSET S |-> CHOOSE x \in T : TRUE]
             step == [p \in S \X Nat |-> f[p[1]] + p[2]]
             IsSum(iter) ==
               iter = [T \in SUBSET S |->
                         IF T = {} THEN 0
                         ELSE f[CHOOSE x \in T : TRUE] + iter[T \ {CHOOSE x \in T : TRUE}]]
             sum == CHOOSE iter : IsSum(iter)
  <1>1. \A T \in SUBSET S : T # {} => (CHOOSE x \in T : TRUE) \in T
    OBVIOUS
  <1>2. \E iter : IsSum(iter)
    <2>1. \A T \in SUBSET S : T # {} => first[T] \in T
      BY <1>1
    <2>2. step \in [S \X Nat -> Nat]
      OBVIOUS
    <2> HIDE DEF first, step
    <2>3. PICK g \in [SUBSET S -> Nat] : IsFold(g, S, 0, step, first)
      <3>1. 0 \in Nat
        OBVIOUS
      <3>2. QED
        BY <2>1, <2>2, <3>1, FoldExists
    <2>4. \A T \in SUBSET S : T # {} =>
            g[T] = f[CHOOSE x \in T : TRUE] + g[T \ {CHOOSE x \in T : TRUE}]
      <3>1. SUFFICES ASSUME NEW T \in SUBSET S, T # {}
                     PROVE  g[T] = f[CHOOSE x \in T : TRUE] + g[T \ {CHOOSE x \in T : TRUE}]
        OBVIOUS
      <3> DEFINE x == CHOOSE x \in T : TRUE
      <3>2. x \in S /\ T \ {x} \in SUBSET S /\ first[T] = x
        BY <1>1, <3>1 DEF first
      <3>3. g[T] = step[<<x, g[T \ {x}]>>]
        BY <2>3, <3>1, <3>2 DEF IsFold
      <3> HIDE DEF x
      <3>4. step[<<x, g[T \ {x}]>>] = f[x] + g[T \ {x}]
        BY <3>2 DEF step
      <3>5. QED
        BY <3>3, <3>4 DEF x
    <2>5. g[{}] = 0
      BY <2>3 DEF IsFold
    <2>6. IsSum(g)
      <3> DEFINE h == [T \in SUBSET S |->
                         IF T = {} THEN 0
                         ELSE f[CHOOSE x \in T : TRUE] + g[T \ {CHOOSE x \in T : TRUE}]]
      <3>1. \A T \in SUBSET S : g[T] = h[T]
        BY <2>4, <2>5
      <3>2. g = h
        BY <3>1
      <3>3. QED
        BY <3>2
    <2> HIDE DEF IsSum
    <2>7. QED
      BY <2>6
  <1>3. IsSum(sum)
    <2> HIDE DEF IsSum
    <2>1. QED
      BY <1>2
  <1>4. SumFunction(f) = sum[S]
    <2>1. DOMAIN f = S
      OBVIOUS
    <2>2. SumFunctionOnSet(f, S) = sum[S]
      BY DEF SumFunctionOnSet, FoldFunctionOnSet, MapThenFoldSet
    <2>3. QED
      BY <2>1, <2>2 DEF SumFunction
  <1> HIDE DEF sum
  <1>5. /\ DOMAIN sum = SUBSET S
        /\ sum[{}] = 0
        /\ \A T \in SUBSET S : T # {} =>
             sum[T] = f[CHOOSE x \in T : TRUE] + sum[T \ {CHOOSE x \in T : TRUE}]
    BY <1>3
  <1> HIDE DEF IsSum
  <1>6. \A T \in SUBSET S : sum[T] \in Nat
    <2> DEFINE G == {T \in SUBSET S : sum[T] \in Nat}
    <2>1. ASSUME NEW T \in SUBSET S, \A U \in SUBSET T : U # T => U \in G
          PROVE  T \in G
      <3>1. CASE T = {}
        BY <1>5, <3>1
      <3>2. CASE T # {}
        <4> DEFINE x == CHOOSE x \in T : TRUE
        <4>1. x \in T
          BY <1>1, <3>2
        <4>2. sum[T] = f[x] + sum[T \ {x}]
          BY <1>5, <3>2
        <4> HIDE DEF x
        <4>3. T \ {x} \in G
          BY <2>1, <4>1
        <4>4. f[x] \in Nat
          BY <4>1
        <4>5. QED
          BY <4>2, <4>3, <4>4
      <3>3. QED
        BY <3>1, <3>2
    <2> HIDE DEF G
    <2>2. SUBSET S \subseteq G
      BY <2>1, SubsetInduction
    <2>3. QED
      BY <2>2 DEF G
  <1>7. sum \in [SUBSET S -> Nat]
    <2>1. sum = [T \in SUBSET S |-> sum[T]]
      BY <1>3, <1>5 DEF IsSum
    <2>2. QED
      BY <1>6, <2>1
  <1>8. QED
    BY <1>1, <1>4, <1>5, <1>7 DEF TakenApart, First

LEMMA SumType ==
  ASSUME NEW S, IsFiniteSet(S), NEW f \in [S -> Nat]
  PROVE  SumFunction(f) \in Nat
  <1>1. PICK sum : TakenApart(sum, f, S)
    BY SumTakenApart
  <1>2. S \in SUBSET S
    OBVIOUS
  <1>3. QED
    BY <1>1, <1>2 DEF TakenApart

(* The sum of two functions is the sum of their sums.                      *)
LEMMA SumPlus ==
  ASSUME NEW S, IsFiniteSet(S), NEW f \in [S -> Nat], NEW g \in [S -> Nat], NEW h \in [S -> Nat],
         \A x \in S : h[x] = f[x] + g[x]
  PROVE  SumFunction(h) = SumFunction(f) + SumFunction(g)
  <1>1. PICK sf : TakenApart(sf, f, S)
    BY SumTakenApart
  <1>2. PICK sg : TakenApart(sg, g, S)
    BY SumTakenApart
  <1>3. PICK sh : TakenApart(sh, h, S)
    BY SumTakenApart
  <1> DEFINE G == {T \in SUBSET S : sh[T] = sf[T] + sg[T]}
  <1>4. ASSUME NEW T \in SUBSET S, \A U \in SUBSET T : U # T => U \in G
        PROVE  T \in G
    <2>1. CASE T = {}
      BY <1>1, <1>2, <1>3, <2>1 DEF TakenApart
    <2>2. CASE T # {}
      <3> DEFINE x == First(T)
      <3>1. /\ x \in T
            /\ sf[T] = f[x] + sf[T \ {x}]
            /\ sg[T] = g[x] + sg[T \ {x}]
            /\ sh[T] = h[x] + sh[T \ {x}]
        BY <1>1, <1>2, <1>3, <2>2 DEF TakenApart
      <3> HIDE DEF x
      <3>2. sh[T \ {x}] = sf[T \ {x}] + sg[T \ {x}]
        BY <1>4, <3>1
      <3>3. /\ f[x] \in Nat /\ g[x] \in Nat /\ h[x] = f[x] + g[x]
            /\ sf[T \ {x}] \in Nat /\ sg[T \ {x}] \in Nat
        BY <1>1, <1>2, <3>1 DEF TakenApart
      <3>4. QED
        BY <3>1, <3>2, <3>3
    <2>3. QED
      BY <2>1, <2>2
  <1> HIDE DEF G
  <1>5. SUBSET S \subseteq G
    BY <1>4, SubsetInduction
  <1>6. S \in G
    BY <1>5
  <1>7. QED
    BY <1>1, <1>2, <1>3, <1>6 DEF TakenApart, G

(* Counting with ones.                                                     *)
LEMMA SumIndicator ==
  ASSUME NEW S, IsFiniteSet(S), NEW A \in SUBSET S, NEW f \in [S -> Nat],
         \A x \in S : f[x] = IF x \in A THEN 1 ELSE 0
  PROVE  SumFunction(f) = Cardinality(A)
  <1>1. PICK sum : TakenApart(sum, f, S)
    BY SumTakenApart
  <1> DEFINE G == {T \in SUBSET S : sum[T] = Cardinality(T \cap A)}
  <1>2. ASSUME NEW T \in SUBSET S, \A U \in SUBSET T : U # T => U \in G
        PROVE  T \in G
    <2>1. CASE T = {}
      <3>1. T \cap A = {}
        BY <2>1
      <3>2. QED
        BY <1>1, <2>1, <3>1, FS_EmptySet DEF TakenApart
    <2>2. CASE T # {}
      <3> DEFINE x == First(T)
      <3>1. x \in T /\ sum[T] = f[x] + sum[T \ {x}]
        BY <1>1, <2>2 DEF TakenApart
      <3> HIDE DEF x
      <3>2. sum[T \ {x}] = Cardinality((T \ {x}) \cap A)
        BY <1>2, <3>1
      <3>3. IsFiniteSet(T \cap A) /\ Cardinality(T \cap A) \in Nat
        BY FS_Subset, FS_CardinalityType
      <3>4. (T \ {x}) \cap A = (T \cap A) \ {x}
        OBVIOUS
      <3>5. Cardinality((T \cap A) \ {x})
              = IF x \in T \cap A THEN Cardinality(T \cap A) - 1 ELSE Cardinality(T \cap A)
        BY <3>3, FS_RemoveElement
      <3>6. f[x] = IF x \in T \cap A THEN 1 ELSE 0
        BY <3>1
      <3>7. sum[T] = Cardinality(T \cap A)
        BY <3>1, <3>2, <3>3, <3>4, <3>5, <3>6
      <3>8. QED
        BY <3>7
    <2>3. QED
      BY <2>1, <2>2
  <1> HIDE DEF G
  <1>3. SUBSET S \subseteq G
    BY <1>2, SubsetInduction
  <1>4. S \in G /\ S \cap A = A
    BY <1>3
  <1>5. QED
    BY <1>1, <1>4 DEF TakenApart, G

(* A sum grows with what is summed.                                        *)
LEMMA SumMonotone ==
  ASSUME NEW S, IsFiniteSet(S), NEW f \in [S -> Nat], NEW g \in [S -> Nat],
         \A x \in S : f[x] <= g[x]
  PROVE  SumFunction(f) <= SumFunction(g)
  <1> DEFINE d == [x \in S |-> g[x] - f[x]]
  <1>1. d \in [S -> Nat]
    OBVIOUS
  <1>2. \A x \in S : g[x] = f[x] + d[x]
    OBVIOUS
  <1> HIDE DEF d
  <1>3. SumFunction(g) = SumFunction(f) + SumFunction(d)
    BY <1>1, <1>2, SumPlus
  <1>4. SumFunction(f) \in Nat /\ SumFunction(d) \in Nat
    BY <1>1, SumType
  <1>5. QED
    BY <1>3, <1>4

(* One more at one argument is one more in the sum.                        *)
LEMMA SumOneMore ==
  ASSUME NEW S, IsFiniteSet(S), NEW f \in [S -> Nat], NEW i \in S
  PROVE  SumFunction([f EXCEPT ![i] = f[i] + 1]) = SumFunction(f) + 1
  <1> DEFINE g == [f EXCEPT ![i] = f[i] + 1]
             one == [x \in S |-> IF x \in {i} THEN 1 ELSE 0]
  <1>1. g \in [S -> Nat] /\ one \in [S -> Nat]
    OBVIOUS
  <1>2. \A x \in S : g[x] = f[x] + one[x] /\ one[x] = IF x \in {i} THEN 1 ELSE 0
    OBVIOUS
  <1>3. {i} \in SUBSET S /\ Cardinality({i}) = 1
    BY FS_Singleton
  <1> HIDE DEF g, one
  <1>4. SumFunction(one) = 1
    BY <1>1, <1>2, <1>3, SumIndicator
  <1>5. SumFunction(g) = SumFunction(f) + SumFunction(one)
    BY <1>1, <1>2, SumPlus
  <1>6. QED
    BY <1>4, <1>5 DEF g

LEMMA SumStrict ==
  ASSUME NEW S, IsFiniteSet(S), NEW f \in [S -> Nat], NEW g \in [S -> Nat],
         \A x \in S : f[x] <= g[x], NEW i \in S, f[i] < g[i]
  PROVE  SumFunction(f) < SumFunction(g)
  <1> DEFINE h == [f EXCEPT ![i] = f[i] + 1]
  <1>1. h \in [S -> Nat] /\ \A x \in S : h[x] <= g[x]
    OBVIOUS
  <1>2. SumFunction(h) = SumFunction(f) + 1
    BY SumOneMore
  <1> HIDE DEF h
  <1>3. SumFunction(h) <= SumFunction(g)
    BY <1>1, SumMonotone
  <1>4. SumFunction(f) \in Nat /\ SumFunction(g) \in Nat
    BY SumType
  <1>5. QED
    BY <1>2, <1>3, <1>4

(* The same everywhere: as often as there are arguments.                   *)
LEMMA SumConstant ==
  ASSUME NEW S, IsFiniteSet(S), NEW n \in Nat, NEW f \in [S -> Nat], \A x \in S : f[x] = n
  PROVE  SumFunction(f) = n * Cardinality(S)
  <1>1. PICK sum : TakenApart(sum, f, S)
    BY SumTakenApart
  <1> DEFINE G == {T \in SUBSET S : sum[T] = n * Cardinality(T)}
  <1>2. ASSUME NEW T \in SUBSET S, \A U \in SUBSET T : U # T => U \in G
        PROVE  T \in G
    <2>1. CASE T = {}
      BY <1>1, <2>1, FS_EmptySet DEF TakenApart
    <2>2. CASE T # {}
      <3> DEFINE x == First(T)
      <3>1. x \in T /\ sum[T] = f[x] + sum[T \ {x}]
        BY <1>1, <2>2 DEF TakenApart
      <3> HIDE DEF x
      <3>2. sum[T \ {x}] = n * Cardinality(T \ {x})
        BY <1>2, <3>1
      <3>3. IsFiniteSet(T) /\ Cardinality(T) \in Nat
        BY FS_Subset, FS_CardinalityType
      <3>4. Cardinality(T \ {x}) = Cardinality(T) - 1 /\ f[x] = n
        BY <3>1, <3>3, FS_RemoveElement
      <3> DEFINE c == Cardinality(T)
      <3>5. c \in Nat /\ sum[T] = n + n * (c - 1)
        BY <3>1, <3>2, <3>3, <3>4
      <3> HIDE DEF c
      <3>6. n + n * (c - 1) = n * c
        BY <3>5
      <3>7. QED
        BY <3>5, <3>6 DEF c
    <2>3. QED
      BY <2>1, <2>2
  <1> HIDE DEF G
  <1>3. SUBSET S \subseteq G
    BY <1>2, SubsetInduction
  <1>4. S \in G
    BY <1>3
  <1>5. QED
    BY <1>1, <1>4 DEF TakenApart, G
=============================================================================
