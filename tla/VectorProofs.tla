----------------------------- MODULE VectorProofs -----------------------------
(* What the operators of Vectors return, for words of any number and size. *)
EXTENDS Vectors, FoldProofs

(* The blend of two vectors has, at each bit, the bit of one of them.      *)
LEMMA BlendChooses ==
  ASSUME NEW b \in HVector, NEW v \in HVector, NEW alpha, NEW k \in Blocks, NEW i \in Bits
  PROVE  \/ i \in DecayBlend(b, v, alpha)[k] <=> i \in b[k]
         \/ i \in DecayBlend(b, v, alpha)[k] <=> i \in v[k]
  <1>1. CASE alpha.num = 0 \/ alpha.num >= alpha.den
    BY <1>1 DEF DecayBlend
  <1>2. CASE ~(alpha.num = 0 \/ alpha.num >= alpha.den)
    <2> DEFINE mask == LowestBits(Diff(b, v)[k], NumFlips(k, alpha))
    <2>1. DecayBlend(b, v, alpha)[k] = SymDiff(b[k], mask)
      BY <1>2 DEF DecayBlend
    <2>2. mask \subseteq SymDiff(b[k], v[k])
      BY DEF LowestBits, Diff
    <2>3. QED
      BY <2>1, <2>2 DEF SymDiff
  <1>3. QED
    BY <1>1, <1>2

LEMMA BlendType ==
  ASSUME NEW b \in HVector, NEW v \in HVector, NEW alpha
  PROVE  DecayBlend(b, v, alpha) \in HVector
  <1>1. CASE alpha.num = 0 \/ alpha.num >= alpha.den
    BY <1>1 DEF DecayBlend
  <1>2. CASE ~(alpha.num = 0 \/ alpha.num >= alpha.den)
    <2>1. \A k \in Blocks :
            SymDiff(b[k], LowestBits(Diff(b, v)[k], NumFlips(k, alpha))) \in SUBSET Bits
      BY DEF LowestBits, Diff, SymDiff, HVector
    <2>2. QED
      BY <1>2, <2>1 DEF DecayBlend, HVector
  <1>3. QED
    BY <1>1, <1>2

(* One more vector is one more vote for the bits it has on.                *)
LEMMA VotesAppend ==
  ASSUME NEW s \in Seq(HVector), NEW v \in HVector, NEW k \in Blocks, NEW i \in Bits
  PROVE  /\ Votes(s, k, i) \in Nat
         /\ Votes(Append(s, v), k, i) = Votes(s, k, i) + IF i \in v[k] THEN 1 ELSE 0
  <1> DEFINE for == {n \in DOMAIN s : i \in s[n][k]}
             then == {n \in DOMAIN Append(s, v) : i \in Append(s, v)[n][k]}
  <1>1. IsFiniteSet(for)
    <2>1. IsFiniteSet(1 .. Len(s))
      BY FS_Interval
    <2>2. for \subseteq 1 .. Len(s)
      OBVIOUS
    <2>3. QED
      BY <2>1, <2>2, FS_Subset
  <1>2. Len(s) + 1 \notin for
    OBVIOUS
  <1>3. then = IF i \in v[k] THEN for \cup {Len(s) + 1} ELSE for
    OBVIOUS
  <1>4. Cardinality(for) \in Nat
    BY <1>1, FS_CardinalityType
  <1>5. Cardinality(for \cup {Len(s) + 1}) = Cardinality(for) + 1
    BY <1>1, <1>2, FS_AddElement
  <1> HIDE DEF for, then
  <1>6. Cardinality(then) = Cardinality(for) + IF i \in v[k] THEN 1 ELSE 0
    BY <1>3, <1>4, <1>5
  <1>7. QED
    BY <1>4, <1>6 DEF Votes, for, then

LEMMA VotesOfNone ==
  ASSUME NEW k, NEW i
  PROVE  Votes(<<>>, k, i) = 0
  <1>1. {n \in DOMAIN <<>> : i \in <<>>[n][k]} = {}
    OBVIOUS
  <1>2. QED
    BY <1>1, FS_EmptySet DEF Votes

-----------------------------------------------------------------------------
(* Distances and the nearest centroid.                                     *)

LEMMA WordFinite ==
  ASSUME NEW word \in SUBSET Bits
  PROVE  IsFiniteSet(word) /\ Cardinality(word) \in 0 .. BlockSize
  <1>1. BlockSize \in Nat \ {0} /\ IsFiniteSet(0 .. BlockSize - 1)
        /\ Cardinality(0 .. BlockSize - 1) = BlockSize
    BY VectorsAssumption, FS_Interval
  <1>2. word \in SUBSET (0 .. BlockSize - 1)
    BY DEF Bits
  <1>3. IsFiniteSet(word) /\ Cardinality(word) <= BlockSize
    BY <1>1, <1>2, FS_Subset
  <1>4. Cardinality(word) \in Nat
    BY <1>3, FS_CardinalityType
  <1>5. QED
    BY <1>1, <1>3, <1>4

LEMMA BlocksFinite == IsFiniteSet(Blocks) /\ Cardinality(Blocks) = NumBlocks
  BY VectorsAssumption, FS_Interval DEF Blocks

(* The differing bits, word by word: what Distance sums.                   *)
LEMMA DiffCounts ==
  ASSUME NEW a \in HVector, NEW b \in HVector
  PROVE  /\ Diff(a, b) \in HVector
         /\ [k \in Blocks |-> Cardinality(Diff(a, b)[k])] \in [Blocks -> Nat]
  <1>1. Diff(a, b) \in HVector
    BY DEF Diff, SymDiff, HVector
  <1>2. \A k \in Blocks : Cardinality(Diff(a, b)[k]) \in Nat
    BY <1>1, WordFinite DEF HVector
  <1>3. QED
    BY <1>1, <1>2

LEMMA DistanceType ==
  ASSUME NEW a \in HVector, NEW b \in HVector
  PROVE  Distance(a, b) \in Nat
  <1> DEFINE d == [k \in Blocks |-> Cardinality(Diff(a, b)[k])]
  <1>1. d \in [Blocks -> Nat]
    BY DiffCounts
  <1> HIDE DEF d
  <1>2. SumFunction(d) \in Nat
    BY <1>1, BlocksFinite, SumType
  <1>3. QED
    BY <1>2 DEF Distance, d

(* AssignToCluster finds a centroid, and none is nearer; of several as     *)
(* near it takes the first.                                                *)
THEOREM AssignsToNearest ==
  ASSUME NEW vec \in HVector, NEW centroids \in Seq(HVector), centroids # <<>>
  PROVE  LET i == AssignToCluster(vec, centroids)
         IN  /\ i \in DOMAIN centroids
             /\ \A j \in DOMAIN centroids :
                  \/ Distance(vec, centroids[i]) < Distance(vec, centroids[j])
                  \/ Distance(vec, centroids[i]) = Distance(vec, centroids[j]) /\ i <= j
  <1> DEFINE d(j) == Distance(vec, centroids[j])
             Nearest(i) == \A j \in DOMAIN centroids : d(i) < d(j) \/ (d(i) = d(j) /\ i <= j)
  <1>1. \A j \in DOMAIN centroids : d(j) \in Nat
    BY DistanceType
  <1>2. DOMAIN centroids \in SUBSET Nat /\ DOMAIN centroids # {}
    OBVIOUS
  <1> HIDE DEF d
  <1>3. \E i \in DOMAIN centroids : Nearest(i)
    <2> DEFINE Ds == {d(j) : j \in DOMAIN centroids}
    <2>1. Ds \in SUBSET Nat /\ Ds # {}
      BY <1>1, <1>2
    <2> HIDE DEF Ds
    <2>2. PICK least \in Ds : \A x \in Ds : least <= x
      BY <2>1, SmallestNat
    <2> DEFINE At == {j \in DOMAIN centroids : d(j) = least}
    <2>3. At \in SUBSET Nat /\ At # {}
      BY <1>2, <2>2 DEF Ds
    <2> HIDE DEF At
    <2>4. PICK i \in At : \A j \in At : i <= j
      BY <2>3, SmallestNat
    <2>5. ASSUME NEW j \in DOMAIN centroids
          PROVE  d(i) < d(j) \/ (d(i) = d(j) /\ i <= j)
      <3>1. least <= d(j) /\ d(i) = least /\ d(j) \in Nat /\ least \in Nat
        BY <1>1, <2>1, <2>2, <2>4 DEF Ds, At
      <3>2. d(j) = least => i <= j
        BY <2>4 DEF At
      <3>3. QED
        BY <3>1, <3>2
    <2>6. QED
      BY <2>4, <2>5 DEF At
  <1>4. AssignToCluster(vec, centroids) = CHOOSE i \in DOMAIN centroids : Nearest(i)
    BY DEF AssignToCluster, d
  <1> DEFINE i == AssignToCluster(vec, centroids)
  <1>5. i \in DOMAIN centroids /\ Nearest(i)
    BY <1>3, <1>4
  <1>6. QED
    BY <1>5 DEF d

LEMMA DistanceZero ==
  ASSUME NEW a \in HVector, NEW b \in HVector
  PROVE  Distance(a, b) = 0 <=> a = b
  <1> DEFINE d == [k \in Blocks |-> Cardinality(Diff(a, b)[k])]
             none == [k \in Blocks |-> 0]
  <1>1. d \in [Blocks -> Nat] /\ none \in [Blocks -> Nat]
    BY DiffCounts
  <1>2. SumFunction(none) = 0
    <2>1. \A k \in Blocks : none[k] = 0
      OBVIOUS
    <2> HIDE DEF none
    <2>2. SumFunction(none) = 0 * Cardinality(Blocks)
      BY <1>1, <2>1, BlocksFinite, SumConstant
    <2>3. QED
      BY <2>2, BlocksFinite, VectorsAssumption
  <1>3. ASSUME a = b
        PROVE  d = none
    <2>1. \A k \in Blocks : Diff(a, b)[k] = {}
      BY <1>3 DEF Diff, SymDiff
    <2>2. QED
      BY <2>1, FS_EmptySet
  <1>4. ASSUME a # b
        PROVE  \E k \in Blocks : none[k] < d[k]
    <2>1. PICK k \in Blocks : a[k] # b[k]
      BY <1>4 DEF HVector
    <2>2. Diff(a, b)[k] # {} /\ Diff(a, b)[k] \in SUBSET Bits
      BY <2>1 DEF Diff, SymDiff, HVector
    <2>3. Cardinality(Diff(a, b)[k]) # 0
      BY <2>2, WordFinite, FS_EmptySet
    <2>4. QED
      BY <1>1, <2>3
  <1>5. \A k \in Blocks : none[k] <= d[k]
    BY <1>1
  <1> HIDE DEF d, none
  <1>6. a # b => SumFunction(none) < SumFunction(d)
    BY <1>1, <1>4, <1>5, BlocksFinite, SumStrict
  <1>7. QED
    BY <1>2, <1>3, <1>6 DEF Distance, d

(* Binding both vectors with a third moves neither nearer to the other.    *)
LEMMA BindKeepsDistance ==
  ASSUME NEW a \in HVector, NEW b \in HVector, NEW c \in HVector
  PROVE  Distance(Bind(a, c), Bind(b, c)) = Distance(a, b)
  <1>1. \A k \in Blocks : Diff(Bind(a, c), Bind(b, c))[k] = Diff(a, b)[k]
    BY DEF Bind, Diff, SymDiff
  <1>2. [k \in Blocks |-> Cardinality(Diff(Bind(a, c), Bind(b, c))[k])]
          = [k \in Blocks |-> Cardinality(Diff(a, b)[k])]
    BY <1>1
  <1>3. QED
    BY <1>2 DEF Distance

(* The distance is a metric, no larger than there are bits, and every      *)
(* vector has one at that distance.  The code divides by Dimensions, which *)
(* is less (10000 of 10048): so Similarity goes below 0.                   *)
THEOREM DistanceIsMetric ==
  ASSUME NEW a \in HVector, NEW b \in HVector, NEW c \in HVector
  PROVE  /\ Distance(a, b) \in 0 .. NumBlocks * BlockSize
         /\ Distance(a, b) = 0 <=> a = b
         /\ Distance(a, b) = Distance(b, a)
         /\ Distance(a, c) <= Distance(a, b) + Distance(b, c)
         /\ \E d \in HVector : Distance(a, d) = NumBlocks * BlockSize
  <1> DEFINE count(x, y) == [k \in Blocks |-> Cardinality(Diff(x, y)[k])]
             all == [k \in Blocks |-> BlockSize]
  <1>1. \A x, y \in HVector : count(x, y) \in [Blocks -> Nat]
    BY DiffCounts
  <1>2. BlockSize \in Nat \ {0} /\ NumBlocks \in Nat \ {0} /\ all \in [Blocks -> Nat]
    BY VectorsAssumption
  <1>3. SumFunction(all) = NumBlocks * BlockSize
    <2>1. \A k \in Blocks : all[k] = BlockSize
      OBVIOUS
    <2> HIDE DEF all
    <2>2. SumFunction(all) = BlockSize * Cardinality(Blocks)
      BY <1>2, <2>1, BlocksFinite, SumConstant
    <2>3. QED
      BY <1>2, <2>2, BlocksFinite
  <1>4. Distance(a, b) \in 0 .. NumBlocks * BlockSize
    <2>1. \A k \in Blocks : count(a, b)[k] <= all[k]
      <3>1. \A k \in Blocks : Cardinality(Diff(a, b)[k]) \in 0 .. BlockSize
        BY DiffCounts, WordFinite DEF HVector
      <3>2. QED
        BY <1>2, <3>1
    <2>2. count(a, b) \in [Blocks -> Nat] /\ Distance(a, b) = SumFunction(count(a, b))
      BY <1>1 DEF Distance
    <2> HIDE DEF count, all
    <2>3. SumFunction(count(a, b)) <= SumFunction(all)
      BY <1>2, <2>1, <2>2, BlocksFinite, SumMonotone
    <2>4. NumBlocks * BlockSize \in Nat
      BY <1>2
    <2>5. QED
      BY <1>3, <2>2, <2>3, <2>4, DistanceType
  <1>5. Distance(a, b) = Distance(b, a)
    <2>1. \A k \in Blocks : Diff(a, b)[k] = Diff(b, a)[k]
      BY DEF Diff, SymDiff
    <2>2. count(a, b) = count(b, a)
      BY <2>1
    <2>3. QED
      BY <2>2 DEF Distance
  <1>6. Distance(a, c) <= Distance(a, b) + Distance(b, c)
    <2> DEFINE f == count(a, b)
               g == count(b, c)
               h == [k \in Blocks |-> f[k] + g[k]]
    <2>1. f \in [Blocks -> Nat] /\ g \in [Blocks -> Nat] /\ count(a, c) \in [Blocks -> Nat]
      BY <1>1
    <2>2. \A k \in Blocks : count(a, c)[k] <= f[k] + g[k]
      <3>1. SUFFICES ASSUME NEW k \in Blocks
                     PROVE  Cardinality(Diff(a, c)[k])
                              <= Cardinality(Diff(a, b)[k]) + Cardinality(Diff(b, c)[k])
        OBVIOUS
      <3> DEFINE X == Diff(a, b)[k]
                 Y == Diff(b, c)[k]
                 Z == Diff(a, c)[k]
      <3>2. Z \in SUBSET (X \cup Y)
        BY DEF Diff, SymDiff
      <3>3. X \in SUBSET Bits /\ Y \in SUBSET Bits
        BY DiffCounts DEF HVector
      <3> HIDE DEF X, Y, Z
      <3>4. IsFiniteSet(X) /\ IsFiniteSet(Y) /\ X \cap Y \in SUBSET Bits
        BY <3>3, WordFinite
      <3>5. /\ Cardinality(X) \in Nat /\ Cardinality(Y) \in Nat
            /\ Cardinality(X \cap Y) \in Nat
            /\ IsFiniteSet(X \cup Y)
            /\ Cardinality(X \cup Y) = Cardinality(X) + Cardinality(Y) - Cardinality(X \cap Y)
        BY <3>4, WordFinite, FS_CardinalityType, FS_Union
      <3>6. Cardinality(Z) <= Cardinality(X \cup Y)
        BY <3>2, <3>5, FS_Subset
      <3>7. Cardinality(Z) \in Nat
        BY <3>2, <3>5, FS_Subset, FS_CardinalityType
      <3>8. Cardinality(Z) <= Cardinality(X) + Cardinality(Y)
        BY <3>5, <3>6, <3>7
      <3>9. QED
        BY <3>8 DEF X, Y, Z
    <2> HIDE DEF f, g, count
    <2>3. h \in [Blocks -> Nat] /\ \A k \in Blocks : h[k] = f[k] + g[k]
      BY <2>1
    <2> HIDE DEF h
    <2>4. SumFunction(h) = SumFunction(f) + SumFunction(g)
      BY <2>1, <2>3, BlocksFinite, SumPlus
    <2>5. SumFunction(count(a, c)) <= SumFunction(h)
      BY <2>1, <2>2, <2>3, BlocksFinite, SumMonotone
    <2>6. QED
      BY <2>4, <2>5 DEF Distance, count, f, g
  <1>7. \E d \in HVector : Distance(a, d) = NumBlocks * BlockSize
    <2> DEFINE d == [k \in Blocks |-> Bits \ a[k]]
    <2>1. d \in HVector
      BY DEF HVector
    <2>2. \A k \in Blocks : Diff(a, d)[k] = Bits
      BY DEF Diff, SymDiff, HVector
    <2>3. Cardinality(Bits) = BlockSize
      BY <1>2, FS_Interval DEF Bits
    <2> HIDE DEF d
    <2>4. count(a, d) = all
      BY <2>2, <2>3
    <2>5. QED
      BY <1>3, <2>1, <2>4 DEF Distance
  <1>8. QED
    BY <1>4, <1>5, <1>6, <1>7, DistanceZero

LEMMA NearestDistanceIs ==
  ASSUME NEW vec \in HVector, NEW centroids \in Seq(HVector)
  PROVE  /\ NearestDistance(vec, centroids) \in 0 .. Dimensions
         /\ NearestDistance(vec, centroids) = 0 <=> \E i \in DOMAIN centroids : centroids[i] = vec
  <1> DEFINE Ds == {Dimensions} \cup {Distance(vec, centroids[i]) : i \in DOMAIN centroids}
  <1>1. Dimensions \in Nat \ {0}
    <2>1. NumBlocks * BlockSize \in Nat
      BY VectorsAssumption
    <2>2. QED
      BY <2>1, VectorsAssumption
  <1>2. Ds \in SUBSET Nat /\ Ds # {}
    BY <1>1, DistanceType
  <1>3. PICK least \in Ds : \A x \in Ds : least <= x
    <2> HIDE DEF Ds
    <2>1. QED
      BY <1>2, SmallestNat
  <1>4. Min(Ds) \in Ds /\ \A x \in Ds : Min(Ds) <= x
    BY <1>3 DEF Min
  <1>5. 0 \in Ds <=> \E i \in DOMAIN centroids : centroids[i] = vec
    BY <1>1, DistanceZero
  <1>6. Dimensions \in Ds /\ NearestDistance(vec, centroids) = Min(Ds)
    BY DEF NearestDistance
  <1> HIDE DEF Ds
  <1> DEFINE x == NearestDistance(vec, centroids)
  <1>7. x \in Ds /\ \A y \in Ds : x <= y
    BY <1>4, <1>6
  <1> HIDE DEF x
  <1>8. x \in 0 .. Dimensions /\ (x = 0 <=> 0 \in Ds)
    BY <1>1, <1>2, <1>6, <1>7
  <1>9. QED
    BY <1>5, <1>8 DEF x

(* A seed can always be found; and as long as the batch has a vector that  *)
(* is no seed yet, the next seed is not one that was taken before.         *)
THEOREM SeedIsNew ==
  ASSUME NEW batch \in Seq(HVector), batch # <<>>, NEW centroids \in Seq(HVector)
  PROVE  /\ \E n \in DOMAIN batch : IsFarthest(n, batch, centroids)
         /\ \A n, m \in DOMAIN batch :
              /\ IsFarthest(n, batch, centroids)
              /\ \A i \in DOMAIN centroids : centroids[i] # batch[m]
              => \A i \in DOMAIN centroids : centroids[i] # batch[n]
  <1> DEFINE d(n) == NearestDistance(batch[n], centroids)
  <1>1. \A n \in DOMAIN batch : d(n) \in 0 .. Dimensions
    BY NearestDistanceIs
  <1>2. \A n \in DOMAIN batch : d(n) = 0 <=> \E i \in DOMAIN centroids : centroids[i] = batch[n]
    BY NearestDistanceIs
  <1>3. \A n \in DOMAIN batch :
          IsFarthest(n, batch, centroids)
            <=> \A m \in DOMAIN batch : d(n) > d(m) \/ (d(n) = d(m) /\ n <= m)
    BY DEF IsFarthest
  <1>4. Dimensions \in Nat
    <2>1. NumBlocks * BlockSize \in Nat
      BY VectorsAssumption
    <2>2. QED
      BY <2>1, VectorsAssumption
  <1>5. DOMAIN batch \in SUBSET Nat /\ DOMAIN batch # {}
    <2>1. DOMAIN batch = 1 .. Len(batch) /\ Len(batch) \in Nat \ {0}
      OBVIOUS
    <2>2. QED
      BY <2>1
  <1> HIDE DEF d
  <1>6. \E n \in DOMAIN batch : IsFarthest(n, batch, centroids)
    <2> DEFINE Ds == {Dimensions - d(n) : n \in DOMAIN batch}
    <2>1. Ds \in SUBSET Nat /\ Ds # {}
      BY <1>1, <1>4, <1>5
    <2> HIDE DEF Ds
    <2>2. PICK least \in Ds : \A x \in Ds : least <= x
      BY <2>1, SmallestNat
    <2> DEFINE At == {n \in DOMAIN batch : Dimensions - d(n) = least}
    <2>3. At \in SUBSET Nat /\ At # {}
      BY <1>5, <2>2 DEF Ds
    <2> HIDE DEF At
    <2>4. PICK n \in At : \A m \in At : n <= m
      BY <2>3, SmallestNat
    <2>5. ASSUME NEW m \in DOMAIN batch
          PROVE  d(n) > d(m) \/ (d(n) = d(m) /\ n <= m)
      <3>1. /\ Dimensions - d(n) = least /\ least <= Dimensions - d(m)
            /\ d(n) \in Nat /\ d(m) \in Nat
        BY <1>1, <2>2, <2>4 DEF Ds, At
      <3>2. d(m) = d(n) => n <= m
        BY <2>4 DEF At
      <3>3. QED
        BY <1>4, <3>1, <3>2
    <2>6. n \in DOMAIN batch
      BY <2>4 DEF At
    <2>7. QED
      BY <1>3, <2>5, <2>6
  <1>7. ASSUME NEW n \in DOMAIN batch, NEW m \in DOMAIN batch, IsFarthest(n, batch, centroids),
               \A i \in DOMAIN centroids : centroids[i] # batch[m]
        PROVE  \A i \in DOMAIN centroids : centroids[i] # batch[n]
    <2>1. d(m) # 0 /\ d(m) <= d(n)
      BY <1>1, <1>2, <1>3, <1>7
    <2>2. d(n) # 0
      BY <1>1, <2>1
    <2>3. QED
      BY <1>2, <2>2
  <1>8. QED
    BY <1>6, <1>7

-----------------------------------------------------------------------------
(* DecayBlend.                                                             *)

LEMMA RankType ==
  ASSUME NEW word \in SUBSET Bits, NEW i
  PROVE  Cardinality({j \in word : j < i}) \in Nat
  <1>1. {j \in word : j < i} \in SUBSET Bits
    OBVIOUS
  <1>2. QED
    BY <1>1, WordFinite

(* The bits chosen so far, and the lowest of the others, are one more.     *)
LEMMA OneMoreBit ==
  ASSUME NEW word \in SUBSET Bits, NEW n \in Nat, Cardinality(LowestBits(word, n)) = n,
         LowestBits(word, n) # word
  PROVE  \E m \in word \ LowestBits(word, n) : LowestBits(word, n + 1) = LowestBits(word, n) \cup {m}
  <1> DEFINE low == LowestBits(word, n)
             rest == word \ low
             Below(i) == {j \in word : j < i}
             rank(i) == Cardinality(Below(i))
  <1>1. low = {i \in word : rank(i) < n} /\ LowestBits(word, n + 1) = {i \in word : rank(i) < n + 1}
    BY DEF LowestBits
  <1>2. \A i \in word : rank(i) \in Nat
    BY RankType
  <1> HIDE DEF rank
  <1>3. /\ \A i \in word : i \in Nat
        /\ rest \in SUBSET Nat /\ rest # {} /\ Cardinality(low) = n
    <2>1. word \subseteq Nat
      BY VectorsAssumption DEF Bits
    <2>2. low \subseteq word
      BY <1>1
    <2>3. QED
      BY <2>1, <2>2
  <1>4. \A i : IsFiniteSet(Below(i))
    <2>1. \A i : Below(i) \in SUBSET Bits
      OBVIOUS
    <2>2. QED
      BY <2>1, WordFinite
  <1> HIDE DEF low
  <1>5. PICK m \in rest : \A i \in rest : m <= i
    BY <1>3, SmallestNat
  <1>6. Below(m) = low
    <2>1. ASSUME NEW j \in word, j < m
          PROVE  j \in low
      BY <1>3, <1>5, <2>1
    <2>2. ASSUME NEW j \in low
          PROVE  j \in word /\ j < m
      <3>1. j \in word /\ m \in word /\ rank(j) < n /\ ~(rank(m) < n)
        BY <1>1, <1>5
      <3>2. SUFFICES ASSUME ~(j < m)
                     PROVE  FALSE
        BY <3>1
      <3>3. Below(m) \in SUBSET Below(j)
        BY <1>3, <3>1, <3>2
      <3>4. rank(m) <= rank(j)
        BY <1>4, <3>3, FS_Subset DEF rank
      <3>5. QED
        BY <1>2, <3>1, <3>4
    <2>3. QED
      BY <1>1, <2>1, <2>2
  <1>7. ASSUME NEW i \in rest, i # m
        PROVE  ~(rank(i) < n + 1)
    <2>1. m < i
      BY <1>3, <1>5, <1>7
    <2>2. low \cup {m} \in SUBSET Below(i)
      <3>1. \A j \in low : j \in word /\ j < m
        BY <1>6
      <3>2. \A j \in low : j < i
        BY <1>3, <1>5, <2>1, <3>1
      <3>3. QED
        BY <1>5, <2>1, <3>1, <3>2
    <2>3. IsFiniteSet(low) /\ m \notin low
      BY <1>4, <1>5, <1>6
    <2>4. Cardinality(low \cup {m}) = n + 1
      BY <1>3, <2>3, FS_AddElement
    <2>5. n + 1 <= rank(i)
      BY <1>4, <2>2, <2>4, FS_Subset DEF rank
    <2>6. QED
      BY <1>2, <2>5
  <1>8. rank(m) = n
    BY <1>3, <1>6 DEF rank
  <1>9. LowestBits(word, n + 1) = low \cup {m}
    <2>1. \A i \in low : rank(i) < n + 1
      BY <1>1, <1>2
    <2>2. rank(m) < n + 1
      BY <1>8
    <2>3. QED
      BY <1>1, <1>5, <1>7, <2>1, <2>2
  <1>10. QED
    BY <1>5, <1>9 DEF low

(* The mask of DecayBlend has as many bits as may flip, or all there are.  *)
LEMMA LowestBitsCount ==
  ASSUME NEW word \in SUBSET Bits, NEW n \in Nat
  PROVE  /\ LowestBits(word, n) \in SUBSET word
         /\ Cardinality(LowestBits(word, n)) = IF n <= Cardinality(word) THEN n
                                               ELSE Cardinality(word)
  <1> DEFINE size == Cardinality(word)
             G == {m \in Nat : Cardinality(LowestBits(word, m)) = IF m <= size THEN m ELSE size}
  <1>1. size \in Nat /\ IsFiniteSet(word)
    BY WordFinite
  <1>2. \A m : LowestBits(word, m) \in SUBSET word
    BY DEF LowestBits
  <1>3. 0 \in G
    <2>1. LowestBits(word, 0) = {}
      <3>1. ASSUME NEW i \in word
            PROVE  ~(Cardinality({j \in word : j < i}) < 0)
        <4>1. Cardinality({j \in word : j < i}) \in Nat
          BY RankType
        <4>2. QED
          BY <4>1
      <3>2. QED
        BY <3>1 DEF LowestBits
    <2>2. QED
      BY <1>1, <2>1, FS_EmptySet
  <1>4. ASSUME NEW m \in G
        PROVE  m + 1 \in G
    <2>1. m \in Nat /\ Cardinality(LowestBits(word, m)) = IF m <= size THEN m ELSE size
      OBVIOUS
    <2>2. CASE LowestBits(word, m) = word
      <3>1. LowestBits(word, m) \subseteq LowestBits(word, m + 1)
        <4>1. ASSUME NEW i \in word, Cardinality({j \in word : j < i}) < m
              PROVE  Cardinality({j \in word : j < i}) < m + 1
          <5>1. Cardinality({j \in word : j < i}) \in Nat
            BY RankType
          <5>2. QED
            BY <2>1, <4>1, <5>1
        <4>2. QED
          BY <4>1 DEF LowestBits
      <3>2. LowestBits(word, m + 1) = word
        BY <1>2, <2>2, <3>1
      <3>3. QED
        BY <1>1, <2>1, <2>2, <3>2
    <2>3. CASE LowestBits(word, m) # word
      <3>1. Cardinality(LowestBits(word, m)) # size
        BY <1>1, <1>2, <2>3, FS_Subset
      <3>2. Cardinality(LowestBits(word, m)) = m /\ m + 1 <= size
        BY <1>1, <2>1, <3>1
      <3>3. PICK i \in word \ LowestBits(word, m) :
              LowestBits(word, m + 1) = LowestBits(word, m) \cup {i}
        BY <2>1, <2>3, <3>2, OneMoreBit
      <3>4. IsFiniteSet(LowestBits(word, m))
        BY <1>1, <1>2, FS_Subset
      <3>5. Cardinality(LowestBits(word, m + 1)) = m + 1
        BY <3>2, <3>3, <3>4, FS_AddElement
      <3>6. QED
        BY <2>1, <3>2, <3>5
    <2>4. QED
      BY <2>2, <2>3
  <1>5. G = Nat
    <2>1. G \in SUBSET Nat
      OBVIOUS
    <2> HIDE DEF G
    <2>2. QED
      BY <1>3, <1>4, <2>1, NatInductionSet
  <1>6. n \in G
    BY <1>5
  <1>7. QED
    BY <1>2, <1>6

(* A rate strictly between 0 and 1: the blend is neither vector.           *)
RateBlends(alpha) == alpha.num \in Nat \ {0} /\ alpha.den \in Nat /\ alpha.num < alpha.den

(* Too slow to owe any word a bit.                                         *)
SlowRate(alpha) == alpha.num * BlockSize < alpha.den

LEMMA BlendInside ==
  ASSUME NEW alpha, RateBlends(alpha), NEW b \in HVector, NEW v \in HVector, NEW k \in Blocks
  PROVE  DecayBlend(b, v, alpha)[k]
           = SymDiff(b[k], LowestBits(Diff(b, v)[k], NumFlips(k, alpha)))
  <1>1. ~(alpha.num = 0 \/ alpha.num >= alpha.den)
    BY DEF RateBlends
  <1>2. QED
    BY <1>1 DEF DecayBlend

LEMMA Division ==
  ASSUME NEW n \in Nat, NEW d \in Nat \ {0}
  PROVE  n \div d \in Nat /\ (n < d => n \div d = 0) /\ (d <= n => n \div d >= 1)
  OBVIOUS

LEMMA NumFlipsType ==
  ASSUME NEW alpha, RateBlends(alpha), NEW k \in Blocks
  PROVE  /\ NumFlips(k, alpha) \in Nat
         /\ alpha.den <= alpha.num * BlockSize => NumFlips(k, alpha) >= 1
         /\ alpha.num * BlockSize < alpha.den /\ k % (alpha.den \div alpha.num) # 0
              => NumFlips(k, alpha) = 0
  <1> DEFINE n == (alpha.num * BlockSize) \div alpha.den
  <1>1. alpha.num * BlockSize \in Nat /\ alpha.den \in Nat \ {0}
    BY VectorsAssumption DEF RateBlends
  <1>2. /\ n \in Nat
        /\ alpha.num * BlockSize < alpha.den => n = 0
        /\ alpha.den <= alpha.num * BlockSize => n >= 1
    BY <1>1, Division
  <1>3. NumFlips(k, alpha) = IF n < 1 /\ k % (alpha.den \div alpha.num) = 0 THEN 1 ELSE n
    BY DEF NumFlips
  <1> HIDE DEF n
  <1>4. QED
    BY <1>2, <1>3

(* A blend takes from each word as many of the differing bits as the rate  *)
(* lets flip, or all of them; no other bit moves.                          *)
THEOREM BlendFlips ==
  ASSUME NEW alpha, RateBlends(alpha), NEW b \in HVector, NEW v \in HVector, NEW k \in Blocks
  PROVE  LET before == Diff(b, v)[k]
             after  == Diff(DecayBlend(b, v, alpha), v)[k]
             n      == NumFlips(k, alpha)
         IN  /\ after \in SUBSET before
             /\ Cardinality(after) = IF n <= Cardinality(before) THEN Cardinality(before) - n ELSE 0
  <1> DEFINE before == Diff(b, v)[k]
             after  == Diff(DecayBlend(b, v, alpha), v)[k]
             n      == NumFlips(k, alpha)
             mask   == LowestBits(before, n)
  <1>1. before \in SUBSET Bits /\ before = SymDiff(b[k], v[k])
    BY DEF Diff, SymDiff, HVector
  <1>2. after = SymDiff(SymDiff(b[k], mask), v[k])
    BY BlendInside DEF Diff
  <1>3. n \in Nat
    BY NumFlipsType
  <1> HIDE DEF before, after, n
  <1>4. /\ mask \in SUBSET before
        /\ Cardinality(mask) = IF n <= Cardinality(before) THEN n ELSE Cardinality(before)
    BY <1>1, <1>3, LowestBitsCount
  <1> HIDE DEF mask
  <1>5. after = before \ mask /\ mask = before \ after
    BY <1>1, <1>2, <1>4 DEF SymDiff
  <1>6. IsFiniteSet(before) /\ IsFiniteSet(after) /\ IsFiniteSet(mask)
    BY <1>1, <1>4, <1>5, WordFinite, FS_Subset
  <1>7. before = after \cup mask /\ after \cap mask = {}
    BY <1>4, <1>5
  <1>8. Cardinality(before) = Cardinality(after) + Cardinality(mask)
    <2>1. Cardinality(after \cap mask) = 0
      BY <1>7, FS_EmptySet
    <2>2. Cardinality(before)
            = Cardinality(after) + Cardinality(mask) - Cardinality(after \cap mask)
      BY <1>6, <1>7, FS_Union
    <2>3. Cardinality(after) \in Nat /\ Cardinality(mask) \in Nat
      BY <1>6, FS_CardinalityType
    <2>4. QED
      BY <2>1, <2>2, <2>3
  <1>9. Cardinality(after) \in Nat /\ Cardinality(mask) \in Nat /\ Cardinality(before) \in Nat
    BY <1>6, FS_CardinalityType
  <1>10. Cardinality(after) = IF n <= Cardinality(before) THEN Cardinality(before) - n ELSE 0
    BY <1>3, <1>4, <1>8, <1>9
  <1>11. QED
    BY <1>5, <1>10 DEF before, after, n

(* Blending never takes a vector further from the one blended in; when the *)
(* rate lets a bit of every word flip, each blend brings it nearer.        *)
THEOREM BlendGetsNearer ==
  ASSUME NEW alpha, RateBlends(alpha), NEW b \in HVector, NEW v \in HVector
  PROVE  /\ Distance(DecayBlend(b, v, alpha), v) <= Distance(b, v)
         /\ b # v /\ alpha.den <= alpha.num * BlockSize
              => Distance(DecayBlend(b, v, alpha), v) < Distance(b, v)
  <1> DEFINE w == DecayBlend(b, v, alpha)
             before == [k \in Blocks |-> Cardinality(Diff(b, v)[k])]
             after  == [k \in Blocks |-> Cardinality(Diff(w, v)[k])]
  <1>1. w \in HVector
    BY BlendType
  <1>2. before \in [Blocks -> Nat] /\ after \in [Blocks -> Nat]
    BY <1>1, DiffCounts
  <1>3. ASSUME NEW k \in Blocks
        PROVE  /\ after[k] <= before[k]
               /\ before[k] # 0 /\ NumFlips(k, alpha) >= 1 => after[k] < before[k]
    <2>1. after[k] = IF NumFlips(k, alpha) <= before[k] THEN before[k] - NumFlips(k, alpha) ELSE 0
      BY BlendFlips
    <2>2. NumFlips(k, alpha) \in Nat
      BY NumFlipsType
    <2> HIDE DEF before, after
    <2>3. QED
      BY <1>2, <2>1, <2>2
  <1>4. Distance(b, v) = SumFunction(before) /\ Distance(w, v) = SumFunction(after)
    BY DEF Distance
  <1>5. ASSUME b # v, alpha.den <= alpha.num * BlockSize
        PROVE  \E k \in Blocks : after[k] < before[k]
    <2>1. PICK k \in Blocks : b[k] # v[k]
      BY <1>5 DEF HVector
    <2>2. Diff(b, v)[k] # {} /\ Diff(b, v)[k] \in SUBSET Bits
      BY <2>1 DEF Diff, SymDiff, HVector
    <2>3. Cardinality(Diff(b, v)[k]) # 0
      BY <2>2, WordFinite, FS_EmptySet
    <2>4. NumFlips(k, alpha) >= 1
      BY <1>5, NumFlipsType
    <2>5. before[k] # 0
      BY <2>3
    <2> HIDE DEF before, after
    <2>6. QED
      BY <1>3, <2>4, <2>5
  <1> HIDE DEF w, before, after
  <1>6. SumFunction(after) <= SumFunction(before)
    BY <1>2, <1>3, BlocksFinite, SumMonotone
  <1>7. ASSUME b # v, alpha.den <= alpha.num * BlockSize
        PROVE  SumFunction(after) < SumFunction(before)
    BY <1>2, <1>3, <1>5, <1>7, BlocksFinite, SumStrict
  <1>8. QED
    BY <1>4, <1>6, <1>7 DEF w

(* At a slow rate the words that are no multiple of int(1 / alpha) stay as *)
(* they are.                                                               *)
LEMMA SlowBlendKeeps ==
  ASSUME NEW alpha, RateBlends(alpha), SlowRate(alpha),
         NEW b \in HVector, NEW v \in HVector,
         NEW k \in Blocks, k % (alpha.den \div alpha.num) # 0
  PROVE  DecayBlend(b, v, alpha)[k] = b[k]
  <1>1. NumFlips(k, alpha) = 0
    BY NumFlipsType DEF SlowRate
  <1>2. Diff(b, v)[k] \in SUBSET Bits
    BY DEF Diff, SymDiff, HVector
  <1>3. LowestBits(Diff(b, v)[k], 0) = {}
    <2> DEFINE mask == LowestBits(Diff(b, v)[k], 0)
    <2>1. /\ mask \in SUBSET Diff(b, v)[k]
          /\ Cardinality(mask) = IF 0 <= Cardinality(Diff(b, v)[k]) THEN 0
                                 ELSE Cardinality(Diff(b, v)[k])
      BY <1>2, LowestBitsCount
    <2>2. Cardinality(Diff(b, v)[k]) \in Nat
      BY <1>2, WordFinite
    <2>3. mask \in SUBSET Bits /\ Cardinality(mask) = 0
      BY <1>2, <2>1, <2>2
    <2> HIDE DEF mask
    <2>4. mask = {}
      BY <2>3, WordFinite, FS_EmptySet
    <2>5. QED
      BY <2>4 DEF mask
  <1>4. DecayBlend(b, v, alpha)[k] = SymDiff(b[k], {})
    <2>1. DecayBlend(b, v, alpha)[k]
            = SymDiff(b[k], LowestBits(Diff(b, v)[k], NumFlips(k, alpha)))
      BY BlendInside, Zenon
    <2>2. QED
      BY <1>1, <1>3, <2>1, Zenon
  <1>5. QED
    BY <1>4 DEF SymDiff

(* The baselines that come of the same vector blended in again and again.  *)
Updates(s, v, alpha) == s \in [Nat -> HVector] /\ \A n \in Nat : s[n + 1] = DecayBlend(s[n], v, alpha)

(* Adaptation only ever moves the baseline towards the healthy vector: a   *)
(* bit that agrees with it, agrees from then on (UpdateBaseline).          *)
THEOREM BlendsTowardsHealthy ==
  ASSUME NEW alpha, RateBlends(alpha), NEW v \in HVector, NEW s, Updates(s, v, alpha),
         NEW m \in Nat, NEW n \in Nat, NEW k \in Blocks
  PROVE  Diff(s[m + n], v)[k] \subseteq Diff(s[m], v)[k]
  <1> DEFINE G == {i \in Nat : Diff(s[m + i], v)[k] \subseteq Diff(s[m], v)[k]}
  <1>1. 0 \in G
    OBVIOUS
  <1>2. ASSUME NEW i \in G
        PROVE  i + 1 \in G
    <2>1. m + i \in Nat /\ m + (i + 1) = (m + i) + 1
      OBVIOUS
    <2>2. s[m + (i + 1)] = DecayBlend(s[m + i], v, alpha) /\ s[m + i] \in HVector
      BY <2>1 DEF Updates
    <2>3. Diff(DecayBlend(s[m + i], v, alpha), v)[k] \subseteq Diff(s[m + i], v)[k]
      BY <2>2, BlendFlips
    <2>4. Diff(s[m + (i + 1)], v)[k] \subseteq Diff(s[m], v)[k]
      BY <2>2, <2>3
    <2>5. QED
      BY <2>4
  <1>3. G = Nat
    <2>1. G \in SUBSET Nat
      OBVIOUS
    <2> HIDE DEF G
    <2>2. QED
      BY <1>1, <1>2, <2>1, NatInductionSet
  <1>4. n \in G
    BY <1>3
  <1>5. QED
    BY <1>4

(* At a slow rate the words that are no multiple of int(1 / alpha) never   *)
(* change, however often the line comes: the rates the comments of decay.go*)
(* recommend leave all but one or two of the 157 words as they were        *)
(* trained.                                                                *)
THEOREM SlowRateFreezes ==
  ASSUME NEW alpha, RateBlends(alpha), SlowRate(alpha), NEW v \in HVector,
         NEW s, Updates(s, v, alpha),
         NEW n \in Nat, NEW k \in Blocks, k % (alpha.den \div alpha.num) # 0
  PROVE  s[n][k] = s[0][k]
  <1> DEFINE G == {i \in Nat : s[i][k] = s[0][k]}
  <1>1. 0 \in G
    OBVIOUS
  <1>2. ASSUME NEW i \in G
        PROVE  i + 1 \in G
    <2>1. s[i + 1] = DecayBlend(s[i], v, alpha) /\ s[i] \in HVector
      BY DEF Updates
    <2>2. DecayBlend(s[i], v, alpha)[k] = s[i][k]
      BY <2>1, SlowBlendKeeps
    <2>3. QED
      BY <2>1, <2>2
  <1>3. G = Nat
    <2>1. G \in SUBSET Nat
      OBVIOUS
    <2> HIDE DEF G
    <2>2. QED
      BY <1>1, <1>2, <2>1, NatInductionSet
  <1>4. n \in G
    BY <1>3
  <1>5. QED
    BY <1>4

(* A baseline that meets the same vector again and again becomes it after  *)
(* at most as many blends as there were differing bits, when the rate lets *)
(* a bit of every word flip.                                               *)
THEOREM BlendsConverge ==
  ASSUME NEW alpha, RateBlends(alpha), alpha.den <= alpha.num * BlockSize,
         NEW v \in HVector, NEW s, Updates(s, v, alpha)
  PROVE  \A n \in Nat : Distance(s[0], v) <= n => s[n] = v
  <1> DEFINE d(n) == Distance(s[n], v)
             G == {n \in Nat : d(n) = 0 \/ d(n) + n <= d(0)}
  <1>1. \A n \in Nat : d(n) \in Nat
    BY DistanceType DEF Updates
  <1>2. \A n \in Nat : d(n + 1) <= d(n) /\ (d(n) # 0 => d(n + 1) < d(n))
    BY BlendGetsNearer, DistanceZero DEF Updates
  <1> HIDE DEF d
  <1>3. 0 \in G
    BY <1>1
  <1>4. \A n \in G : n + 1 \in G
    BY <1>1, <1>2
  <1>5. G = Nat
    <2>1. G \in SUBSET Nat
      OBVIOUS
    <2> HIDE DEF G
    <2>2. QED
      BY <1>3, <1>4, <2>1, NatInductionSet
  <1>6. ASSUME NEW n \in Nat, d(0) <= n
        PROVE  d(n) = 0
    <2>1. n \in G
      BY <1>5
    <2>2. QED
      BY <1>1, <1>6, <2>1
  <1>7. QED
    BY <1>6, DistanceZero DEF d, Updates

-----------------------------------------------------------------------------
(* Encoding.                                                               *)

LEMMA ModOnce ==
  ASSUME NEW n \in Nat \ {0}, NEW x \in 0 .. 2 * n - 1
  PROVE  x % n = IF x < n THEN x ELSE x - n
  OBVIOUS

(* Rotate moves each word, and no two to the same place.                   *)
LEMMA RotateMoves ==
  ASSUME NEW v \in HVector, NEW p \in 0 .. NumBlocks, NEW i \in Blocks
  PROVE  (i + p) % NumBlocks \in Blocks /\ Rotate(v, p)[(i + p) % NumBlocks] = v[i]
  <1> DEFINE k == (i + p) % NumBlocks
  <1>1. NumBlocks \in Nat \ {0}
    BY VectorsAssumption
  <1>2. ASSUME NEW j \in Blocks
        PROVE  (j + p) % NumBlocks = IF j + p < NumBlocks THEN j + p ELSE j + p - NumBlocks
    <2>1. j + p \in 0 .. 2 * NumBlocks - 1
      BY <1>1 DEF Blocks
    <2> DEFINE x == j + p
    <2> HIDE DEF x
    <2>2. x % NumBlocks = IF x < NumBlocks THEN x ELSE x - NumBlocks
      BY <1>1, <2>1, ModOnce DEF x
    <2>3. QED
      BY <1>1, <2>1, <2>2 DEF x, Blocks
  <1>3. k \in Blocks
    BY <1>1, <1>2 DEF Blocks
  <1>4. \A j \in Blocks : (j + p) % NumBlocks = k => j = i
    BY <1>1, <1>2 DEF Blocks
  <1> HIDE DEF k
  <1>5. (CHOOSE j \in Blocks : (j + p) % NumBlocks = k) = i
    BY <1>4 DEF k
  <1>6. QED
    BY <1>3, <1>5 DEF Rotate, k

LEMMA RotateInjective ==
  ASSUME NEW v \in HVector, NEW w \in HVector, NEW p \in 0 .. NumBlocks,
         Rotate(v, p) = Rotate(w, p)
  PROVE  v = w
  <1>1. \A i \in Blocks : v[i] = w[i]
    BY RotateMoves
  <1>2. QED
    BY <1>1 DEF HVector

(* Binding with the same vector keeps different vectors different.         *)
LEMMA BindInjective ==
  ASSUME NEW a, NEW b, NEW c, Bind(a, c) = Bind(b, c), NEW k \in Blocks
  PROVE  a[k] = b[k]
  <1>1. SymDiff(a[k], c[k]) = SymDiff(b[k], c[k])
    BY DEF Bind, Diff
  <1>2. QED
    BY <1>1 DEF SymDiff

LEMMA BindType ==
  ASSUME NEW a \in HVector, NEW b \in HVector
  PROVE  Bind(a, b) \in HVector /\ Bind(a, b) = Bind(b, a)
  BY DEF Bind, Diff, SymDiff, HVector

LEMMA RotateType ==
  ASSUME NEW v \in HVector, NEW p \in 0 .. NumBlocks
  PROVE  Rotate(v, p) \in HVector
  <1>1. NumBlocks \in Nat \ {0}
    BY VectorsAssumption
  <1>2. ASSUME NEW k \in Blocks
        PROVE  \E i \in Blocks : (i + p) % NumBlocks = k
    <2> DEFINE i == IF p <= k THEN k - p ELSE k + NumBlocks - p
    <2>1. i \in Blocks /\ i + p \in 0 .. 2 * NumBlocks - 1
      BY <1>1 DEF Blocks
    <2>2. (i + p) % NumBlocks = k
      BY <1>1, <2>1, ModOnce DEF Blocks
    <2>3. QED
      BY <2>1, <2>2
  <1>3. \A k \in Blocks : v[CHOOSE i \in Blocks : (i + p) % NumBlocks = k] \in SUBSET Bits
    BY <1>2 DEF HVector
  <1>4. QED
    BY <1>3 DEF Rotate, HVector

(* A trigram of letters with different vectors tells any one of its        *)
(* letters: put another in its place, and the vector changes.              *)
THEOREM TrigramTellsLetters ==
  ASSUME NEW a \in HVector, NEW b \in HVector, NEW c \in HVector, NEW d \in HVector,
         2 <= NumBlocks
  PROVE  /\ Trigram(a, b, c) = Trigram(d, b, c) => a = d
         /\ Trigram(a, b, c) = Trigram(a, d, c) => b = d
         /\ Trigram(a, b, c) = Trigram(a, b, d) => c = d
  <1>1. NumBlocks \in Nat /\ 1 \in 0 .. NumBlocks /\ 2 \in 0 .. NumBlocks
    BY VectorsAssumption
  <1>2. \A x, y, z \in HVector : Bind(x, z) = Bind(y, z) => x = y
    <2>1. SUFFICES ASSUME NEW x \in HVector, NEW y \in HVector, NEW z \in HVector,
                          Bind(x, z) = Bind(y, z)
                   PROVE  x = y
      OBVIOUS
    <2>2. \A k \in Blocks : x[k] = y[k]
      BY <2>1, BindInjective
    <2>3. QED
      BY <2>2 DEF HVector
  <1>3. /\ Rotate(a, 2) \in HVector /\ Rotate(b, 1) \in HVector
        /\ Rotate(d, 2) \in HVector /\ Rotate(d, 1) \in HVector
    BY <1>1, RotateType
  <1>4. Trigram(a, b, c) = Trigram(d, b, c) => a = d
    <2>1. SUFFICES ASSUME Trigram(a, b, c) = Trigram(d, b, c)
                   PROVE  a = d
      OBVIOUS
    <2>2. Bind(Rotate(a, 2), Rotate(b, 1)) = Bind(Rotate(d, 2), Rotate(b, 1))
      BY <1>2, <1>3, <2>1, BindType DEF Trigram
    <2>3. QED
      BY <1>1, <1>2, <1>3, <2>2, RotateInjective
  <1>5. Trigram(a, b, c) = Trigram(a, d, c) => b = d
    <2>1. SUFFICES ASSUME Trigram(a, b, c) = Trigram(a, d, c)
                   PROVE  b = d
      OBVIOUS
    <2>2. Bind(Rotate(a, 2), Rotate(b, 1)) = Bind(Rotate(a, 2), Rotate(d, 1))
      BY <1>2, <1>3, <2>1, BindType DEF Trigram
    <2>3. Bind(Rotate(b, 1), Rotate(a, 2)) = Bind(Rotate(d, 1), Rotate(a, 2))
      BY <1>3, <2>2, BindType
    <2>4. QED
      BY <1>1, <1>2, <1>3, <2>3, RotateInjective
  <1>6. Trigram(a, b, c) = Trigram(a, b, d) => c = d
    <2>1. SUFFICES ASSUME Trigram(a, b, c) = Trigram(a, b, d)
                   PROVE  c = d
      OBVIOUS
    <2> DEFINE ab == Bind(Rotate(a, 2), Rotate(b, 1))
    <2>2. ab \in HVector
      BY <1>3, BindType
    <2> HIDE DEF ab
    <2>3. Bind(c, ab) = Bind(d, ab)
      BY <2>1, <2>2, BindType DEF Trigram, ab
    <2>4. QED
      BY <1>2, <2>2, <2>3
  <1>7. QED
    BY <1>4, <1>5, <1>6
=============================================================================
