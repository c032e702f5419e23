------------------------------- MODULE Vectors -------------------------------
(***************************************************************************)
(* The vector operations that learning is made of: internal/domain/        *)
(* hvector.go, decay.go, the assignment of clustering.go, and EncodeLine   *)
(* (internal/infrastructure/hdc/encoder.go).                               *)
(*                                                                         *)
(* A word is the set of its bits that are on, bit 0 the least significant. *)
(* A learning rate is a fraction; the code's float64 rates are all 1/n or  *)
(* given by the user.  The Hamming distance stands for Similarity, which   *)
(* is 1 - distance / Dimensions: nearest is most similar.                  *)
(***************************************************************************)
EXTENDS Naturals, Sequences, FiniteSetsExt

CONSTANTS
  NumBlocks,   \* words of a vector (157)
  BlockSize,   \* bits of a word (64)
  Dimensions   \* what Similarity divides by (10000)

ASSUME VectorsAssumption ==
  /\ NumBlocks \in Nat \ {0}
  /\ BlockSize \in Nat \ {0}
  /\ Dimensions \in 1 .. NumBlocks * BlockSize

Blocks == 0 .. NumBlocks - 1
Bits == 0 .. BlockSize - 1
HVector == [Blocks -> SUBSET Bits]

(* The bits in which two vectors differ, word by word.                     *)
Diff(a, b) == [k \in Blocks |-> SymDiff(a[k], b[k])]

Distance(a, b) == SumFunction([k \in Blocks |-> Cardinality(Diff(a, b)[k])])

-----------------------------------------------------------------------------
(* Bundle and BundleAccumulator: the majority, a tie being off.            *)

(* How many of the vectors have the bit on.                                *)
Votes(vectors, k, i) == Cardinality({n \in DOMAIN vectors : i \in vectors[n][k]})

Bundle(vectors) == [k \in Blocks |-> {i \in Bits : Votes(vectors, k, i) > Len(vectors) \div 2}]

EmptyCounts == [k \in Blocks |-> [i \in Bits |-> 0]]

(* Add counts the bits of one more vector.                                 *)
AddCounts(counts, vec) ==
  [k \in Blocks |-> [i \in Bits |-> counts[k][i] + IF i \in vec[k] THEN 1 ELSE 0]]

(* Mutant of Result: a tie is on.                                          *)
TieIsOn(counts, total) == [k \in Blocks |-> {i \in Bits : 2 * counts[k][i] >= total}]

Result(counts, total) == [k \in Blocks |-> {i \in Bits : counts[k][i] > total \div 2}]

-----------------------------------------------------------------------------
(* EncodeLine.                                                             *)

(* Rotate moves whole words.                                               *)
Rotate(v, positions) ==
  [k \in Blocks |-> v[CHOOSE i \in Blocks : (i + positions) % NumBlocks = k]]

Bind(a, b) == Diff(a, b)

(* Three letters in a row, each turned by its place among them.            *)
Trigram(a, b, c) == Bind(Bind(Rotate(a, 2), Rotate(b, 1)), c)

(* The vector of a line, a sequence of runes without its timestamp, given  *)
(* the vectors of all runes: the majority of its trigrams.  The callers    *)
(* skip blank lines, and no line is all timestamp, so that there is one.   *)
EncodeLine(line, letters) ==
  LET runes == <<"^">> \o line \o <<"$">>
      Letter(i) == letters[runes[i]]
  IN Bundle([i \in 1 .. Len(runes) - 2 |-> Trigram(Letter(i), Letter(i + 1), Letter(i + 2))])

-----------------------------------------------------------------------------
(* DecayBlend.                                                             *)

(* int(alpha * 64) bits of a block may flip; when that is none, one bit of *)
(* every int(1 / alpha)-th block.  (In float64 1 / alpha rounds down below *)
(* the integer at 1/93 and 1/99, the only two of the rates of 1/2 .. 1/100:*)
(* there the period is one less.)                                          *)
NumFlips(block, alpha) ==
  LET n == (alpha.num * BlockSize) \div alpha.den
  IN IF n < 1 /\ block % (alpha.den \div alpha.num) = 0 THEN 1 ELSE n

(* The n least significant of the bits that are on.                        *)
LowestBits(word, n) == {i \in word : Cardinality({j \in word : j < i}) < n}

(* Mutant of DecayBlend: the mask is cut from the new vector, not from the *)
(* bits that differ.                                                       *)
BlendNewBits(baseline, newVec, alpha) ==
  [k \in Blocks |->
     SymDiff(baseline[k], LowestBits(newVec[k], NumFlips(k, alpha)))]

DecayBlend(baseline, newVec, alpha) ==
  IF alpha.num = 0 THEN baseline
  ELSE IF alpha.num >= alpha.den THEN newVec
  ELSE [k \in Blocks |->
          SymDiff(baseline[k], LowestBits(Diff(baseline, newVec)[k], NumFlips(k, alpha)))]

-----------------------------------------------------------------------------
(* AssignToCluster: the nearest centroid, the first of several.            *)
AssignToCluster(vec, centroids) ==
  CHOOSE i \in DOMAIN centroids :
    \A j \in DOMAIN centroids :
      LET di == Distance(vec, centroids[i])
          dj == Distance(vec, centroids[j])
      IN di < dj \/ (di = dj /\ i <= j)

(* The distance to the nearest centroid; beyond Dimensions the similarity  *)
(* is negative, and the maximum, which starts at 0, does not see it.       *)
NearestDistance(vec, centroids) ==
  Min({Dimensions} \cup {Distance(vec, centroids[i]) : i \in DOMAIN centroids})

(* One step of kMeansPlusPlusInit: the n-th vector is the first of those   *)
(* that are farthest from the centroids chosen so far.                     *)
IsFarthest(n, batch, centroids) ==
  \A m \in DOMAIN batch :
    LET dn == NearestDistance(batch[n], centroids)
        dm == NearestDistance(batch[m], centroids)
    IN dn > dm \/ (dn = dm /\ n <= m)
=============================================================================
