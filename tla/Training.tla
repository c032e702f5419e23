------------------------------- MODULE Training -------------------------------
(***************************************************************************)
(* Trainer.train (internal/usecase/trainer.go) with the mini-batch k-means *)
(* of internal/domain/clustering.go: the vectors of the training files are *)
(* read one by one; with two clusters or more they are collected in        *)
(* batches whose vectors pull their nearest centroid towards them, with    *)
(* fewer they are counted bit by bit; a second pass over the same files    *)
(* tunes the threshold, and the model is saved.                            *)
(*                                                                         *)
(* The vectors are chosen as they are read.  The threshold is arithmetic   *)
(* on float64 and is left out: the second pass only succeeds or fails.     *)
(***************************************************************************)
EXTENDS Vectors

CONSTANTS
  Inputs,      \* vectors that EncodeLine may make of a line
  Clusters,    \* values of --clusters
  BatchSize,   \* 5000
  EtaFloor,    \* the learning rate is at least 1/EtaFloor (100)
  MaxVectors   \* bound on the lines of the training files

ASSUME TrainingAssumption ==
  /\ Inputs \subseteq HVector
  /\ Clusters \subseteq Nat
  /\ BatchSize \in Nat \ {0}
  /\ EtaFloor \in Nat \ {0}
  /\ MaxVectors \in Nat

VARIABLES
  numClusters,  \* --clusters
  pc,           \* where train is
  seen,         \* history: the vectors read so far
  batch,        \* vectors collected, then those ProcessBatch has still to do
  lastBatch,    \* the batch being processed is what was left at the end
  centroids,    \* MiniBatchKMeans.centroids
  vCounts,      \* MiniBatchKMeans.vCounts
  counts,       \* BundleAccumulator.counts
  total,        \* BundleAccumulator.total
  model         \* the baselines saved; empty before

kMeansVars == <<batch, lastBatch, centroids, vCounts>>
bundleVars == <<counts, total>>
vars == <<numClusters, pc, seen, kMeansVars, bundleVars, model>>

Clustering == numClusters >= 2

Init ==
  /\ numClusters \in Clusters
  /\ pc = "read"
  /\ seen = <<>>
  /\ batch = <<>>
  /\ lastBatch = FALSE
  /\ centroids = <<>>
  /\ vCounts = [c \in 1 .. numClusters |-> 0]
  /\ counts = EmptyCounts
  /\ total = 0
  /\ model = <<>>

-----------------------------------------------------------------------------
(* The first pass.                                                         *)

(* The callback of the clustering pass; a full batch is processed at once. *)
CollectVector(v) ==
  /\ Clustering
  /\ batch' = Append(batch, v)
  /\ pc' = IF Len(batch') >= BatchSize THEN "batch" ELSE "read"
  /\ UNCHANGED <<lastBatch, centroids, vCounts, bundleVars>>

(* The callback of the bundling pass.                                      *)
CountVector(v) ==
  /\ ~Clustering
  /\ counts' = AddCounts(counts, v)
  /\ total' = total + 1
  /\ UNCHANGED <<pc, kMeansVars>>

ReadVector(v) ==
  /\ pc = "read"
  /\ Len(seen) < MaxVectors
  /\ seen' = Append(seen, v)
  /\ CollectVector(v) \/ CountVector(v)
  /\ UNCHANGED <<numClusters, model>>

(* Mutant of EndOfFiles: what is left of the last batch is only processed  *)
(* if there are no centroids yet.                                          *)
DropLastBatch ==
  /\ pc = "read"
  /\ pc' = IF seen = <<>> THEN "failed"
           ELSE IF Clustering /\ batch # <<>> /\ centroids = <<>> THEN "batch" ELSE "tune"
  /\ lastBatch' = TRUE
  /\ UNCHANGED <<numClusters, seen, batch, centroids, vCounts, bundleVars, model>>

(* No more lines: process what is left, or fail if there were none at all. *)
EndOfFiles ==
  /\ pc = "read"
  /\ pc' = IF seen = <<>> THEN "failed"
           ELSE IF Clustering /\ batch # <<>> THEN "batch" ELSE "tune"
  /\ lastBatch' = TRUE
  /\ UNCHANGED <<numClusters, seen, batch, centroids, vCounts, bundleVars, model>>

(* A file cannot be read, in either pass, or the model cannot be saved.    *)
Fail ==
  /\ pc \in {"read", "tune", "save"}
  /\ pc' = "failed"
  /\ UNCHANGED <<numClusters, seen, kMeansVars, bundleVars, model>>

-----------------------------------------------------------------------------
(* ProcessBatch.                                                           *)

(* After the batch: back to the files, or on to the second pass.           *)
BatchEnds ==
  /\ batch' = <<>>
  /\ pc' = IF lastBatch THEN "tune" ELSE "read"

(* Mutant of TakeAllAsCentroids: the counters are made anew, too few.      *)
TakeAllRemake ==
  /\ pc = "batch"
  /\ centroids = <<>>
  /\ Len(batch) <= numClusters
  /\ centroids' = batch
  /\ vCounts' = [c \in 1 .. Len(batch) |-> 1]
  /\ BatchEnds
  /\ UNCHANGED <<numClusters, seen, lastBatch, bundleVars, model>>

(* The first batch is so small that its vectors are the centroids.         *)
TakeAllAsCentroids ==
  /\ pc = "batch"
  /\ centroids = <<>>
  /\ Len(batch) <= numClusters
  /\ centroids' = batch
  /\ vCounts' = [c \in 1 .. numClusters |-> IF c <= Len(batch) THEN 1 ELSE 0]
  /\ BatchEnds
  /\ UNCHANGED <<numClusters, seen, lastBatch, bundleVars, model>>

(* kMeansPlusPlusInit starts from the first vector of the batch ...        *)
FirstSeed ==
  /\ pc = "batch"
  /\ centroids = <<>>
  /\ Len(batch) > numClusters
  /\ centroids' = <<batch[1]>>
  /\ pc' = "seed"
  /\ UNCHANGED <<numClusters, seen, batch, lastBatch, vCounts, bundleVars, model>>

(* ... adds the farthest one ...                                           *)
NextSeed ==
  /\ pc = "seed"
  /\ Len(centroids) < numClusters
  /\ \E n \in DOMAIN batch :
       /\ IsFarthest(n, batch, centroids)
       /\ centroids' = Append(centroids, batch[n])
  /\ UNCHANGED <<numClusters, pc, seen, batch, lastBatch, vCounts, bundleVars, model>>

(* Mutant of SeedsComplete: one centroid too few.                          *)
SeedsShort ==
  /\ pc = "seed"
  /\ Len(centroids) >= numClusters - 1
  /\ vCounts' = [c \in 1 .. numClusters |-> IF c <= Len(centroids) THEN 1 ELSE 0]
  /\ pc' = "batch"
  /\ UNCHANGED <<numClusters, seen, batch, lastBatch, centroids, bundleVars, model>>

(* ... until there are enough.                                             *)
SeedsComplete ==
  /\ pc = "seed"
  /\ Len(centroids) >= numClusters
  /\ vCounts' = [c \in 1 .. numClusters |-> 1]
  /\ pc' = "batch"
  /\ UNCHANGED <<numClusters, seen, batch, lastBatch, centroids, bundleVars, model>>

(* The learning rate of a centroid that has been counted n times.          *)
Eta(n) == [num |-> 1, den |-> Min({n, EtaFloor})]

(* The next vector pulls its nearest centroid.                             *)
PullCentroid ==
  LET vec == Head(batch)
      idx == AssignToCluster(vec, centroids)
      n   == vCounts[idx] + 1 IN
  /\ pc = "batch"
  /\ centroids # <<>>
  /\ batch # <<>>
  /\ vCounts' = [vCounts EXCEPT ![idx] = n]
  /\ centroids' = [centroids EXCEPT ![idx] = DecayBlend(@, vec, Eta(n))]
  /\ batch' = Tail(batch)
  /\ UNCHANGED <<numClusters, pc, seen, lastBatch, bundleVars, model>>

BatchDone ==
  /\ pc = "batch"
  /\ centroids # <<>>
  /\ batch = <<>>
  /\ BatchEnds
  /\ UNCHANGED <<numClusters, seen, lastBatch, centroids, vCounts, bundleVars, model>>

-----------------------------------------------------------------------------
(* The second pass and the save.                                           *)

Baselines == IF Clustering THEN centroids ELSE <<Result(counts, total)>>

Tuned ==
  /\ pc = "tune"
  /\ pc' = "save"
  /\ UNCHANGED <<numClusters, seen, kMeansVars, bundleVars, model>>

SaveModel ==
  /\ pc = "save"
  /\ model' = Baselines
  /\ pc' = "saved"
  /\ UNCHANGED <<numClusters, seen, kMeansVars, bundleVars>>

Ended ==
  /\ pc \in {"saved", "failed"}
  /\ UNCHANGED vars

ProcessBatch ==
  \/ TakeAllAsCentroids \/ FirstSeed \/ NextSeed \/ SeedsComplete
  \/ PullCentroid \/ BatchDone

Next ==
  \/ \E v \in Inputs : ReadVector(v)
  \/ EndOfFiles
  \/ ProcessBatch
  \/ Tuned
  \/ SaveModel
  \/ Fail
  \/ Ended

Spec == Init /\ [][Next]_vars

-----------------------------------------------------------------------------
(* Properties.                                                             *)

TypeOK ==
  /\ numClusters \in Clusters
  /\ pc \in {"read", "batch", "seed", "tune", "save", "saved", "failed"}
  /\ seen \in Seq(Inputs)
  /\ batch \in Seq(Inputs)
  /\ lastBatch \in BOOLEAN
  /\ centroids \in Seq(HVector)
  /\ vCounts \in [1 .. numClusters -> Nat]
  /\ counts \in [Blocks -> [Bits -> Nat]]
  /\ total \in Nat
  /\ model \in Seq(HVector)

(* A centroid holds only what the training data showed: each of its bits   *)
(* has the value it has in some vector read so far.  Blending moves it     *)
(* towards the data and never flips a bit all vectors agree on.            *)
CentroidsWithinData ==
  \A c \in DOMAIN centroids : \A k \in Blocks : \A i \in Bits :
    \E n \in DOMAIN seen : i \in centroids[c][k] <=> i \in seen[n][k]

(* The first batch: a full one, or all there is.                           *)
FirstBatchLen == Min({BatchSize, Len(seen)})

(* k-means++ counts each seed once as a centroid and once as a vector.     *)
SeedCounts == IF FirstBatchLen > numClusters THEN numClusters ELSE 0

(* By the end of the pass every vector read has been counted for exactly   *)
(* one centroid, also those of the last batch; only seeds once more.       *)
EveryVectorCounted ==
  Clustering /\ pc \in {"tune", "save", "saved"} =>
    SumFunction(vCounts) = Len(seen) + SeedCounts

(* Counting bit by bit as vectors stream in gives the bundle of them all,  *)
(* ties included: a training file need not fit in memory.                  *)
StreamedBundle ==
  ~Clustering /\ seen # <<>> => Result(counts, total) = Bundle(seen)

(* A model that was saved has the clusters that were asked for ("Number of *)
(* baseline clusters", README.md:84), or as many as the first batch has    *)
(* vectors: never more than a batch holds, whatever was asked for and      *)
(* however many vectors follow.                                            *)
ModelComplete ==
  pc = "saved" => Len(model) = IF Clustering THEN Min({numClusters, FirstBatchLen}) ELSE 1

-----------------------------------------------------------------------------
(* The inductive invariant.                                                *)

(* What is in the batch was read.                                          *)
BatchFromData == \A n \in DOMAIN batch : \E m \in DOMAIN seen : batch[n] = seen[m]

(* The accumulator has counted the votes.                                  *)
CountsAreVotes ==
  ~Clustering =>
    /\ total = Len(seen)
    /\ counts = [k \in Blocks |-> [i \in Bits |-> Votes(seen, k, i)]]

(* Until there are centroids everything read is in the batch, which is     *)
(* full or the last one when it is processed.                              *)
FirstBatch ==
  Clustering =>
    /\ Len(batch) <= BatchSize
    /\ pc = "read" => ~lastBatch /\ Len(batch) < BatchSize
    /\ (pc \in {"read", "batch"} /\ centroids = <<>>) \/ pc = "seed" => batch = seen
    /\ pc = "batch" /\ centroids = <<>> =>
         batch # <<>> /\ (lastBatch \/ Len(batch) >= BatchSize)
    /\ pc = "seed" => Len(centroids) \in 1 .. numClusters /\ numClusters < Len(batch)
    /\ centroids # <<>> => lastBatch \/ Len(seen) >= BatchSize
    /\ pc \in {"tune", "save", "saved"} => centroids # <<>>

(* Then there are as many as asked for, or all vectors of that batch.      *)
CentroidsComplete ==
  Clustering /\ centroids # <<>> /\ pc # "seed" =>
    Len(centroids) = Min({numClusters, FirstBatchLen})

(* Once there are centroids, what was read has been counted for one of     *)
(* them or is still in the batch; the seeds are counted once more.         *)
CountsAddUp ==
  Clustering =>
    /\ Len(centroids) <= numClusters
    /\ pc \in {"tune", "save", "saved"} => batch = <<>>
    /\ centroids # <<>> /\ pc # "seed" =>
         SumFunction(vCounts) + Len(batch) = Len(seen) + SeedCounts

ModelSaved ==
  /\ ~Clustering => pc \notin {"batch", "seed"}
  /\ pc = "saved" => model = Baselines

IInv ==
  /\ TypeOK
  /\ BatchFromData
  /\ CentroidsWithinData
  /\ CountsAreVotes
  /\ FirstBatch
  /\ CentroidsComplete
  /\ CountsAddUp
  /\ ModelSaved
=============================================================================
