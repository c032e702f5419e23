---------------------------- MODULE TrainingProofs ----------------------------
(* Theorems about Training for all values of its constants.                *)
EXTENDS Training, VectorProofs, SequenceTheorems, TLAPS

-----------------------------------------------------------------------------
(* Type correctness.                                                       *)

(* A function keeps its type when the value at one argument, if it is one  *)
(* of its own, does.                                                       *)
LEMMA ExceptType ==
  ASSUME NEW S, NEW T, NEW f \in [S -> T], NEW i, NEW e, i \in S => e \in T
  PROVE  [f EXCEPT ![i] = e] \in [S -> T]
  <1>1. \A x \in S : [f EXCEPT ![i] = e][x] \in T
    OBVIOUS
  <1>2. QED
    BY <1>1

(* The counters, the centroids and the batch are of the right kind         *)
(* whatever the training data and the number of clusters.                  *)
LEMMA TypeInit ==
  ASSUME Init
  PROVE  TypeOK
  <1>1. counts \in [Blocks -> [Bits -> Nat]]
    BY DEF Init, EmptyCounts
  <1>2. vCounts \in [1 .. numClusters -> Nat] /\ lastBatch \in BOOLEAN /\ total \in Nat
    BY DEF Init
  <1>3. QED
    BY <1>1, <1>2 DEF Init, TypeOK

LEMMA TypeKeptByReading ==
  ASSUME TypeOK, NEW v \in Inputs, ReadVector(v)
  PROVE  TypeOK'
  <1>1. v \in HVector
    BY TrainingAssumption
  <1>2. CASE CollectVector(v)
    BY <1>2 DEF TypeOK, ReadVector, CollectVector, bundleVars
  <1>3. CASE CountVector(v)
    <2>1. counts' \in [Blocks -> [Bits -> Nat]]
      BY <1>3 DEF TypeOK, CountVector, AddCounts
    <2>2. QED
      BY <1>3, <2>1 DEF TypeOK, ReadVector, CountVector, kMeansVars
  <1>4. QED
    BY <1>2, <1>3 DEF ReadVector

LEMMA TypeKeptByBatch ==
  ASSUME TypeOK, ProcessBatch
  PROVE  TypeOK'
  <1>1. Seq(Inputs) \subseteq Seq(HVector)
    BY TrainingAssumption
  <1>2. numClusters \in Nat
    BY TrainingAssumption DEF TypeOK
  <1>3. CASE TakeAllAsCentroids
    BY <1>1, <1>2, <1>3 DEF TypeOK, TakeAllAsCentroids, BatchEnds, bundleVars
  <1>4. CASE FirstSeed
    <2>1. batch[1] \in HVector
      BY <1>1, <1>2, <1>4 DEF TypeOK, FirstSeed
    <2>2. QED
      BY <1>4, <2>1 DEF TypeOK, FirstSeed, bundleVars
  <1>5. CASE NextSeed
    <2>1. \A n \in DOMAIN batch : batch[n] \in HVector
      BY <1>1 DEF TypeOK
    <2>2. QED
      BY <1>5, <2>1 DEF TypeOK, NextSeed, bundleVars
  <1>6. CASE SeedsComplete
    BY <1>6 DEF TypeOK, SeedsComplete, bundleVars
  <1>7. CASE PullCentroid
    <2> DEFINE vec == Head(batch)
               idx == AssignToCluster(vec, centroids)
               new == DecayBlend(centroids[idx], vec, Eta(vCounts[idx] + 1))
    <2>1. vec \in HVector /\ Tail(batch) \in Seq(Inputs)
      BY <1>1, <1>7 DEF TypeOK, PullCentroid
    <2> HIDE DEF vec, idx
    <2>2. vCounts' \in [1 .. numClusters -> Nat]
      <3>1. vCounts' = [vCounts EXCEPT ![idx] = vCounts[idx] + 1] /\ numClusters' = numClusters
        BY <1>7 DEF PullCentroid, vec, idx
      <3>2. vCounts \in [1 .. numClusters -> Nat]
        BY DEF TypeOK
      <3>3. idx \in 1 .. numClusters => vCounts[idx] + 1 \in Nat
        BY <3>2
      <3>4. QED
        BY <3>1, <3>2, <3>3, ExceptType
    <2>3. centroids' = [centroids EXCEPT ![idx] = new]
      BY <1>7 DEF PullCentroid, vec, idx
    <2>4. centroids' \in Seq(HVector)
      <3>1. centroids \in [1 .. Len(centroids) -> HVector]
        BY DEF TypeOK
      <3>2. idx \in 1 .. Len(centroids) => new \in HVector
        BY <2>1, <3>1, BlendType
      <3> HIDE DEF new
      <3>3. centroids' \in [1 .. Len(centroids) -> HVector]
        BY <2>3, <3>1, <3>2, ExceptType
      <3>4. Len(centroids) \in Nat
        BY DEF TypeOK
      <3>5. QED
        BY <3>3, <3>4
    <2>5. QED
      BY <1>7, <2>1, <2>2, <2>4 DEF TypeOK, PullCentroid, bundleVars, vec
  <1>8. CASE BatchDone
    BY <1>8 DEF TypeOK, BatchDone, BatchEnds, bundleVars
  <1>9. QED
    BY <1>3, <1>4, <1>5, <1>6, <1>7, <1>8 DEF ProcessBatch

LEMMA TypeKept ==
  ASSUME TypeOK, [Next]_vars
  PROVE  TypeOK'
  <1>1. CASE \E v \in Inputs : ReadVector(v)
    BY <1>1, TypeKeptByReading
  <1>2. CASE ProcessBatch
    BY <1>2, TypeKeptByBatch
  <1>3. CASE EndOfFiles \/ Tuned \/ Fail
    BY <1>3 DEF TypeOK, EndOfFiles, Tuned, Fail, kMeansVars, bundleVars
  <1>4. CASE SaveModel
    <2>1. Result(counts, total) \in HVector
      BY DEF Result, HVector
    <2>2. Baselines \in Seq(HVector)
      BY <2>1 DEF TypeOK, Baselines
    <2>3. QED
      BY <1>4, <2>2 DEF TypeOK, SaveModel, kMeansVars, bundleVars
  <1>5. CASE Ended \/ UNCHANGED vars
    BY <1>5 DEF TypeOK, Ended, vars, kMeansVars, bundleVars
  <1>6. QED
    BY <1>1, <1>2, <1>3, <1>4, <1>5 DEF Next

(* Every variable of the trainer keeps its type.                           *)
THEOREM TypeCorrect == Spec => []TypeOK
  BY TypeInit, TypeKept, PTL DEF Spec

-----------------------------------------------------------------------------
(* What the centroids are made of.                                         *)

LEMMA DataInit ==
  ASSUME Init
  PROVE  BatchFromData /\ CentroidsWithinData
  BY DEF Init, BatchFromData, CentroidsWithinData

(* Reading keeps what was read.                                            *)
LEMMA AppendKeeps ==
  ASSUME NEW S, NEW s \in Seq(S), NEW v \in S, NEW n \in DOMAIN s
  PROVE  n \in DOMAIN Append(s, v) /\ Append(s, v)[n] = s[n]
  OBVIOUS

LEMMA BatchFromDataKept ==
  ASSUME TypeOK, BatchFromData, [Next]_vars
  PROVE  BatchFromData'
  <1>1. ASSUME NEW v \in Inputs, ReadVector(v)
        PROVE  BatchFromData'
    <2>1. CASE CollectVector(v)
      <3>1. seen' = Append(seen, v) /\ batch' = Append(batch, v)
        BY <1>1, <2>1 DEF ReadVector, CollectVector
      <3>2. ASSUME NEW n \in DOMAIN batch'
            PROVE  \E m \in DOMAIN seen' : batch'[n] = seen'[m]
        <4>1. CASE n \in DOMAIN batch
          <5>1. seen \in Seq(Inputs) /\ batch \in Seq(Inputs)
            BY DEF TypeOK
          <5>2. PICK m \in DOMAIN seen : batch[n] = seen[m]
            BY <4>1 DEF BatchFromData
          <5>3. m \in DOMAIN seen' /\ seen'[m] = seen[m] /\ batch'[n] = batch[n]
            BY <3>1, <4>1, <5>1, AppendKeeps
          <5>4. QED
            BY <5>2, <5>3
        <4>2. CASE n = Len(batch) + 1
          <5>1. Len(seen) + 1 \in DOMAIN seen' /\ seen'[Len(seen) + 1] = v
            BY <3>1 DEF TypeOK
          <5>2. batch'[n] = v
            BY <3>1, <4>2 DEF TypeOK
          <5>3. QED
            BY <5>1, <5>2
        <4>3. QED
          BY <3>1, <4>1, <4>2 DEF TypeOK
      <3>3. QED
        BY <3>2 DEF BatchFromData
    <2>2. CASE CountVector(v)
      <3>1. seen' = Append(seen, v) /\ batch' = batch
        BY <1>1, <2>2 DEF ReadVector, CountVector, kMeansVars
      <3>2. seen \in Seq(Inputs)
        BY DEF TypeOK
      <3>3. \A m \in DOMAIN seen : m \in DOMAIN seen' /\ seen'[m] = seen[m]
        BY <3>1, <3>2, AppendKeeps
      <3>4. QED
        BY <3>1, <3>3 DEF BatchFromData
    <2>3. QED
      BY <1>1, <2>1, <2>2 DEF ReadVector
  <1>2. CASE PullCentroid
    <2>1. batch' = Tail(batch) /\ batch # <<>> /\ seen' = seen
      BY <1>2 DEF PullCentroid
    <2>2. \A n \in DOMAIN batch' : n + 1 \in DOMAIN batch /\ batch'[n] = batch[n + 1]
      BY <2>1 DEF TypeOK
    <2>3. QED
      BY <2>1, <2>2 DEF BatchFromData
  <1>3. CASE TakeAllAsCentroids \/ BatchDone
    BY <1>3 DEF BatchFromData, TakeAllAsCentroids, BatchDone, BatchEnds
  <1>4. CASE FirstSeed \/ NextSeed \/ SeedsComplete
    BY <1>4 DEF BatchFromData, FirstSeed, NextSeed, SeedsComplete
  <1>5. CASE EndOfFiles \/ Tuned \/ SaveModel \/ Fail \/ Ended \/ UNCHANGED vars
    BY <1>5 DEF BatchFromData, EndOfFiles, Tuned, SaveModel, Fail, Ended, vars, kMeansVars
  <1>6. QED
    BY <1>1, <1>2, <1>3, <1>4, <1>5 DEF Next, ProcessBatch

(* A vector of the batch was read: its bits are bits of the data.          *)
LEMMA BatchBits ==
  ASSUME TypeOK, BatchFromData, NEW n \in DOMAIN batch, NEW k \in Blocks, NEW i \in Bits
  PROVE  \E m \in DOMAIN seen : i \in batch[n][k] <=> i \in seen[m][k]
  BY DEF BatchFromData

LEMMA CentroidsWithinDataKept ==
  ASSUME TypeOK, BatchFromData, CentroidsWithinData, [Next]_vars
  PROVE  CentroidsWithinData'
  <1>1. ASSUME UNCHANGED centroids,
               UNCHANGED seen \/ \E v \in Inputs : seen' = Append(seen, v)
        PROVE  CentroidsWithinData'
    <2>1. \A n \in DOMAIN seen : n \in DOMAIN seen' /\ seen'[n] = seen[n]
      <3>1. seen \in Seq(Inputs)
        BY DEF TypeOK
      <3>2. CASE \E v \in Inputs : seen' = Append(seen, v)
        BY <3>1, <3>2, AppendKeeps
      <3>3. QED
        BY <1>1, <3>2
    <2>2. QED
      BY <1>1, <2>1 DEF CentroidsWithinData
  <1>2. CASE \E v \in Inputs : ReadVector(v)
    BY <1>1, <1>2 DEF ReadVector, CollectVector, CountVector, kMeansVars
  <1>3. CASE EndOfFiles \/ SeedsComplete \/ BatchDone \/ Tuned \/ SaveModel
             \/ Fail \/ Ended \/ UNCHANGED vars
    BY <1>1, <1>3 DEF EndOfFiles, SeedsComplete, BatchDone, Tuned, SaveModel, Fail,
                      Ended, vars, kMeansVars
  <1>4. CASE TakeAllAsCentroids
    <2>1. centroids' = batch /\ seen' = seen
      BY <1>4 DEF TakeAllAsCentroids
    <2>2. QED
      BY <2>1, BatchBits DEF CentroidsWithinData
  <1>5. CASE FirstSeed
    <2>1. centroids' = <<batch[1]>> /\ seen' = seen
      BY <1>5 DEF FirstSeed
    <2>2. 1 \in DOMAIN batch
      BY <1>5, TrainingAssumption DEF FirstSeed, TypeOK
    <2>3. QED
      BY <2>1, <2>2, BatchBits DEF CentroidsWithinData
  <1>6. CASE NextSeed
    <2>1. PICK n \in DOMAIN batch : centroids' = Append(centroids, batch[n])
      BY <1>6 DEF NextSeed
    <2>2. seen' = seen
      BY <1>6 DEF NextSeed
    <2>3. \A c \in DOMAIN centroids' :
            \/ c \in DOMAIN centroids /\ centroids'[c] = centroids[c]
            \/ centroids'[c] = batch[n]
      BY <2>1 DEF TypeOK
    <2>4. QED
      BY <2>2, <2>3, BatchBits DEF CentroidsWithinData
  <1>7. CASE PullCentroid
    <2> DEFINE vec == Head(batch)
               idx == AssignToCluster(vec, centroids)
               eta == Eta(vCounts[idx] + 1)
    <2>1. /\ centroids' = [centroids EXCEPT ![idx] = DecayBlend(centroids[idx], vec, eta)]
          /\ seen' = seen
      BY <1>7 DEF PullCentroid
    <2>2. 1 \in DOMAIN batch /\ vec = batch[1] /\ batch[1] \in HVector
      BY <1>7, TrainingAssumption DEF PullCentroid, TypeOK
    <2> HIDE DEF vec, idx, eta
    <2>3. ASSUME NEW c \in DOMAIN centroids', NEW k \in Blocks, NEW i \in Bits
          PROVE  \E n \in DOMAIN seen' : i \in centroids'[c][k] <=> i \in seen'[n][k]
      <3>1. c \in DOMAIN centroids /\ centroids[c] \in HVector
        BY <2>1 DEF TypeOK
      <3>2. CASE c = idx
        <4>1. centroids'[c] = DecayBlend(centroids[c], vec, eta)
          BY <2>1, <3>1, <3>2
        <4>2. \/ i \in centroids'[c][k] <=> i \in centroids[c][k]
              \/ i \in centroids'[c][k] <=> i \in vec[k]
          BY <2>2, <3>1, <4>1, BlendChooses
        <4>3. QED
          BY <2>1, <2>2, <3>1, <4>2, BatchBits DEF CentroidsWithinData
      <3>3. CASE c # idx
        BY <2>1, <3>1, <3>3 DEF CentroidsWithinData
      <3>4. QED
        BY <3>2, <3>3
    <2>4. QED
      BY <2>3 DEF CentroidsWithinData
  <1>8. QED
    BY <1>2, <1>3, <1>4, <1>5, <1>6, <1>7 DEF Next, ProcessBatch

-----------------------------------------------------------------------------
(* What the accumulator has counted.                                       *)

LEMMA CountsInit ==
  ASSUME Init
  PROVE  CountsAreVotes
  BY VotesOfNone DEF Init, CountsAreVotes, EmptyCounts

LEMMA CountsAreVotesKept ==
  ASSUME TypeOK, CountsAreVotes, [Next]_vars
  PROVE  CountsAreVotes'
  <1>1. CASE UNCHANGED <<numClusters, seen, counts, total>>
    BY <1>1 DEF CountsAreVotes, Clustering
  <1>2. ASSUME NEW v \in Inputs, ReadVector(v)
        PROVE  CountsAreVotes'
    <2>1. CASE Clustering
      BY <1>2, <2>1 DEF ReadVector, CountsAreVotes, Clustering
    <2>2. CASE ~Clustering
      <3>1. /\ seen' = Append(seen, v)
            /\ counts' = AddCounts(counts, v)
            /\ total' = total + 1
        BY <1>2, <2>2 DEF ReadVector, CollectVector, CountVector
      <3>2. seen \in Seq(HVector) /\ v \in HVector
        BY TrainingAssumption DEF TypeOK
      <3>3. total' = Len(seen')
        BY <2>2, <3>1, <3>2 DEF CountsAreVotes
      <3>4. \A k \in Blocks, i \in Bits :
              Votes(seen', k, i) = Votes(seen, k, i) + IF i \in v[k] THEN 1 ELSE 0
        BY <3>1, <3>2, VotesAppend
      <3>5. \A k \in Blocks, i \in Bits : counts[k][i] = Votes(seen, k, i)
        BY <2>2 DEF CountsAreVotes
      <3>6. counts' = [k \in Blocks |-> [i \in Bits |-> Votes(seen', k, i)]]
        BY <3>1, <3>4, <3>5 DEF AddCounts
      <3>7. QED
        BY <3>3, <3>6 DEF CountsAreVotes
    <2>3. QED
      BY <2>1, <2>2
  <1>3. CASE EndOfFiles \/ Tuned \/ SaveModel \/ Fail \/ Ended \/ UNCHANGED vars
    BY <1>1, <1>3 DEF EndOfFiles, Tuned, SaveModel, Fail, Ended, vars, bundleVars
  <1>4. CASE ProcessBatch
    BY <1>1, <1>4 DEF ProcessBatch, TakeAllAsCentroids, FirstSeed, NextSeed,
                      SeedsComplete, PullCentroid, BatchDone, bundleVars
  <1>5. QED
    BY <1>2, <1>3, <1>4 DEF Next

LEMMA VotesDecideBundle ==
  ASSUME CountsAreVotes
  PROVE  StreamedBundle
  BY DEF CountsAreVotes, StreamedBundle, Result, Bundle

-----------------------------------------------------------------------------
(* How many centroids there are.                                           *)

LEMMA MinOfTwo == \A a, b \in Nat : a <= b => Min({a, b}) = a /\ Min({b, a}) = a
  BY DEF Min

(* The first batch is all that was read, up to its size.                   *)
LEMMA FirstBatchValue ==
  ASSUME TypeOK
  PROVE  /\ Len(seen) <= BatchSize => FirstBatchLen = Len(seen)
         /\ Len(seen) >= BatchSize => FirstBatchLen = BatchSize
         /\ FirstBatchLen \in Nat
  <1>1. BatchSize \in Nat /\ Len(seen) \in Nat
    BY TrainingAssumption DEF TypeOK
  <1>2. QED
    BY <1>1, MinOfTwo DEF FirstBatchLen

(* It is settled once there are centroids.                                 *)
LEMMA FirstBatchSettled ==
  ASSUME TypeOK, FirstBatch, Clustering, centroids # <<>>, NEW v \in Inputs, ReadVector(v)
  PROVE  FirstBatchLen' = FirstBatchLen
  <1>1. pc = "read" /\ Len(seen') = Len(seen) + 1
    BY DEF ReadVector, TypeOK
  <1>2. BatchSize \in Nat /\ Len(seen) \in Nat /\ BatchSize <= Len(seen)
    BY <1>1, TrainingAssumption DEF FirstBatch, TypeOK
  <1>3. FirstBatchLen = BatchSize
    BY <1>2, MinOfTwo DEF FirstBatchLen
  <1>4. FirstBatchLen' = BatchSize
    BY <1>1, <1>2, MinOfTwo DEF FirstBatchLen
  <1>5. QED
    BY <1>3, <1>4

LEMMA ShapeInit ==
  ASSUME Init
  PROVE  FirstBatch /\ CentroidsComplete /\ ModelSaved
  BY TrainingAssumption DEF Init, FirstBatch, CentroidsComplete, ModelSaved

LEMMA ShapeKeptByReading ==
  ASSUME TypeOK, FirstBatch, CentroidsComplete, ModelSaved, NEW v \in Inputs, ReadVector(v)
  PROVE  FirstBatch' /\ CentroidsComplete' /\ ModelSaved'
  <1>1. /\ pc = "read" /\ seen' = Append(seen, v) /\ Len(seen') = Len(seen) + 1
        /\ UNCHANGED <<numClusters, lastBatch, centroids, model>>
        /\ pc' \in {"read", "batch"}
    BY DEF ReadVector, CollectVector, CountVector, kMeansVars, TypeOK
  <1>2. CASE Clustering
    <2>1. /\ batch' = Append(batch, v) /\ Len(batch') = Len(batch) + 1
          /\ pc' = IF Len(batch') >= BatchSize THEN "batch" ELSE "read"
      BY <1>2 DEF ReadVector, CollectVector, CountVector, TypeOK
    <2>2. Len(batch) \in Nat /\ Len(seen) \in Nat /\ BatchSize \in Nat
      BY TrainingAssumption DEF TypeOK
    <2>3. batch' # <<>>
      BY <2>1 DEF TypeOK
    <2>4. /\ ~lastBatch /\ Len(batch) < BatchSize
          /\ centroids = <<>> => batch = seen
          /\ centroids # <<>> => Len(seen) >= BatchSize
      BY <1>1, <1>2 DEF FirstBatch
    <2>5. FirstBatch'
      BY <1>1, <1>2, <2>1, <2>2, <2>3, <2>4 DEF FirstBatch, Clustering
    <2>6. CentroidsComplete'
      BY <1>1, <1>2, FirstBatchSettled DEF CentroidsComplete, Clustering
    <2>7. ModelSaved'
      BY <1>1, <1>2 DEF ModelSaved, Clustering
    <2>8. QED
      BY <2>5, <2>6, <2>7
  <1>3. CASE ~Clustering
    <2>1. pc' = pc
      BY <1>3 DEF ReadVector, CollectVector, CountVector
    <2>2. QED
      BY <1>1, <1>3, <2>1 DEF FirstBatch, CentroidsComplete, ModelSaved, Clustering
  <1>4. QED
    BY <1>2, <1>3

LEMMA ShapeKeptByBatch ==
  ASSUME TypeOK, FirstBatch, CentroidsComplete, ModelSaved, ProcessBatch
  PROVE  FirstBatch' /\ CentroidsComplete' /\ ModelSaved'
  <1>1. /\ pc \in {"batch", "seed"} /\ Clustering /\ Clustering'
        /\ pc' \in {"batch", "seed", "read", "tune"}
        /\ numClusters \in Nat \ {0} /\ Len(seen) \in Nat /\ BatchSize \in Nat \ {0}
        /\ UNCHANGED <<numClusters, seen, lastBatch, model>>
    BY TrainingAssumption
    DEF ProcessBatch, TakeAllAsCentroids, FirstSeed, NextSeed, SeedsComplete, PullCentroid,
        BatchDone, BatchEnds, ModelSaved, TypeOK, Clustering
  <1>2. ModelSaved' /\ FirstBatchLen' = FirstBatchLen
    BY <1>1 DEF ModelSaved, FirstBatchLen
  <1>3. CASE TakeAllAsCentroids
    <2>1. /\ centroids' = batch /\ batch = seen /\ batch # <<>>
          /\ Len(batch) <= numClusters /\ Len(batch) <= BatchSize
          /\ lastBatch \/ Len(batch) >= BatchSize
          /\ batch' = <<>> /\ pc' = IF lastBatch THEN "tune" ELSE "read"
      BY <1>1, <1>3 DEF TakeAllAsCentroids, FirstBatch, BatchEnds
    <2>2. FirstBatch'
      BY <1>1, <2>1 DEF FirstBatch
    <2>3. FirstBatchLen = Len(seen)
      BY <2>1, FirstBatchValue
    <2>4. CentroidsComplete'
      BY <1>1, <1>2, <2>1, <2>3, MinOfTwo DEF CentroidsComplete
    <2>5. QED
      BY <1>2, <2>2, <2>4
  <1>4. CASE FirstSeed
    <2>1. /\ Len(centroids') = 1 /\ batch' = batch /\ batch = seen
          /\ numClusters < Len(batch) /\ pc' = "seed" /\ Len(batch) <= BatchSize
          /\ lastBatch \/ Len(seen) >= BatchSize
      BY <1>1, <1>4 DEF FirstSeed, FirstBatch, TypeOK
    <2>2. FirstBatch'
      BY <1>1, <2>1 DEF FirstBatch
    <2>3. QED
      BY <1>2, <2>1, <2>2 DEF CentroidsComplete
  <1>5. CASE NextSeed
    <2>1. /\ Len(centroids') = Len(centroids) + 1 /\ Len(centroids) < numClusters
          /\ UNCHANGED <<batch, pc>> /\ pc = "seed"
      BY <1>5 DEF NextSeed, TypeOK
    <2>2. centroids # <<>>
      BY <1>1, <2>1 DEF FirstBatch, TypeOK
    <2>3. FirstBatch'
      BY <1>1, <2>1, <2>2 DEF FirstBatch
    <2>4. QED
      BY <1>2, <2>1, <2>3 DEF CentroidsComplete
  <1>6. CASE SeedsComplete
    <2>1. /\ Len(centroids) = numClusters /\ centroids # <<>>
          /\ numClusters < Len(seen) /\ Len(seen) <= BatchSize
          /\ UNCHANGED <<centroids, batch>> /\ pc' = "batch"
      BY <1>1, <1>6 DEF SeedsComplete, FirstBatch, TypeOK
    <2>2. FirstBatch'
      BY <1>1, <2>1 DEF FirstBatch
    <2>3. FirstBatchLen = Len(seen)
      BY <2>1, FirstBatchValue
    <2>4. CentroidsComplete'
      BY <1>1, <1>2, <2>1, <2>3, MinOfTwo DEF CentroidsComplete
    <2>5. QED
      BY <1>2, <2>2, <2>4
  <1>7. CASE PullCentroid \/ BatchDone
    <2>1. /\ Len(centroids') = Len(centroids) /\ centroids # <<>> /\ centroids' # <<>>
          /\ pc = "batch" /\ Len(batch') <= Len(batch)
          /\ pc' = "batch" \/ (batch' = <<>> /\ pc' = IF lastBatch THEN "tune" ELSE "read")
      BY <1>7 DEF PullCentroid, BatchDone, BatchEnds, TypeOK
    <2>2. Len(batch) \in Nat /\ Len(batch') \in Nat
      BY <1>7 DEF PullCentroid, BatchDone, BatchEnds, TypeOK
    <2>3. FirstBatch'
      BY <1>1, <2>1, <2>2 DEF FirstBatch
    <2>4. CentroidsComplete'
      BY <1>1, <1>2, <2>1 DEF CentroidsComplete
    <2>5. QED
      BY <1>2, <2>3, <2>4
  <1>8. QED
    BY <1>3, <1>4, <1>5, <1>6, <1>7 DEF ProcessBatch

LEMMA ShapeKept ==
  ASSUME TypeOK, FirstBatch, CentroidsComplete, ModelSaved, [Next]_vars
  PROVE  FirstBatch' /\ CentroidsComplete' /\ ModelSaved'
  <1>1. CASE \E v \in Inputs : ReadVector(v)
    BY <1>1, ShapeKeptByReading
  <1>2. CASE ProcessBatch
    BY <1>2, ShapeKeptByBatch
  <1>3. CASE EndOfFiles
    <2>1. /\ UNCHANGED <<numClusters, seen, batch, centroids, model>>
          /\ pc = "read" /\ lastBatch'
          /\ pc' = IF seen = <<>> THEN "failed"
                   ELSE IF Clustering /\ batch # <<>> THEN "batch" ELSE "tune"
      BY <1>3 DEF EndOfFiles
    <2>2. FirstBatch'
      BY <2>1 DEF FirstBatch, Clustering
    <2>3. CentroidsComplete'
      BY <2>1 DEF CentroidsComplete, FirstBatchLen, Clustering
    <2>4. ModelSaved'
      BY <2>1 DEF ModelSaved, Clustering
    <2>5. QED
      BY <2>2, <2>3, <2>4
  <1>4. CASE Tuned \/ Fail \/ Ended \/ UNCHANGED vars
    <2>1. /\ UNCHANGED <<numClusters, seen, batch, lastBatch, centroids, counts, total, model>>
          /\ \/ pc' = pc
             \/ pc \in {"read", "tune", "save"} /\ pc' = "failed"
             \/ pc = "tune" /\ pc' = "save"
      BY <1>4 DEF Tuned, Fail, Ended, vars, kMeansVars, bundleVars
    <2>2. UNCHANGED <<FirstBatchLen, Baselines>>
      BY <2>1 DEF FirstBatchLen, Clustering, Baselines
    <2>3. FirstBatch'
      BY <2>1 DEF FirstBatch, Clustering
    <2>4. CentroidsComplete' /\ ModelSaved'
      BY <2>1, <2>2 DEF CentroidsComplete, ModelSaved, Clustering
    <2>5. QED
      BY <2>3, <2>4
  <1>5. CASE SaveModel
    BY <1>5 DEF SaveModel, kMeansVars, bundleVars, FirstBatch, CentroidsComplete,
                FirstBatchLen, ModelSaved, Clustering, Baselines
  <1>6. QED
    BY <1>1, <1>2, <1>3, <1>4, <1>5 DEF Next

LEMMA ShapeGivesModel ==
  ASSUME IInv
  PROVE  ModelComplete
  <1> SUFFICES ASSUME pc = "saved"
               PROVE  Len(model) = IF Clustering THEN Min({numClusters, FirstBatchLen}) ELSE 1
    BY DEF ModelComplete
  <1>1. model = Baselines
    BY DEF IInv, ModelSaved
  <1>2. CASE ~Clustering
    BY <1>1, <1>2 DEF Baselines
  <1>3. CASE Clustering
    BY <1>1, <1>3 DEF Baselines, IInv, FirstBatch, CentroidsComplete
  <1>4. QED
    BY <1>2, <1>3

-----------------------------------------------------------------------------
(* Every vector is counted once.                                           *)

(* As many ones as there are vectors in the first batch.                   *)
LEMMA SumOfFirstOnes ==
  ASSUME NEW n \in Nat, NEW m \in 0 .. n, NEW f \in [1 .. n -> Nat],
         \A c \in 1 .. n : f[c] = IF c <= m THEN 1 ELSE 0
  PROVE  SumFunction(f) = m
  <1>1. IsFiniteSet(1 .. n)
    BY FS_Interval
  <1>2. 1 .. m \in SUBSET (1 .. n) /\ Cardinality(1 .. m) = m
    BY FS_Interval
  <1>3. \A c \in 1 .. n : f[c] = IF c \in 1 .. m THEN 1 ELSE 0
    OBVIOUS
  <1>4. QED
    BY <1>1, <1>2, <1>3, SumIndicator

LEMMA CountsInitially ==
  ASSUME Init
  PROVE  CountsAddUp
  <1>1. numClusters \in Nat
    BY TrainingAssumption DEF Init
  <1>2. QED
    BY <1>1 DEF Init, CountsAddUp

LEMMA CountsType ==
  ASSUME TypeOK
  PROVE  /\ numClusters \in Nat /\ Len(seen) \in Nat /\ Len(batch) \in Nat
         /\ Len(centroids) \in Nat
         /\ SumFunction(vCounts) \in Nat
  <1>1. numClusters \in Nat /\ vCounts \in [1 .. numClusters -> Nat]
    BY TrainingAssumption DEF TypeOK
  <1>2. IsFiniteSet(1 .. numClusters)
    BY <1>1, FS_Interval
  <1>3. SumFunction(vCounts) \in Nat
    BY <1>1, <1>2, SumType
  <1>4. QED
    BY <1>1, <1>3 DEF TypeOK

LEMMA PullCounts ==
  ASSUME TypeOK, CountsAddUp, Clustering, PullCentroid
  PROVE  /\ SumFunction(vCounts') = SumFunction(vCounts) + 1
         /\ Len(centroids') = Len(centroids)
         /\ Len(batch') = Len(batch) - 1
  <1> DEFINE vec == Head(batch)
             idx == AssignToCluster(vec, centroids)
  <1>1. vec \in HVector
    BY TrainingAssumption DEF PullCentroid, TypeOK
  <1>2. centroids \in Seq(HVector) /\ centroids # <<>>
    BY DEF PullCentroid, TypeOK
  <1>3. vCounts' = [vCounts EXCEPT ![idx] = vCounts[idx] + 1] /\ Len(centroids') = Len(centroids)
    BY DEF PullCentroid, TypeOK
  <1> HIDE DEF vec
  <1>4. idx \in DOMAIN centroids
    BY <1>1, <1>2, AssignsToNearest
  <1> HIDE DEF idx
  <1>5. idx \in 1 .. numClusters
    BY <1>2, <1>4, CountsType DEF CountsAddUp
  <1>6. IsFiniteSet(1 .. numClusters) /\ vCounts \in [1 .. numClusters -> Nat]
    BY CountsType, FS_Interval DEF TypeOK
  <1>7. SumFunction(vCounts') = SumFunction(vCounts) + 1
    BY <1>3, <1>5, <1>6, SumOneMore
  <1>8. QED
    BY <1>3, <1>7 DEF PullCentroid, TypeOK

LEMMA CountsAddUpKeptByBatch ==
  ASSUME TypeOK, FirstBatch, CountsAddUp, Clustering, ProcessBatch
  PROVE  CountsAddUp'
  <1>1. UNCHANGED <<numClusters, seen, SeedCounts>> /\ Clustering'
    BY DEF ProcessBatch, TakeAllAsCentroids, FirstSeed, NextSeed, SeedsComplete, PullCentroid,
           BatchDone, Clustering, SeedCounts, FirstBatchLen
  <1>2. CASE TakeAllAsCentroids
    <2>1. /\ centroids' = batch /\ batch = seen /\ batch' = <<>>
          /\ Len(batch) <= numClusters /\ Len(seen) <= BatchSize
          /\ vCounts' = [c \in 1 .. numClusters |-> IF c <= Len(batch) THEN 1 ELSE 0]
      BY <1>2 DEF TakeAllAsCentroids, BatchEnds, FirstBatch
    <2>2. Len(batch) \in 0 .. numClusters /\ vCounts' \in [1 .. numClusters -> Nat]
      BY <2>1, CountsType
    <2>3. \A c \in 1 .. numClusters : vCounts'[c] = IF c <= Len(batch) THEN 1 ELSE 0
      BY <2>1
    <2>4. SumFunction(vCounts') = Len(batch)
      BY <2>2, <2>3, CountsType, SumOfFirstOnes
    <2>5. SeedCounts = 0
      BY <2>1, CountsType, FirstBatchValue DEF SeedCounts
    <2>6. QED
      BY <1>1, <2>1, <2>4, <2>5, CountsType DEF CountsAddUp
  <1>3. CASE FirstSeed
    <2>1. Len(centroids') = 1 /\ pc' = "seed" /\ 1 <= numClusters
      BY <1>3, CountsType DEF FirstSeed, Clustering
    <2>2. QED
      BY <1>1, <2>1 DEF CountsAddUp
  <1>4. CASE NextSeed
    <2>1. Len(centroids') = Len(centroids) + 1 /\ pc' = "seed" /\ Len(centroids) < numClusters
      BY <1>4 DEF NextSeed, TypeOK
    <2>2. QED
      BY <1>1, <2>1, CountsType DEF CountsAddUp
  <1>5. CASE SeedsComplete
    <2>1. /\ batch = seen /\ UNCHANGED <<batch, centroids>> /\ pc' = "batch"
          /\ numClusters < Len(batch) /\ Len(seen) <= BatchSize
          /\ vCounts' = [c \in 1 .. numClusters |-> 1]
      BY <1>5 DEF SeedsComplete, FirstBatch
    <2>2. numClusters \in 0 .. numClusters /\ vCounts' \in [1 .. numClusters -> Nat]
      BY <2>1, CountsType
    <2>3. \A c \in 1 .. numClusters : vCounts'[c] = IF c <= numClusters THEN 1 ELSE 0
      BY <2>1, CountsType
    <2>4. SumFunction(vCounts') = numClusters
      BY <2>2, <2>3, CountsType, SumOfFirstOnes
    <2>5. SeedCounts = numClusters
      BY <2>1, CountsType, FirstBatchValue DEF SeedCounts
    <2>6. QED
      BY <1>1, <2>1, <2>4, <2>5, CountsType DEF CountsAddUp
  <1>6. CASE PullCentroid
    <2>1. pc = "batch" /\ pc' = "batch" /\ centroids # <<>>
      BY <1>6 DEF PullCentroid
    <2>2. /\ SumFunction(vCounts') = SumFunction(vCounts) + 1
          /\ Len(centroids') = Len(centroids)
          /\ Len(batch') = Len(batch) - 1
      BY <1>6, PullCounts
    <2>3. SeedCounts \in Nat
      BY CountsType DEF SeedCounts
    <2>4. QED
      BY <1>1, <2>1, <2>2, <2>3, CountsType DEF CountsAddUp
  <1>7. CASE BatchDone
    BY <1>1, <1>7 DEF BatchDone, BatchEnds, CountsAddUp
  <1>8. QED
    BY <1>2, <1>3, <1>4, <1>5, <1>6, <1>7 DEF ProcessBatch

LEMMA CountsAddUpKept ==
  ASSUME TypeOK, FirstBatch, ModelSaved, CountsAddUp, [Next]_vars
  PROVE  CountsAddUp'
  <1>1. ASSUME NEW v \in Inputs, ReadVector(v), Clustering'
        PROVE  CountsAddUp'
    <2>1. /\ pc = "read" /\ pc' \in {"read", "batch"}
          /\ Len(seen') = Len(seen) + 1 /\ Len(batch') = Len(batch) + 1
          /\ UNCHANGED <<numClusters, centroids, vCounts>>
      BY <1>1 DEF ReadVector, CollectVector, CountVector, Clustering, TypeOK
    <2>2. SeedCounts \in Nat /\ (centroids # <<>> => SeedCounts' = SeedCounts)
      BY <1>1, <2>1, CountsType, FirstBatchSettled DEF SeedCounts, Clustering
    <2>3. QED
      BY <1>1, <2>1, <2>2, CountsType DEF CountsAddUp, Clustering
  <1>2. CASE ProcessBatch
    <2>1. Clustering
      BY <1>2 DEF ModelSaved, ProcessBatch, TakeAllAsCentroids, FirstSeed, NextSeed,
                  SeedsComplete, PullCentroid, BatchDone
    <2>2. QED
      BY <1>2, <2>1, CountsAddUpKeptByBatch
  <1>3. CASE EndOfFiles
    BY <1>3 DEF EndOfFiles, CountsAddUp, SeedCounts, FirstBatchLen, Clustering
  <1>4. CASE Tuned \/ SaveModel \/ Fail \/ Ended \/ UNCHANGED vars
    BY <1>4 DEF Tuned, SaveModel, Fail, Ended, vars, kMeansVars, CountsAddUp, SeedCounts,
                FirstBatchLen, Clustering
  <1>5. QED
    BY <1>1, <1>2, <1>3, <1>4 DEF Next, CountsAddUp

LEMMA CountsAreComplete ==
  ASSUME IInv
  PROVE  EveryVectorCounted
  <1> SUFFICES ASSUME Clustering, pc \in {"tune", "save", "saved"}
               PROVE  SumFunction(vCounts) = Len(seen) + SeedCounts
    BY DEF EveryVectorCounted
  <1>1. centroids # <<>> /\ batch = <<>>
    BY DEF IInv, FirstBatch, CountsAddUp
  <1>2. SumFunction(vCounts) + Len(batch) = Len(seen) + SeedCounts
    BY <1>1 DEF IInv, CountsAddUp
  <1>3. QED
    BY <1>1, <1>2, CountsType DEF IInv

-----------------------------------------------------------------------------
(* The inductive invariant and what follows from it.                       *)

(* The invariant needs to know where the vectors of the batch come from,   *)
(* what the counters mean, and why the first batch decides how many        *)
(* centroids there will be.                                                *)
THEOREM Invariance == Spec => []IInv
  <1>1. Init => IInv
    BY TypeInit, DataInit, CountsInit, CountsInitially, ShapeInit DEF IInv
  <1>2. IInv /\ [Next]_vars => IInv'
    BY TypeKept, BatchFromDataKept, CentroidsWithinDataKept, CountsAreVotesKept, ShapeKept,
       CountsAddUpKept
    DEF IInv
  <1>3. QED
    BY <1>1, <1>2, PTL DEF Spec

(* Whatever the batches, the learning rates and the order of the lines, a  *)
(* centroid has at every bit a value that some line read showed.           *)
THEOREM CentroidsComeFromData == Spec => []CentroidsWithinData
  <1>1. IInv => CentroidsWithinData
    BY DEF IInv
  <1>2. QED
    BY <1>1, Invariance, PTL

(* The accumulator gives at any moment the majority of all vectors read,   *)
(* for vectors of any width and files of any length.                       *)
THEOREM StreamingIsBundling == Spec => []StreamedBundle
  <1>1. IInv => StreamedBundle
    BY VotesDecideBundle DEF IInv
  <1>2. QED
    BY <1>1, Invariance, PTL

(* When the pass over the files is done each vector has been counted once, *)
(* and each seed of k-means++ once more: none is left out, none repeated.  *)
THEOREM VectorsAreCounted == Spec => []EveryVectorCounted
  BY CountsAreComplete, Invariance, PTL

(* A saved model has the clusters asked for, or one per vector of the first*)
(* batch when there are fewer.                                             *)
THEOREM ModelIsComplete == Spec => []ModelComplete
  BY ShapeGivesModel, Invariance, PTL
=============================================================================
