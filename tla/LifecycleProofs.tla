--------------------------- MODULE LifecycleProofs ---------------------------
(* Theorems about Lifecycle for any number of starts, updates and mishaps. *)
EXTENDS Lifecycle, TLAPS

(* Models: records of numbers, none of which is a marker of the file.      *)
LEMMA ModelFacts ==
  /\ \A m \in Model : m # NoModel /\ m # Torn
  /\ \A m \in Model : m.learned \in Nat /\ m.received \in Nat
  /\ \A g \in 0 .. MaxStarts : Trained(g) \in Model
  /\ NoModel # Torn
  BY LifecycleAssumption DEF Model, Trained

LEMMA ExtendsOrder ==
  /\ \A m \in Model : Extends(m, m)
  /\ \A m, n, o \in Model : Extends(m, n) /\ Extends(n, o) => Extends(m, o)
  BY ModelFacts DEF Extends

(* An update, of the node's own or of a peer, extends the model.           *)
LEMMA UpdateExtends ==
  ASSUME IInv, UpdateBaseline \/ NotifyMsg
  PROVE  kb \in Model /\ kb' \in Model /\ Extends(kb', kb)
  <1>1. kb \in Model
    BY DEF IInv, TypeOK, TrainingStarts, UpdateBaseline, NotifyMsg
  <1>2. MaxLearned \in Nat /\ MaxReceived \in Nat
    BY LifecycleAssumption
  <1>3. CASE UpdateBaseline
    <2>1. kb' = [kb EXCEPT !.learned = @ + 1] /\ kb.learned < MaxLearned
      BY <1>3 DEF UpdateBaseline
    <2>2. QED
      BY <1>1, <1>2, <2>1, ModelFacts DEF Model, Extends
  <1>4. CASE NotifyMsg
    <2>1. kb' = [kb EXCEPT !.received = @ + 1] /\ kb.received < MaxReceived
      BY <1>4 DEF NotifyMsg
    <2>2. QED
      BY <1>1, <1>2, <2>1, ModelFacts DEF Model, Extends
  <1>5. QED
    BY <1>1, <1>3, <1>4

(* What each step does to the type, to the history of the file, to who may *)
(* train, to the model in use, and to what a stopped run owes the file.    *)
LEMMA TypeKept ==
  ASSUME IInv, [Next]_vars
  PROVE  TypeOK'
  <1>1. MaxStarts \in Nat /\ MaxMishaps \in Nat
    BY LifecycleAssumption
  <1>2. CASE Start
    <2>1. pc' \in {"stat", "load", "train"} /\ p2p' \in BOOLEAN
      BY <1>2 DEF Start
    <2>2. starts' \in 0 .. MaxStarts
      BY <1>1, <1>2 DEF IInv, TypeOK, Start
    <2>3. QED
      BY <1>2, <2>1, <2>2 DEF IInv, TypeOK, Start
  <1>3. CASE Stat \/ Checkpoint \/ LateCheckpoint \/ Exit \/ CreateFile
    BY <1>3 DEF IInv, TypeOK, Stat, Checkpoint, LateCheckpoint, Exit, CreateFile, config
  <1>4. CASE Train
    <2>1. kb' \in Model
      BY <1>4, ModelFacts DEF IInv, TypeOK, Train
    <2>2. QED
      BY <1>4, <2>1 DEF IInv, TypeOK, Train, config
  <1>5. CASE Load
    BY <1>5 DEF IInv, TypeOK, Load, Effective, config
  <1>6. CASE Encode \/ Stop
    BY <1>6 DEF IInv, TypeOK, TrainingStarts, Encode, Stop, config
  <1>7. CASE UpdateBaseline \/ NotifyMsg
    BY <1>7, UpdateExtends DEF IInv, TypeOK, UpdateBaseline, NotifyMsg, config
  <1>8. CASE Kill \/ TrainFails \/ SaveFails
    BY <1>1, <1>8 DEF IInv, TypeOK, Kill, TrainFails, SaveFails, Mishap, config
  <1>9. CASE Idle \/ UNCHANGED vars
    BY <1>9 DEF IInv, TypeOK, Idle, vars, config
  <1>10. QED
    BY <1>2, <1>3, <1>4, <1>5, <1>6, <1>7, <1>8, <1>9 DEF Next, ProcessStep

LEMMA HistoryKept ==
  ASSUME IInv, [Next]_vars
  PROVE  FileHistory'
  <1>1. CASE Encode
    BY <1>1 DEF IInv, TypeOK, FileHistory, Encode
  <1>2. CASE CreateFile
    BY <1>2 DEF IInv, FileHistory, CreateFile
  <1>3. CASE ~Encode /\ ~CreateFile
    <2>1. UNCHANGED <<disk, saved>> /\ (pc' = "write" => pc = "write")
      BY <1>3 DEF IInv, TypeOK, Next, ProcessStep, Start, Stat, Train, Load, UpdateBaseline,
                  NotifyMsg, Checkpoint, Stop, LateCheckpoint, Exit, Kill, TrainFails,
                  SaveFails, Idle, vars
    <2>2. QED
      BY <2>1 DEF IInv, FileHistory
  <1>4. QED
    BY <1>1, <1>2, <1>3

LEMMA StartsKept ==
  ASSUME IInv, [Next]_vars
  PROVE  TrainingStarts'
  <1>1. CASE Start
    BY <1>1 DEF TrainingStarts, Start
  <1>2. CASE Stat
    BY <1>2, ModelFacts DEF IInv, FileHistory, TrainingStarts, Stat, config
  <1>3. CASE Train
    <2>1. kb' # NoModel
      BY <1>3, ModelFacts DEF IInv, TypeOK, Train
    <2>2. QED
      BY <1>3, <2>1 DEF IInv, TypeOK, TrainingStarts, Train, config
  <1>4. CASE Load
    BY <1>4, ModelFacts DEF IInv, TypeOK, TrainingStarts, Load, config
  <1>5. CASE UpdateBaseline \/ NotifyMsg
    <2>1. kb' # NoModel
      BY <1>5, UpdateExtends, ModelFacts
    <2>2. QED
      BY <1>5, <2>1 DEF IInv, TrainingStarts, UpdateBaseline, NotifyMsg, config
  <1>6. CASE Checkpoint \/ Stop \/ LateCheckpoint
    BY <1>6 DEF IInv, TrainingStarts, Checkpoint, Stop, LateCheckpoint, config
  <1>7. CASE CreateFile \/ Encode \/ Exit
    BY <1>7 DEF IInv, TypeOK, TrainingStarts, CreateFile, Encode, Exit, config
  <1>8. CASE Kill \/ TrainFails \/ SaveFails
    BY <1>8 DEF IInv, TypeOK, TrainingStarts, Kill, TrainFails, SaveFails, config
  <1>9. CASE Idle \/ UNCHANGED vars
    BY <1>9 DEF IInv, TrainingStarts, Idle, vars, config
  <1>10. QED
    BY <1>1, <1>2, <1>3, <1>4, <1>5, <1>6, <1>7, <1>8, <1>9 DEF Next, ProcessStep

LEMMA ServesKept ==
  ASSUME IInv, [Next]_vars
  PROVE  ServesStoredModel'
  <1>1. CASE ~Serving'
    BY <1>1 DEF ServesStoredModel
  <1>2. CASE Load /\ Serving'
    <2>1. disk \in Model /\ kb' = disk /\ saved' = saved
      BY <1>2 DEF Load, Serving, LateSave
    <2>2. saved = disk
      BY <2>1, ModelFacts DEF IInv, FileHistory
    <2>3. QED
      BY <2>1, <2>2, ModelFacts, ExtendsOrder DEF ServesStoredModel
  <1>3. CASE UpdateBaseline \/ NotifyMsg
    <2>1. Serving /\ UNCHANGED saved
      BY <1>3 DEF IInv, TypeOK, TrainingStarts, UpdateBaseline, NotifyMsg, Serving, LateSave
    <2>2. saved \in Model /\ Extends(kb, saved)
      BY <2>1 DEF IInv, TypeOK, ServesStoredModel
    <2>3. Extends(kb', saved)
      BY <1>3, <2>2, UpdateExtends, ExtendsOrder
    <2>4. QED
      BY <2>1, <2>2, <2>3, ModelFacts DEF ServesStoredModel
  <1>4. CASE Encode
    <2>1. kb \in Model /\ saved' = kb /\ kb' = kb
      BY <1>4 DEF IInv, TypeOK, TrainingStarts, Encode
    <2>2. QED
      BY <2>1, ModelFacts, ExtendsOrder DEF ServesStoredModel
  <1>5. CASE Serving' /\ ~Load /\ ~UpdateBaseline /\ ~NotifyMsg /\ ~Encode
    <2>1. Serving /\ UNCHANGED <<saved, kb>>
      BY <1>5
      DEF IInv, TypeOK, TrainingStarts, Serving, LateSave, Next, ProcessStep, Start, Stat, Train,
          Checkpoint, Stop, LateCheckpoint, Exit, CreateFile, Kill, TrainFails, SaveFails,
          Idle, vars, config
    <2>2. QED
      BY <2>1 DEF IInv, ServesStoredModel
  <1>6. QED
    BY <1>1, <1>2, <1>3, <1>4, <1>5

LEMMA DueIsKept ==
  ASSUME IInv, [Next]_vars
  PROVE  DueKept' /\ SignalKeepsModel'
  <1>1. CASE Start \/ Kill \/ TrainFails \/ SaveFails
    BY <1>1 DEF IInv, TypeOK, TrainingStarts, DueKept, SignalKeepsModel, LateSave, Start, Kill,
                TrainFails, SaveFails, Mishap, config
  <1>2. CASE Stat \/ Train \/ Load \/ Checkpoint
    BY <1>2 DEF IInv, TypeOK, TrainingStarts, DueKept, SignalKeepsModel, LateSave, Stat, Train,
                Load, Checkpoint, config
  <1>3. CASE Stop
    <2>1. kb \in Model
      BY <1>3 DEF IInv, TypeOK, TrainingStarts, Stop
    <2>2. QED
      BY <1>3, <2>1, ExtendsOrder
      DEF IInv, TrainingStarts, DueKept, SignalKeepsModel, LateSave, Stop, config
  <1>4. CASE UpdateBaseline \/ NotifyMsg
    <2>1. due # NoModel => Extends(kb', due)
      <3>1. due # NoModel => due \in Model /\ Extends(kb, due)
        BY <1>4 DEF IInv, TypeOK, DueKept, UpdateBaseline, NotifyMsg
      <3>2. QED
        BY <1>4, <3>1, UpdateExtends, ExtendsOrder
    <2>2. UNCHANGED <<disk, due, pc, after, config>>
      BY <1>4 DEF UpdateBaseline, NotifyMsg
    <2>3. QED
      BY <2>1, <2>2 DEF IInv, DueKept, SignalKeepsModel, LateSave, config
  <1>5. CASE LateCheckpoint
    <2>1. due # NoModel => disk \in Model /\ Extends(disk, due)
      BY <1>5 DEF IInv, SignalKeepsModel, LateCheckpoint
    <2>2. QED
      BY <1>5, <2>1 DEF IInv, TrainingStarts, DueKept, SignalKeepsModel, LateSave,
                        LateCheckpoint, config
  <1>6. CASE Exit
    <2>1. pc = "write" => disk = Torn /\ decay
      BY <1>6 DEF IInv, FileHistory, DueKept, Exit
    <2>2. due # NoModel /\ pc # "write" => disk \in Model /\ Extends(disk, due)
      BY <1>6 DEF IInv, DueKept, SignalKeepsModel, LateSave, Exit
    <2>3. QED
      BY <1>6, <2>1, <2>2 DEF IInv, DueKept, SignalKeepsModel, LateSave, Exit, config
  <1>7. CASE CreateFile
    BY <1>7 DEF IInv, DueKept, SignalKeepsModel, LateSave, CreateFile, config
  <1>8. CASE Encode
    <2>1. kb \in Model /\ disk' = kb /\ (due # NoModel => Extends(kb, due))
      BY <1>8 DEF IInv, TypeOK, TrainingStarts, DueKept, Encode
    <2>2. QED
      BY <1>8, <2>1 DEF IInv, TypeOK, DueKept, SignalKeepsModel, LateSave, Encode, config
  <1>9. CASE Idle \/ UNCHANGED vars
    BY <1>9 DEF IInv, DueKept, SignalKeepsModel, LateSave, Idle, vars, config
  <1>10. QED
    BY <1>1, <1>2, <1>3, <1>4, <1>5, <1>6, <1>7, <1>8, <1>9 DEF Next, ProcessStep

-----------------------------------------------------------------------------
(* IInv adds who may train: nothing trained by auto has a predecessor.     *)
THEOREM Invariance == Spec => []IInv
  <1>1. Init => IInv
    <2> SUFFICES ASSUME Init
                 PROVE  IInv
      OBVIOUS
    <2>1. MaxStarts \in Nat /\ MaxMishaps \in Nat
      BY LifecycleAssumption
    <2>2. disk \in Model \cup {NoModel} /\ saved = disk
      BY <2>1, ModelFacts DEF Init
    <2>3. TypeOK
      <3>1. starts \in 0 .. MaxStarts /\ mishaps \in 0 .. MaxMishaps
        BY <2>1 DEF Init
      <3>2. QED
        BY <3>1, <2>2 DEF Init, TypeOK
    <2>4. QED
      BY <2>2, <2>3 DEF Init, IInv, FileHistory, TrainingStarts, ServesStoredModel, Serving,
                        LateSave, DueKept, SignalKeepsModel
  <1>2. IInv /\ [Next]_vars => IInv'
    BY TypeKept, HistoryKept, StartsKept, ServesKept, DueIsKept DEF IInv
  <1>3. QED
    BY <1>1, <1>2, PTL DEF Spec

(* Every variable keeps its type.                                          *)
THEOREM TypeCorrect == Spec => []TypeOK
  BY Invariance, PTL DEF IInv

(* Nothing but the model last saved, with what was learned since, is ever  *)
(* used to judge a line, however many runs were killed in between.         *)
THEOREM ServesWhatWasStored == Spec => []ServesStoredModel
  BY Invariance, PTL DEF IInv

(* A run that is told to stop and meets no mishap leaves all it had learned*)
(* in the file, but for the exit cutting off a checkpoint.                 *)
THEOREM StopKeepsModel == Spec => []SignalKeepsModel
  BY Invariance, PTL DEF IInv

(* Only train writes a model that does not descend from the one the file   *)
(* held last.                                                              *)
THEOREM LearningIsKept == Spec => LearningSurvives
  <1>1. IInv /\ [Next]_vars
          => [disk' # disk /\ disk' \in Model /\ saved # NoModel /\ command # "train" =>
                Extends(disk', saved)]_vars
    <2> SUFFICES ASSUME IInv, Next, disk' # disk, disk' \in Model, saved # NoModel,
                        command # "train"
                 PROVE  Extends(disk', saved)
      OBVIOUS
    <2>1. Encode
      BY ModelFacts
      DEF Next, ProcessStep, Start, Stat, Train, Load, UpdateBaseline, NotifyMsg, Checkpoint, Stop,
          LateCheckpoint, Exit, CreateFile, Kill, TrainFails, SaveFails, Idle, vars
    <2>2. disk' = kb /\ Serving
      BY <2>1 DEF IInv, TypeOK, TrainingStarts, Encode, Serving, LateSave
    <2>3. QED
      BY <2>2 DEF IInv, ServesStoredModel
  <1>2. QED
    BY <1>1, Invariance, PTL DEF Spec, LearningSurvives
=============================================================================
