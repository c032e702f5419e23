--------------------------- MODULE InferenceProofs ---------------------------
(* Theorems about Inference for all values of its constants.               *)
EXTENDS Inference, SequenceTheorems, FiniteSetTheorems, TLAPS

-----------------------------------------------------------------------------
(* Type correctness, one lemma per part of the state.                      *)

LEMMA TypeInit ==
  ASSUME Init
  PROVE  TypeOK
  <1> USE DEF Init
  <1>1. /\ {cancelled, streamClosed, updatesClosed} \subseteq BOOLEAN
        /\ {intact, saveFailed} \subseteq BOOLEAN
    OBVIOUS
  <1>2. /\ Len(logsStream) <= StreamCap
        /\ Len(decayUpdates) <= UpdatesCap
        /\ autoSaves \in 0 .. MaxAutoSaves
    BY ConstantsAssumption
  <1>3. StreamTypes
    BY <1>1, <1>2 DEF StreamTypes
  <1>4. PoolTypes
    BY DEF PoolTypes
  <1>5. DecayTypes
    BY <1>1, <1>2 DEF DecayTypes
  <1>6. SaveTypes
    BY <1>1, <1>2 DEF SaveTypes
  <1>7. QED
    BY <1>3, <1>4, <1>5, <1>6 DEF TypeOK

(* What each part of the pipeline leaves alone.                            *)
LEMMA WorkersFrame ==
  ASSUME NEW w \in Workers, WorkerStep(w) \/ NotifyReturns(w)
  PROVE  UNCHANGED beyondWorkers
  BY DEF WorkerStep, Receive, RangeEnds, JudgeAnomaly, JudgeHealthy,
         OfferAccepted, OfferShed, NotifyReturns

LEMMA DecayFrame ==
  ASSUME DecayStep
  PROVE  UNCHANGED beyondDecay
  BY DEF DecayStep, TakeUpdate, LockForUpdate, UpdateBaseline,
         BroadcastBaseline, UpdatesEnd

LEMMA SaversFrame ==
  ASSUME Tick \/ AutoSaveStops \/ \E s \in Savers : SaveStep(s)
  PROVE  UNCHANGED beyondSavers
  BY DEF Tick, AutoSaveStops, SaveStep, LockForSave, CreateFile, EncodeModel,
         WriteFile, SaveFails

LEMMA MainFrame ==
  ASSUME MainStep
  PROVE  UNCHANGED beyondMain
  BY DEF MainStep, OpenStream, OpenFails, WorkersJoined, UpdatesDrained,
         RunReturns, Exit

LEMMA ReaderFrame ==
  ASSUME Cancel \/ CloseStream \/ \E l \in Lines : Deliver(l)
  PROVE  UNCHANGED beyondReader
  BY DEF Cancel, CloseStream, Deliver

LEMMA EndedFrame ==
  ASSUME Ended \/ UNCHANGED vars
  PROVE  UNCHANGED <<beyondReader, readerVars, logsStream>>
  BY DEF Ended, vars, beyondReader, readerVars

LEMMA StreamTypesKept ==
  ASSUME StreamTypes, [Next]_vars
  PROVE  StreamTypes'
  <1>1. CASE UNCHANGED <<readerVars, logsStream>>
    BY <1>1 DEF StreamTypes, readerVars
  <1>2. CASE Cancel \/ CloseStream
    BY <1>2 DEF StreamTypes, Cancel, CloseStream
  <1>3. ASSUME NEW l \in Lines, Deliver(l)
        PROVE  StreamTypes'
    BY <1>3, ConstantsAssumption DEF StreamTypes, Deliver
  <1>4. ASSUME NEW w \in Workers, WorkerStep(w) \/ NotifyReturns(w)
        PROVE  StreamTypes'
    <2>1. CASE Receive(w)
      BY <2>1, ConstantsAssumption DEF StreamTypes, Receive, beyondWorkers, readerVars
    <2>2. CASE ~Receive(w)
      BY <1>1, <1>4, <2>2 DEF WorkerStep, RangeEnds, JudgeAnomaly, JudgeHealthy,
         OfferAccepted, OfferShed, NotifyReturns, beyondWorkers
    <2>3. QED
      BY <2>1, <2>2
  <1>5. QED
    BY <1>1, <1>2, <1>3, <1>4, DecayFrame, SaversFrame, MainFrame, EndedFrame
       DEF Next, beyondDecay, beyondSavers, beyondMain

LEMMA PoolTypesKept ==
  ASSUME StreamTypes, PoolTypes, [Next]_vars
  PROVE  PoolTypes'
  <1>1. CASE UNCHANGED workerVars
    BY <1>1 DEF PoolTypes, workerVars
  <1>2. ASSUME NEW w \in Workers, WorkerStep(w) \/ NotifyReturns(w)
        PROVE  PoolTypes'
    <2> USE DEF PoolTypes
    <2>1. CASE Receive(w)
      BY <2>1 DEF Receive, StreamTypes
    <2>2. CASE RangeEnds(w)
      BY <2>2 DEF RangeEnds
    <2>3. CASE JudgeAnomaly(w)
      BY <2>3 DEF JudgeAnomaly
    <2>4. CASE JudgeHealthy(w)
      BY <2>4 DEF JudgeHealthy, BackToRange
    <2>5. CASE OfferAccepted(w)
      BY <2>5 DEF OfferAccepted, BackToRange
    <2>6. CASE OfferShed(w)
      BY <2>6 DEF OfferShed, BackToRange
    <2>7. CASE NotifyReturns(w)
      BY <2>7 DEF NotifyReturns, BackToRange
    <2>8. QED
      BY <1>2, <2>1, <2>2, <2>3, <2>4, <2>5, <2>6, <2>7 DEF WorkerStep
  <1>3. QED
    BY <1>1, <1>2, ReaderFrame, DecayFrame, SaversFrame, MainFrame, EndedFrame
       DEF Next, beyondReader, beyondDecay, beyondSavers, beyondMain

LEMMA DecayTypesKept ==
  ASSUME PoolTypes, DecayTypes, [Next]_vars
  PROVE  DecayTypes'
  <1>1. CASE UNCHANGED <<decayUpdates, updatesClosed, decayVars>>
    BY <1>1 DEF DecayTypes, decayVars
  <1>2. ASSUME NEW w \in Workers, WorkerStep(w) \/ NotifyReturns(w)
        PROVE  DecayTypes'
    <2>1. CASE OfferAccepted(w)
      BY <2>1, ConstantsAssumption
         DEF DecayTypes, PoolTypes, OfferAccepted, beyondWorkers, decayVars
    <2>2. CASE ~OfferAccepted(w)
      BY <1>1, <1>2, <2>2 DEF WorkerStep, Receive, RangeEnds, JudgeAnomaly,
         JudgeHealthy, OfferShed, NotifyReturns, beyondWorkers
    <2>3. QED
      BY <2>1, <2>2
  <1>3. CASE DecayStep
    <2> USE DEF DecayTypes, beyondDecay
    <2>1. CASE TakeUpdate
      <3>1. /\ Head(decayUpdates) \in Lines
            /\ Tail(decayUpdates) \in Seq(Lines)
            /\ Len(Tail(decayUpdates)) <= UpdatesCap
        BY <2>1, ConstantsAssumption DEF TakeUpdate
      <3>2. QED
        BY <2>1, <3>1 DEF TakeUpdate
    <2>2. CASE LockForUpdate \/ UpdatesEnd
      BY <2>2 DEF LockForUpdate, UpdatesEnd
    <2>3. CASE UpdateBaseline
      BY <2>3 DEF UpdateBaseline
    <2>4. CASE BroadcastBaseline
      BY <2>4 DEF BroadcastBaseline
    <2>5. QED
      BY <1>3, <2>1, <2>2, <2>3, <2>4 DEF DecayStep
  <1>4. CASE WorkersJoined
    BY <1>4 DEF DecayTypes, WorkersJoined, beyondMain, decayVars
  <1>5. CASE MainStep /\ ~WorkersJoined
    BY <1>1, <1>5 DEF MainStep, OpenStream, OpenFails, UpdatesDrained, RunReturns,
       Exit, beyondMain
  <1>6. QED
    BY <1>1, <1>2, <1>3, <1>4, <1>5, ReaderFrame, SaversFrame, EndedFrame
       DEF Next, beyondReader, beyondSavers

LEMMA SaveTypesKept ==
  ASSUME DecayTypes, SaveTypes, [Next]_vars
  PROVE  SaveTypes'
  <1>1. CASE UNCHANGED <<mu, saveVars>>
    BY <1>1 DEF SaveTypes, saveVars, diskVars
  <1>2. CASE DecayStep
    BY <1>2, DecayFrame DEF SaveTypes, saveVars, diskVars, beyondDecay, DecayStep,
       TakeUpdate, LockForUpdate, UpdateBaseline, BroadcastBaseline, UpdatesEnd
  <1>3. CASE Tick \/ AutoSaveStops
    BY <1>3, ConstantsAssumption DEF SaveTypes, Savers, Tick, AutoSaveStops, diskVars
  <1>4. ASSUME NEW s \in Savers, SaveStep(s)
        PROVE  SaveTypes'
    <2> USE DEF SaveTypes, diskVars
    <2>1. CASE LockForSave(s) \/ CreateFile(s)
      BY <2>1 DEF LockForSave, CreateFile
    <2>2. CASE EncodeModel(s)
      BY <2>2 DEF EncodeModel, DecayTypes
    <2>3. CASE WriteFile(s)
      BY <2>3 DEF WriteFile, SaveReturns
    <2>4. CASE SaveFails(s)
      BY <2>4 DEF SaveFails, SaveReturns
    <2>5. QED
      BY <1>4, <2>1, <2>2, <2>3, <2>4 DEF SaveStep
  <1>5. CASE MainStep
    BY <1>5, MainFrame DEF SaveTypes, Savers, diskVars, beyondMain, MainStep,
       OpenStream, OpenFails, WorkersJoined, UpdatesDrained, BeginFinalSave,
       RunReturns, Exit
  <1>6. QED
    BY <1>1, <1>2, <1>3, <1>4, <1>5, ReaderFrame, WorkersFrame, EndedFrame
       DEF Next, beyondReader, beyondWorkers

LEMMA MainTypeKept ==
  ASSUME TypeOK, [Next]_vars
  PROVE  (mainPC \in {"open", "join", "drain", "save", "returned", "exited", "failed"})'
  <1>1. MainStep => mainPC' \in {"failed", "join", "drain", "save", "returned", "exited"}
    BY DEF MainStep, OpenStream, OpenFails, WorkersJoined, UpdatesDrained,
       BeginFinalSave, RunReturns, Exit
  <1>2. ~MainStep => UNCHANGED mainPC
    BY ReaderFrame, WorkersFrame, DecayFrame, SaversFrame, EndedFrame
       DEF Next, beyondReader, beyondWorkers, beyondDecay, beyondSavers
  <1>3. QED
    BY <1>1, <1>2 DEF TypeOK

(* The variables keep their types and the channels never hold more than    *)
(* their capacity, for any number of lines, workers and checkpoints.       *)
THEOREM TypeCorrect == Spec => []TypeOK
  <1>1. TypeOK /\ [Next]_vars => TypeOK'
    BY StreamTypesKept, PoolTypesKept, DecayTypesKept, SaveTypesKept, MainTypeKept
       DEF TypeOK
  <1>2. QED
    BY TypeInit, <1>1, PTL DEF Spec

-----------------------------------------------------------------------------
(* The inductive invariant.                                                *)

LEMMA InvInit ==
  ASSUME Init
  PROVE  IInv
  <1> USE DEF Init
  <1>1. ShutdownOrder
    BY ConstantsAssumption DEF ShutdownOrder, Joined, Stopped
  <1>2. LockHeld /\ FinalSaveOrder
    BY DEF LockHeld, FinalSaveOrder, Stopped, Savers
  <1>3. UpdatesInOrder
    BY DEF UpdatesInOrder, InHand
  <1>4. DiskFollowsModel
    BY DEF DiskFollowsModel, TornOnlyUnderLock, Savers
  <1>5. NothingForgotten
    BY DEF NothingForgotten
  <1>6. BroadcastsFollowBaseline
    BY DEF BroadcastsFollowBaseline
  <1>7. LinesOnce
    BY DEF LinesOnce, Elems
  <1>8. FileIsPrefix
    BY DEF FileIsPrefix
  <1>9. QED
    BY TypeInit, <1>1, <1>2, <1>3, <1>4, <1>5, <1>6, <1>7, <1>8 DEF IInv

LEMMA ShutdownOrderKept ==
  ASSUME TypeOK, ShutdownOrder, [Next]_vars
  PROVE  ShutdownOrder'
  <1> USE DEF ShutdownOrder, Joined, Stopped
  <1>1. CASE Cancel \/ CloseStream \/ \E l \in Lines : Deliver(l)
    BY <1>1 DEF Cancel, CloseStream, Deliver, beyondReader, workerVars, decayVars
  <1>2. ASSUME NEW w \in Workers, WorkerStep(w) \/ NotifyReturns(w)
        PROVE  ShutdownOrder'
    <2> USE WorkersFrame, <1>2 DEF TypeOK, PoolTypes, beyondWorkers, readerVars, decayVars
    <2>1. CASE Receive(w)
      BY <2>1 DEF Receive
    <2>2. CASE RangeEnds(w)
      BY <2>2 DEF RangeEnds
    <2>3. CASE JudgeAnomaly(w)
      BY <2>3 DEF JudgeAnomaly
    <2>4. CASE JudgeHealthy(w)
      BY <2>4 DEF JudgeHealthy, BackToRange
    <2>5. CASE OfferAccepted(w)
      BY <2>5 DEF OfferAccepted, BackToRange
    <2>6. CASE OfferShed(w)
      BY <2>6 DEF OfferShed, BackToRange
    <2>7. CASE NotifyReturns(w)
      BY <2>7 DEF NotifyReturns, BackToRange
    <2>8. QED
      BY <2>1, <2>2, <2>3, <2>4, <2>5, <2>6, <2>7 DEF WorkerStep
  <1>3. CASE DecayStep
    BY <1>3 DEF DecayStep, TakeUpdate, LockForUpdate, UpdateBaseline,
       BroadcastBaseline, UpdatesEnd, beyondDecay, readerVars, workerVars
  <1>4. CASE Tick \/ AutoSaveStops \/ \E s \in Savers : SaveStep(s)
    BY <1>4, SaversFrame DEF beyondSavers, readerVars, workerVars, decayVars
  <1>5. CASE MainStep
    <2> USE DEF beyondMain, readerVars, workerVars, decayVars
    <2>1. CASE OpenStream \/ OpenFails
      BY <2>1 DEF OpenStream, OpenFails
    <2>2. CASE WorkersJoined
      BY <2>2 DEF WorkersJoined, BeginFinalSave
    <2>3. CASE UpdatesDrained
      BY <2>3 DEF UpdatesDrained, BeginFinalSave
    <2>4. CASE RunReturns \/ Exit
      BY <2>4 DEF RunReturns, Exit
    <2>5. QED
      BY <1>5, <2>1, <2>2, <2>3, <2>4 DEF MainStep
  <1>6. CASE Ended \/ UNCHANGED vars
    BY <1>6, EndedFrame DEF beyondReader, readerVars, workerVars, decayVars
  <1>7. QED
    BY <1>1, <1>2, <1>3, <1>4, <1>5, <1>6 DEF Next

LEMMA LockHeldKept ==
  ASSUME TypeOK, ShutdownOrder, FinalSaveOrder, LockHeld, [Next]_vars
  PROVE  LockHeld'
  <1> USE DEF LockHeld
  <1>1. CASE UNCHANGED <<mu, savePC, decayPC>>
    BY <1>1
  <1>2. CASE DecayStep
    BY <1>2, DecayFrame DEF DecayStep, TakeUpdate, LockForUpdate, UpdateBaseline,
       BroadcastBaseline, UpdatesEnd, beyondDecay, saveVars, Savers
  <1>3. CASE Tick \/ AutoSaveStops
    BY <1>3 DEF Tick, AutoSaveStops, beyondSavers, decayVars, TypeOK, SaveTypes
  <1>4. ASSUME NEW s \in Savers, SaveStep(s)
        PROVE  LockHeld'
    <2> USE DEF TypeOK, SaveTypes, Savers, beyondSavers, decayVars
    <2>1. CASE LockForSave(s)
      BY <2>1 DEF LockForSave
    <2>2. CASE CreateFile(s) \/ EncodeModel(s)
      BY <2>2 DEF CreateFile, EncodeModel
    <2>3. CASE WriteFile(s) \/ SaveFails(s)
      BY <2>3 DEF WriteFile, SaveFails, SaveReturns
    <2>4. QED
      BY <1>4, <2>1, <2>2, <2>3 DEF SaveStep
  <1>5. CASE MainStep
    <2>1. CASE WorkersJoined \/ UpdatesDrained
      BY <2>1 DEF WorkersJoined, UpdatesDrained, BeginFinalSave, FinalSaveOrder,
         Stopped, Savers, TypeOK, SaveTypes, beyondMain, decayVars
    <2>2. CASE ~(WorkersJoined \/ UpdatesDrained)
      BY <1>1, <1>5, <2>2 DEF MainStep, OpenStream, OpenFails, RunReturns, Exit,
         beyondMain, decayVars
    <2>3. QED
      BY <2>1, <2>2
  <1>6. QED
    BY <1>1, <1>2, <1>3, <1>4, <1>5, ReaderFrame, WorkersFrame, EndedFrame
       DEF Next, beyondReader, beyondWorkers, decayVars, saveVars

LEMMA FinalSaveOrderKept ==
  ASSUME TypeOK, FinalSaveOrder, [Next]_vars
  PROVE  FinalSaveOrder'
  <1> USE DEF FinalSaveOrder, Stopped, TypeOK, SaveTypes, Savers
  <1>1. CASE UNCHANGED <<mainPC, savePC>>
    BY <1>1
  <1>2. CASE Tick \/ AutoSaveStops
    BY <1>2 DEF Tick, AutoSaveStops, beyondSavers
  <1>3. ASSUME NEW s \in Savers, SaveStep(s)
        PROVE  FinalSaveOrder'
    BY <1>3 DEF SaveStep, LockForSave, CreateFile, EncodeModel, WriteFile,
       SaveFails, SaveReturns, beyondSavers
  <1>4. CASE MainStep
    BY <1>4 DEF MainStep, OpenStream, OpenFails, WorkersJoined, UpdatesDrained,
       BeginFinalSave, RunReturns, Exit
  <1>5. QED
    BY <1>1, <1>2, <1>3, <1>4, ReaderFrame, WorkersFrame, DecayFrame, EndedFrame
       DEF Next, beyondReader, beyondWorkers, beyondDecay, saveVars

LEMMA UpdatesInOrderKept ==
  ASSUME TypeOK, UpdatesInOrder, [Next]_vars
  PROVE  UpdatesInOrder'
  <1> USE DEF UpdatesInOrder, InHand
  <1>1. CASE UNCHANGED <<accepted, decayUpdates, baseline, decayPC, decayVec>>
    BY <1>1
  <1>2. ASSUME NEW w \in Workers, WorkerStep(w) \/ NotifyReturns(w)
        PROVE  UpdatesInOrder'
    <2>1. CASE OfferAccepted(w)
      <3> DEFINE taken == baseline \o InHand
      <3>1. /\ accepted' = Append(accepted, workerLine[w])
            /\ decayUpdates' = Append(decayUpdates, workerLine[w])
            /\ taken' = taken
        BY <2>1 DEF OfferAccepted, beyondWorkers, decayVars
      <3>2. /\ workerLine[w] \in Lines
            /\ decayUpdates \in Seq(Lines)
            /\ taken \in Seq(Lines)
        BY <2>1 DEF OfferAccepted, TypeOK, PoolTypes, DecayTypes
      <3>3. accepted = taken \o decayUpdates
        OBVIOUS
      <3>4. SUFFICES accepted' = taken' \o decayUpdates'
        OBVIOUS
      <3> HIDE DEF taken
      <3>5. Append(taken \o decayUpdates, workerLine[w])
              = taken \o Append(decayUpdates, workerLine[w])
        BY ONLY <3>2
      <3>6. QED
        BY <3>1, <3>3, <3>5
    <2>2. CASE ~OfferAccepted(w)
      BY <1>1, <1>2, <2>2 DEF WorkerStep, Receive, RangeEnds, JudgeAnomaly,
         JudgeHealthy, OfferShed, NotifyReturns, beyondWorkers, decayVars
    <2>3. QED
      BY <2>1, <2>2
  <1>3. CASE DecayStep
    <2> USE DEF beyondDecay, workerVars, TypeOK, DecayTypes
    <2>1. CASE TakeUpdate
      BY <2>1 DEF TakeUpdate
    <2>2. CASE UpdateBaseline
      BY <2>2 DEF UpdateBaseline
    <2>3. CASE LockForUpdate \/ BroadcastBaseline \/ UpdatesEnd
      BY <2>3 DEF LockForUpdate, BroadcastBaseline, UpdatesEnd
    <2>4. QED
      BY <1>3, <2>1, <2>2, <2>3 DEF DecayStep
  <1>4. QED
    BY <1>1, <1>2, <1>3, ReaderFrame, SaversFrame, MainFrame, EndedFrame
       DEF Next, beyondReader, beyondSavers, beyondMain, workerVars, decayVars

LEMMA DiskFollowsModelKept ==
  ASSUME TypeOK, ShutdownOrder, LockHeld, FinalSaveOrder, DiskFollowsModel, [Next]_vars
  PROVE  DiskFollowsModel'
  <1> USE DEF DiskFollowsModel, TornOnlyUnderLock
  <1>1. CASE UNCHANGED <<mu, saveVars, baseline>>
    BY <1>1 DEF saveVars, diskVars
  <1>2. CASE DecayStep
    <2> USE DecayFrame, <1>2 DEF beyondDecay, saveVars, diskVars, LockHeld, Savers
    <2>1. CASE UpdateBaseline
      <3>1. savePC["final"] # "done"
        BY <2>1 DEF UpdateBaseline, FinalSaveOrder, ShutdownOrder, Stopped
      <3>2. \A s \in Savers : savePC[s] \notin {"create", "encode", "write"}
        BY <2>1 DEF UpdateBaseline
      <3>3. QED
        BY <2>1, <3>1, <3>2 DEF UpdateBaseline
    <2>2. CASE LockForUpdate
      BY <2>2 DEF LockForUpdate
    <2>3. CASE TakeUpdate \/ BroadcastBaseline \/ UpdatesEnd
      BY <2>3 DEF TakeUpdate, BroadcastBaseline, UpdatesEnd
    <2>4. QED
      BY <2>1, <2>2, <2>3 DEF DecayStep
  <1>3. CASE Tick \/ AutoSaveStops
    BY <1>3 DEF Tick, AutoSaveStops, beyondSavers, decayVars, diskVars, TypeOK, SaveTypes,
       LockHeld, Savers
  <1>4. ASSUME NEW s \in Savers, SaveStep(s)
        PROVE  DiskFollowsModel'
    <2> USE DEF TypeOK, SaveTypes, Savers, LockHeld, beyondSavers, decayVars, diskVars
    <2>1. CASE LockForSave(s)
      BY <2>1 DEF LockForSave
    <2>2. CASE CreateFile(s)
      BY <2>2 DEF CreateFile
    <2>3. CASE EncodeModel(s)
      BY <2>3 DEF EncodeModel
    <2>4. CASE WriteFile(s)
      BY <2>4 DEF WriteFile, SaveReturns
    <2>5. CASE SaveFails(s)
      BY <2>5 DEF SaveFails, SaveReturns
    <2>6. QED
      BY <1>4, <2>1, <2>2, <2>3, <2>4, <2>5 DEF SaveStep
  <1>5. CASE MainStep
    <2>1. CASE WorkersJoined \/ UpdatesDrained
      BY <2>1 DEF WorkersJoined, UpdatesDrained, BeginFinalSave, FinalSaveOrder,
         Stopped, LockHeld, Savers, TypeOK, SaveTypes, beyondMain, decayVars, diskVars
    <2>2. CASE ~(WorkersJoined \/ UpdatesDrained)
      BY <1>1, <1>5, <2>2 DEF MainStep, OpenStream, OpenFails, RunReturns, Exit,
         beyondMain, decayVars, saveVars
    <2>3. QED
      BY <2>1, <2>2
  <1>6. QED
    BY <1>1, <1>2, <1>3, <1>4, <1>5, ReaderFrame, WorkersFrame, EndedFrame
       DEF Next, beyondReader, beyondWorkers, decayVars

(* What the two ends of a channel see of one send and of one receive.      *)
LEMMA ElemsAppend ==
  ASSUME NEW S, NEW q \in Seq(S), NEW e \in S
  PROVE  Elems(Append(q, e)) = Elems(q) \cup {e}
  <1>1. /\ DOMAIN q = 1 .. Len(q)
        /\ DOMAIN Append(q, e) = 1 .. Len(q) + 1
        /\ Append(q, e)[Len(q) + 1] = e
        /\ \A i \in 1 .. Len(q) : Append(q, e)[i] = q[i]
        /\ Len(q) \in Nat
    OBVIOUS
  <1>2. 1 .. Len(q) + 1 = (1 .. Len(q)) \cup {Len(q) + 1}
    BY <1>1
  <1>3. QED
    BY <1>1, <1>2, Zenon DEF Elems

LEMMA ElemsTail ==
  ASSUME NEW S, NEW q \in Seq(S), q # <<>>
  PROVE  Elems(q) \subseteq Elems(Tail(q)) \cup {Head(q)}
  <1> SUFFICES ASSUME NEW i \in DOMAIN q
               PROVE  q[i] = Head(q) \/ \E j \in DOMAIN Tail(q) : Tail(q)[j] = q[i]
    BY DEF Elems
  <1>1. CASE i = 1
    BY <1>1
  <1>2. CASE i # 1
    <2>1. i - 1 \in DOMAIN Tail(q) /\ Tail(q)[i - 1] = q[i]
      BY <1>2
    <2>2. QED
      BY <2>1
  <1>3. QED
    BY <1>1, <1>2

LEMMA NothingForgottenKept ==
  ASSUME TypeOK, NothingForgotten, [Next]_vars
  PROVE  NothingForgotten'
  <1> USE DEF NothingForgotten
  <1>1. CASE UNCHANGED <<undelivered, logsStream, workerVars>>
    BY <1>1 DEF workerVars, Elems
  <1>2. ASSUME NEW l \in Lines, Deliver(l)
        PROVE  NothingForgotten'
    <2>1. Elems(logsStream') = Elems(logsStream) \cup {l}
      BY <1>2, ElemsAppend DEF Deliver, TypeOK, StreamTypes
    <2>2. QED
      BY <1>2, <2>1 DEF Deliver, beyondReader, workerVars
  <1>3. ASSUME NEW w \in Workers, WorkerStep(w) \/ NotifyReturns(w)
        PROVE  NothingForgotten'
    <2> USE WorkersFrame, <1>3 DEF TypeOK, PoolTypes, beyondWorkers, readerVars
    <2>1. CASE Receive(w)
      <3>1. Elems(logsStream) \subseteq Elems(logsStream') \cup {Head(logsStream)}
        BY <2>1, ElemsTail DEF Receive, StreamTypes
      <3>2. QED
        BY <2>1, <3>1 DEF Receive
    <2>2. CASE RangeEnds(w)
      BY <2>2 DEF RangeEnds, Elems
    <2>3. CASE JudgeAnomaly(w)
      BY <2>3 DEF JudgeAnomaly
    <2>4. CASE JudgeHealthy(w)
      BY <2>4 DEF JudgeHealthy, BackToRange
    <2>5. CASE OfferAccepted(w)
      BY <2>5 DEF OfferAccepted, BackToRange
    <2>6. CASE OfferShed(w)
      BY <2>6 DEF OfferShed, BackToRange
    <2>7. CASE NotifyReturns(w)
      BY <2>7 DEF NotifyReturns, BackToRange
    <2>8. QED
      BY <2>1, <2>2, <2>3, <2>4, <2>5, <2>6, <2>7 DEF WorkerStep
  <1>4. CASE Cancel \/ CloseStream
    BY <1>1, <1>4 DEF Cancel, CloseStream, beyondReader
  <1>5. QED
    BY <1>1, <1>2, <1>3, <1>4, DecayFrame, SaversFrame, MainFrame, EndedFrame
       DEF Next, beyondReader, beyondDecay, beyondSavers, beyondMain, readerVars

LEMMA BroadcastsFollowBaselineKept ==
  ASSUME TypeOK, BroadcastsFollowBaseline, [Next]_vars
  PROVE  BroadcastsFollowBaseline'
  <1> USE DEF BroadcastsFollowBaseline
  <1>1. CASE UNCHANGED decayVars
    BY <1>1 DEF decayVars
  <1>2. CASE DecayStep
    <2> USE DEF TypeOK, DecayTypes
    <2>1. CASE TakeUpdate \/ LockForUpdate \/ UpdatesEnd
      BY <2>1 DEF TakeUpdate, LockForUpdate, UpdatesEnd
    <2>2. CASE UpdateBaseline
      BY <2>2 DEF UpdateBaseline
    <2>3. CASE BroadcastBaseline
      BY <2>3 DEF BroadcastBaseline
    <2>4. QED
      BY <1>2, <2>1, <2>2, <2>3 DEF DecayStep
  <1>3. QED
    BY <1>1, <1>2, ReaderFrame, WorkersFrame, SaversFrame, MainFrame, EndedFrame
       DEF Next, beyondReader, beyondWorkers, beyondSavers, beyondMain

(* Taking the head of a channel without duplicates takes the element out.  *)
LEMMA HeadOnce ==
  ASSUME NEW S, NEW q \in Seq(S), q # <<>>,
         \A i, j \in DOMAIN q : q[i] = q[j] => i = j
  PROVE  /\ Elems(Tail(q)) = Elems(q) \ {Head(q)}
         /\ \A i, j \in DOMAIN Tail(q) : Tail(q)[i] = Tail(q)[j] => i = j
         /\ Head(q) \in Elems(q)
  <1> USE DEF Elems
  <1>1. /\ DOMAIN q = 1 .. Len(q) /\ Len(q) \in Nat /\ Len(q) > 0
        /\ DOMAIN Tail(q) = 1 .. Len(q) - 1
        /\ \A i \in 1 .. Len(q) - 1 : Tail(q)[i] = q[i + 1]
        /\ Head(q) = q[1]
    OBVIOUS
  <1>2. Head(q) \in Elems(q)
    BY <1>1
  <1>3. ASSUME NEW i \in DOMAIN Tail(q)
        PROVE  Tail(q)[i] \in Elems(q) /\ Tail(q)[i] # Head(q)
    <2>1. i + 1 \in DOMAIN q /\ 1 \in DOMAIN q /\ i + 1 # 1
      BY <1>1
    <2>2. QED
      BY <1>1, <2>1
  <1>4. ASSUME NEW i \in DOMAIN q, i # 1
        PROVE  q[i] \in Elems(Tail(q))
    <2>1. i - 1 \in DOMAIN Tail(q) /\ Tail(q)[i - 1] = q[i]
      BY <1>1, <1>4
    <2>2. QED
      BY <2>1
  <1>5. ASSUME NEW i \in DOMAIN Tail(q), NEW j \in DOMAIN Tail(q), Tail(q)[i] = Tail(q)[j]
        PROVE  i = j
    <2>1. i + 1 \in DOMAIN q /\ j + 1 \in DOMAIN q /\ q[i + 1] = q[j + 1]
      BY <1>1, <1>5
    <2>2. i + 1 = j + 1
      BY <2>1
    <2>3. QED
      BY <1>1, <2>2
  <1>6. Elems(Tail(q)) = Elems(q) \ {Head(q)}
    BY <1>1, <1>3, <1>4
  <1>7. QED
    BY <1>2, <1>5, <1>6

LEMMA AppendOnce ==
  ASSUME NEW S, NEW q \in Seq(S), NEW e \in S, e \notin Elems(q),
         \A i, j \in DOMAIN q : q[i] = q[j] => i = j
  PROVE  \A i, j \in DOMAIN Append(q, e) : Append(q, e)[i] = Append(q, e)[j] => i = j
  <1>1. /\ DOMAIN q = 1 .. Len(q) /\ Len(q) \in Nat
        /\ DOMAIN Append(q, e) = 1 .. Len(q) + 1
        /\ Append(q, e)[Len(q) + 1] = e
        /\ \A i \in 1 .. Len(q) : Append(q, e)[i] = q[i]
    OBVIOUS
  <1>2. \A i \in 1 .. Len(q) : q[i] # e
    BY <1>1 DEF Elems
  <1>3. QED
    BY <1>1, <1>2

LEMMA LinesOnceKept ==
  ASSUME TypeOK, LinesOnce, [Next]_vars
  PROVE  LinesOnce'
  <1> USE DEF LinesOnce, Unjudged
  <1>1. CASE UNCHANGED <<undelivered, logsStream, workerVars>>
    BY <1>1 DEF workerVars, Elems
  <1>2. ASSUME NEW l \in Lines, Deliver(l)
        PROVE  LinesOnce'
    <2>1. Elems(logsStream') = Elems(logsStream) \cup {l}
      BY <1>2, ElemsAppend DEF Deliver, TypeOK, StreamTypes
    <2>2. l \notin Elems(logsStream)
      BY <1>2 DEF Deliver, Elems
    <2>3. \A i, j \in DOMAIN logsStream' : logsStream'[i] = logsStream'[j] => i = j
      BY <1>2, <2>2, AppendOnce DEF Deliver, TypeOK, StreamTypes
    <2>4. \A i \in DOMAIN logsStream' : logsStream'[i] \in Elems(logsStream')
      BY DEF Elems
    <2>5. \A k \in Elems(logsStream) : Unjudged(k)
      BY DEF Elems
    <2>6. /\ UNCHANGED <<workerPC, workerLine, verdict, accepted>>
          /\ undelivered' = undelivered \ {l} /\ l \in undelivered
      BY <1>2 DEF Deliver, beyondReader, workerVars
    <2>7. \A k \in Elems(logsStream') : k \notin undelivered' /\ verdict'[k] = "none"
      BY <2>1, <2>5, <2>6
    <2>8. \A v \in Workers : workerPC[v] = "compare" => workerLine[v] # l
      BY <2>6
    <2>9. Elems(accepted') = Elems(accepted)
      BY <2>6 DEF Elems
    <2>10. QED
      BY <2>1, <2>3, <2>4, <2>6, <2>7, <2>8, <2>9
  <1>3. ASSUME NEW w \in Workers, WorkerStep(w) \/ NotifyReturns(w)
        PROVE  LinesOnce'
    <2> USE DEF TypeOK, PoolTypes
    <2>1. UNCHANGED undelivered
      BY <1>3, WorkersFrame DEF beyondWorkers, readerVars
    <2>2. CASE Receive(w)
      <3> DEFINE l == Head(logsStream)
      <3>1. /\ logsStream \in Seq(Lines) /\ logsStream # <<>>
            /\ logsStream' = Tail(logsStream)
            /\ UNCHANGED accepted
        BY <2>2 DEF Receive, StreamTypes
      <3>2. /\ Elems(logsStream') = Elems(logsStream) \ {l}
            /\ \A i, j \in DOMAIN logsStream' : logsStream'[i] = logsStream'[j] => i = j
            /\ l \in Elems(logsStream)
        BY <3>1, HeadOnce
      <3>3. \A k \in Elems(logsStream) : Unjudged(k)
        BY DEF Elems
      <3>4. \A i \in DOMAIN logsStream' : logsStream'[i] \in Elems(logsStream')
        BY DEF Elems
      <3>5. Elems(accepted') = Elems(accepted)
        BY <3>1 DEF Elems
      <3>6. /\ l \notin Elems(accepted) /\ l \in Lines
            /\ Elems(accepted) \subseteq Lines
        BY <3>1, <3>2, <3>3 DEF Elems
      <3> HIDE DEF l
      <3>7. \A v \in Workers : workerPC[v] = "compare" =>
              workerLine[v] # l /\ workerLine[v] \in Lines
        BY <3>2
      <3>8. \A v \in Workers : workerPC[v] = "offer" => workerLine[v] # l
        BY <3>2, <3>3
      <3>9. CASE l \in Blank
        <4>1. /\ verdict' = [verdict EXCEPT ![l] = "blank"]
              /\ UNCHANGED <<workerPC, workerLine>>
          BY <2>2, <3>9 DEF Receive, l
        <4>2. \A k \in Lines : k # l => verdict'[k] = verdict[k]
          BY <4>1
        <4>3. \A k \in Elems(logsStream') : k \notin undelivered' /\ verdict'[k] = "none"
          <5> SUFFICES ASSUME NEW k \in Elems(logsStream')
                       PROVE  k \notin undelivered' /\ verdict'[k] = "none"
            OBVIOUS
          <5>1. k \in Elems(logsStream) /\ k # l
            BY <3>2
          <5>2. k \in Lines
            BY <3>1, <5>1 DEF Elems
          <5>3. QED
            BY <2>1, <3>3, <4>2, <5>1, <5>2
        <4>4. \A k \in undelivered' : verdict'[k] = "none"
          BY <2>1, <3>2, <3>3, <4>2 DEF StreamTypes
        <4>5. \A v \in Workers : workerPC'[v] = "compare" =>
                /\ workerLine'[v] \notin undelivered' /\ verdict'[workerLine'[v]] = "none"
                /\ workerLine'[v] \notin Elems(logsStream') \cup Blank
          BY <2>1, <3>2, <3>7, <4>1, <4>2
        <4>6. \A v \in Workers : workerPC'[v] = "offer" =>
                verdict'[workerLine'[v]] = "healthy" /\ workerLine'[v] \notin Elems(accepted')
          BY <3>5, <3>8, <4>1, <4>2
        <4>7. \A k \in Elems(accepted') : verdict'[k] = "healthy"
          BY <3>5, <3>6, <4>2
        <4>8. QED
          BY <3>2, <3>4, <4>1, <4>3, <4>4, <4>5, <4>6, <4>7
      <3>10. CASE l \notin Blank
        <4>1. /\ workerPC' = [workerPC EXCEPT ![w] = "compare"]
              /\ workerLine' = [workerLine EXCEPT ![w] = l]
              /\ UNCHANGED verdict
          BY <2>2, <3>10 DEF Receive, l
        <4>2. \A v \in Workers : v # w => workerPC'[v] = workerPC[v] /\ workerLine'[v] = workerLine[v]
          BY <4>1
        <4>3. workerPC'[w] = "compare" /\ workerLine'[w] = l
          BY <4>1
        <4>4. QED
          BY <2>1, <3>2, <3>3, <3>4, <3>5, <3>7, <3>8, <3>10, <4>1, <4>2, <4>3
      <3>11. QED
        BY <3>9, <3>10
    <2>3. CASE RangeEnds(w)
      BY <2>1, <2>3 DEF RangeEnds, Elems
    <2>4. CASE JudgeAnomaly(w)
      BY <2>1, <2>4 DEF JudgeAnomaly, Elems
    <2>5. CASE JudgeHealthy(w)
      BY <2>1, <2>5 DEF JudgeHealthy, BackToRange, Elems
    <2>6. CASE OfferAccepted(w)
      <3>1. Elems(accepted') = Elems(accepted) \cup {workerLine[w]}
        BY <2>6, ElemsAppend DEF OfferAccepted
      <3>2. UNCHANGED <<logsStream, verdict>> /\ workerPC[w] = "offer"
        BY <2>6 DEF OfferAccepted
      <3>3. Elems(logsStream') = Elems(logsStream)
        BY <3>2 DEF Elems
      <3>4. workerPC'[w] = "range"
        BY <2>6 DEF OfferAccepted, BackToRange
      <3>5. \A v \in Workers : v # w => workerPC'[v] = workerPC[v] /\ workerLine'[v] = workerLine[v]
        BY <2>6 DEF OfferAccepted, BackToRange
      <3>6. \A v \in Workers : v # w /\ workerPC[v] = "offer" => workerLine[v] # workerLine[w]
        BY <3>2
      <3>7. QED
        BY <2>1, <3>1, <3>2, <3>3, <3>4, <3>5, <3>6
    <2>7. CASE OfferShed(w)
      BY <2>1, <2>7 DEF OfferShed, BackToRange, Elems
    <2>8. CASE NotifyReturns(w)
      BY <2>1, <2>8 DEF NotifyReturns, BackToRange, Elems
    <2>9. QED
      BY <1>3, <2>2, <2>3, <2>4, <2>5, <2>6, <2>7, <2>8 DEF WorkerStep
  <1>4. CASE Cancel \/ CloseStream
    BY <1>1, <1>4 DEF Cancel, CloseStream, beyondReader
  <1>5. QED
    BY <1>1, <1>2, <1>3, <1>4, DecayFrame, SaversFrame, MainFrame, EndedFrame
       DEF Next, beyondReader, beyondDecay, beyondSavers, beyondMain, readerVars

LEMMA FileIsPrefixKept ==
  ASSUME TypeOK, DiskFollowsModel, FileIsPrefix, [Next]_vars
  PROVE  FileIsPrefix'
  <1> USE DEF FileIsPrefix, TypeOK, DecayTypes, SaveTypes
  <1>1. CASE UNCHANGED <<file, baseline>>
    BY <1>1
  <1>2. CASE DecayStep
    <2>1. CASE UpdateBaseline
      <3>1. /\ baseline' = Append(baseline, decayVec) /\ decayVec \in Lines
            /\ UNCHANGED file
        BY <2>1 DEF UpdateBaseline, beyondDecay, saveVars, diskVars
      <3>2. /\ Len(baseline') = Len(baseline) + 1
            /\ \A i \in 1 .. Len(baseline) : baseline'[i] = baseline[i]
        BY <3>1
      <3>3. QED
        BY <3>1, <3>2
    <2>2. CASE ~UpdateBaseline
      BY <1>1, <1>2, <2>2 DEF DecayStep, TakeUpdate, LockForUpdate, BroadcastBaseline,
         UpdatesEnd, beyondDecay, saveVars, diskVars
    <2>3. QED
      BY <2>1, <2>2
  <1>3. ASSUME NEW s \in Savers, SaveStep(s)
        PROVE  FileIsPrefix'
    <2>1. CASE WriteFile(s)
      <3>1. file' = baseline /\ UNCHANGED baseline
        BY <2>1 DEF WriteFile, DiskFollowsModel, TornOnlyUnderLock, beyondSavers, decayVars
      <3>2. QED
        BY <3>1
    <2>2. CASE ~WriteFile(s)
      BY <1>1, <1>3, <2>2 DEF SaveStep, LockForSave, CreateFile, EncodeModel, SaveFails,
         diskVars, beyondSavers, decayVars
    <2>3. QED
      BY <2>1, <2>2
  <1>4. CASE Tick \/ AutoSaveStops
    BY <1>1, <1>4 DEF Tick, AutoSaveStops, diskVars, beyondSavers, decayVars
  <1>5. QED
    BY <1>1, <1>2, <1>3, <1>4, ReaderFrame, WorkersFrame, MainFrame, EndedFrame
       DEF Next, beyondReader, beyondWorkers, beyondMain, decayVars, saveVars, diskVars

(* The inductive invariant: the shutdown ends its stages in order, the     *)
(* mutex is held by the one goroutine in its section, no update and no     *)
(* line is lost or doubled, and the file follows the model.                *)
THEOREM Invariance == Spec => []IInv
  <1>1. IInv /\ [Next]_vars => IInv'
    BY StreamTypesKept, PoolTypesKept, DecayTypesKept, SaveTypesKept, MainTypeKept,
       ShutdownOrderKept, LockHeldKept, FinalSaveOrderKept, UpdatesInOrderKept,
       DiskFollowsModelKept, NothingForgottenKept, BroadcastsFollowBaselineKept,
       LinesOnceKept, FileIsPrefixKept
       DEF IInv, TypeOK
  <1>2. QED
    BY InvInit, <1>1, PTL DEF Spec

-----------------------------------------------------------------------------
(* What follows from it.                                                   *)

(* decayUpdates is closed only when no worker can send on it any more.     *)
THEOREM SendsEndBeforeClose == Spec => []NoSendOnClosed
  <1>1. IInv => NoSendOnClosed
    BY DEF IInv, ShutdownOrder, NoSendOnClosed
  <1>2. QED
    BY Invariance, <1>1, PTL

(* Every accepted vector is in the model, in hand or queued, once and in   *)
(* order, whatever the interleaving of workers, decay and shutdown.        *)
THEOREM UpdatesAreOrdered == Spec => []UpdatesInOrder
  <1>1. IInv => UpdatesInOrder
    BY DEF IInv
  <1>2. QED
    BY Invariance, <1>1, PTL

(* With the channel drained and nothing in hand, the model holds every     *)
(* accepted vector.                                                        *)
LEMMA StoppedModel ==
  ASSUME IInv, Stopped
  PROVE  accepted = baseline
  <1>1. decayPC = "done" /\ decayUpdates = <<>>
    BY DEF IInv, ShutdownOrder
  <1>2. InHand = <<>>
    BY <1>1 DEF InHand
  <1>3. baseline \in Seq(Lines)
    BY DEF IInv, TypeOK, DecayTypes
  <1>4. accepted = (baseline \o <<>>) \o <<>>
    BY <1>1, <1>2 DEF IInv, UpdatesInOrder
  <1>5. QED
    BY <1>3, <1>4

(* Run stops owing nothing: all that was delivered is judged, all anomalies*)
(* are reported and all accepted vectors are learned and broadcast.        *)
THEOREM DrainIsComplete == Spec => []GracefulDrain
  <1>1. ASSUME IInv
        PROVE  GracefulDrain
    <2> SUFFICES ASSUME Stopped, Workers # {}
                 PROVE  /\ \A l \in Lines \ undelivered : verdict[l] # "none"
                        /\ TelemetryOn => {l \in Lines : verdict[l] = "anomaly"} \subseteq reported
                        /\ baseline = accepted
                        /\ ClusterOn => broadcasts = baseline
      BY StoppedModel, <1>1 DEF GracefulDrain
    <2>1. \A w \in Workers : workerPC[w] = "done"
      BY <1>1 DEF IInv, ShutdownOrder, Joined, Stopped
    <2>2. Elems(logsStream) = {}
      BY <1>1, <2>1 DEF IInv, ShutdownOrder, Elems
    <2>3. \A l \in Lines \ undelivered : verdict[l] # "none"
      BY <1>1, <2>1, <2>2 DEF IInv, NothingForgotten
    <2>4. TelemetryOn => {l \in Lines : verdict[l] = "anomaly"} \subseteq reported
      BY <1>1, <2>1 DEF IInv, NothingForgotten
    <2>5. ClusterOn => broadcasts = baseline
      BY <1>1 DEF IInv, ShutdownOrder, BroadcastsFollowBaseline
    <2>6. QED
      BY <1>1, <2>3, <2>4, <2>5, StoppedModel
  <1>2. QED
    BY Invariance, <1>1, PTL

(* A truncated file is a save in progress under the mutex, or a failed one.*)
THEOREM TornFileIsLocked == Spec => []TornOnlyUnderLock
  <1>1. IInv => TornOnlyUnderLock
    BY DEF IInv, DiskFollowsModel
  <1>2. QED
    BY Invariance, <1>1, PTL

(* After Run, a whole file holds every update the model ever accepted.     *)
THEOREM FinalSaveIsCurrent == Spec => []FinalModelCurrent
  <1>1. IInv => FinalModelCurrent
    BY StoppedModel DEF IInv, DiskFollowsModel, FinalSaveOrder, FinalModelCurrent, Stopped
  <1>2. QED
    BY Invariance, <1>1, PTL

LEMMA OneOrNone ==
  ASSUME NEW T, \A x, y \in T : x = y
  PROVE  Cardinality(T) = IF T = {} THEN 0 ELSE 1
  <1>1. CASE T = {}
    BY <1>1, FS_EmptySet
  <1>2. ASSUME NEW x \in T
        PROVE  Cardinality(T) = 1
    <2>1. T = {x}
      OBVIOUS
    <2>2. QED
      BY <2>1, FS_Singleton
  <1>3. QED
    BY <1>1, <1>2

(* A line is never lost and never doubled on its way from the reader to a  *)
(* verdict, for any number of workers and any capacity of the channel.     *)
THEOREM LinesAreKept == Spec => []NoLineLost
  <1>1. ASSUME IInv
        PROVE  NoLineLost
    <2> SUFFICES ASSUME NEW l \in Lines
                 PROVE  LET queued == Cardinality({i \in DOMAIN logsStream : logsStream[i] = l})
                            held == Cardinality({w \in Workers :
                                      workerPC[w] = "compare" /\ workerLine[w] = l})
                        IN queued + held = IF l \notin undelivered /\ verdict[l] = "none" THEN 1 ELSE 0
      BY DEF NoLineLost
    <2> DEFINE Q == {i \in DOMAIN logsStream : logsStream[i] = l}
               H == {w \in Workers : workerPC[w] = "compare" /\ workerLine[w] = l}
    <2>1. /\ Cardinality(Q) = IF Q = {} THEN 0 ELSE 1
          /\ Cardinality(H) = IF H = {} THEN 0 ELSE 1
      <3>1. (\A x, y \in Q : x = y) /\ (\A x, y \in H : x = y)
        BY <1>1 DEF IInv, LinesOnce
      <3>2. QED
        BY <3>1, OneOrNone
    <2>2. Q = {} <=> l \notin Elems(logsStream)
      BY DEF Elems
    <2>3. Q # {} \/ H # {} => l \notin undelivered /\ verdict[l] = "none"
      BY <1>1 DEF IInv, LinesOnce, Unjudged
    <2>4. l \notin undelivered /\ verdict[l] = "none" => Q # {} \/ H # {}
      BY <1>1, <2>2 DEF IInv, NothingForgotten
    <2>5. Q = {} \/ H = {}
      BY <1>1, <2>2 DEF IInv, LinesOnce
    <2> HIDE DEF Q, H
    <2>6. Cardinality(Q) + Cardinality(H) = IF l \notin undelivered /\ verdict[l] = "none" THEN 1 ELSE 0
      BY <2>1, <2>3, <2>4, <2>5
    <2>7. QED
      BY <2>6 DEF Q, H
  <1>2. QED
    BY Invariance, <1>1, PTL

LEMMA PrefixIsSubSeq ==
  ASSUME NEW S, NEW s \in Seq(S), NEW t \in Seq(S), Len(s) <= Len(t),
         \A i \in 1 .. Len(s) : s[i] = t[i]
  PROVE  SubSeq(t, 1, Len(s)) = s
  <1>1. SubSeq(t, 1, Len(s)) \in Seq(S) /\ Len(SubSeq(t, 1, Len(s))) = Len(s)
    OBVIOUS
  <1>2. \A i \in 1 .. Len(s) : SubSeq(t, 1, Len(s))[i] = s[i]
    OBVIOUS
  <1>3. QED
    BY <1>1, <1>2, SeqEqual

(* No save takes the stored model back: what is written is the model, and  *)
(* what was stored is where the model has been.                            *)
THEOREM StoredModelAdvances == Spec => FileNeverRegresses
  <1>1. ASSUME IInv, [Next]_vars
        PROVE  [Len(file) <= Len(file') /\ SubSeq(file', 1, Len(file)) = file]_file
    <2>1. ASSUME NEW s \in Savers, WriteFile(s)
          PROVE  Len(file) <= Len(file') /\ SubSeq(file', 1, Len(file)) = file
      <3>1. file' = baseline
        BY <1>1, <2>1 DEF WriteFile, IInv, DiskFollowsModel, TornOnlyUnderLock
      <3>2. file \in Seq(Lines) /\ baseline \in Seq(Lines)
        BY <1>1 DEF IInv, TypeOK, DecayTypes, SaveTypes
      <3>3. Len(file) <= Len(baseline) /\ SubSeq(baseline, 1, Len(file)) = file
        BY <1>1, <3>2, PrefixIsSubSeq DEF IInv, FileIsPrefix
      <3>4. QED
        BY <3>1, <3>3
    <2>2. ASSUME ~\E s \in Savers : WriteFile(s)
          PROVE  UNCHANGED file
      <3>1. ASSUME NEW s \in Savers, SaveStep(s)
            PROVE  UNCHANGED file
        BY <2>2, <3>1 DEF SaveStep, LockForSave, CreateFile, EncodeModel, SaveFails, diskVars
      <3>2. CASE Tick \/ AutoSaveStops
        BY <3>2 DEF Tick, AutoSaveStops, diskVars
      <3>3. QED
        BY <1>1, <3>1, <3>2, ReaderFrame, WorkersFrame, DecayFrame, MainFrame, EndedFrame
           DEF Next, beyondReader, beyondWorkers, beyondDecay, beyondMain, saveVars, diskVars
    <2>3. QED
      BY <2>1, <2>2
  <1>2. QED
    BY Invariance, <1>1, PTL DEF Spec, FileNeverRegresses

-----------------------------------------------------------------------------
(* Run implements the abstract detector.                                   *)

(* The detector's variables.                                               *)
Delivered == Lines \ undelivered
Pending == InHand \o decayUpdates

LEMMA ElemsConcat ==
  ASSUME NEW S, NEW q \in Seq(S), NEW r \in Seq(S)
  PROVE  Elems(q \o r) = Elems(q) \cup Elems(r)
  <1>1. /\ Len(q) \in Nat /\ Len(r) \in Nat
        /\ DOMAIN q = 1 .. Len(q) /\ DOMAIN r = 1 .. Len(r)
        /\ DOMAIN (q \o r) = 1 .. Len(q) + Len(r)
        /\ \A i \in 1 .. Len(q) : (q \o r)[i] = q[i]
        /\ \A i \in 1 .. Len(r) : (q \o r)[Len(q) + i] = r[i]
    OBVIOUS
  <1>2. ASSUME NEW i \in DOMAIN (q \o r)
        PROVE  (q \o r)[i] \in Elems(q) \cup Elems(r)
    <2>1. CASE i <= Len(q)
      BY <1>1, <2>1 DEF Elems
    <2>2. CASE i > Len(q)
      <3>1. i - Len(q) \in DOMAIN r /\ (q \o r)[i] = r[i - Len(q)]
        BY <1>1, <2>2
      <3>2. QED
        BY <3>1 DEF Elems
    <2>3. QED
      BY <1>1, <2>1, <2>2
  <1>3. ASSUME NEW i \in DOMAIN q
        PROVE  q[i] \in Elems(q \o r)
    BY <1>1 DEF Elems
  <1>4. ASSUME NEW i \in DOMAIN r
        PROVE  r[i] \in Elems(q \o r)
    <2>1. Len(q) + i \in DOMAIN (q \o r) /\ r[i] = (q \o r)[Len(q) + i]
      BY <1>1
    <2>2. QED
      BY <2>1 DEF Elems
  <1>5. QED
    BY <1>2, <1>3, <1>4 DEF Elems

(* What was accepted is what the detector has taken.                       *)
LEMMA TakenIsAccepted ==
  ASSUME IInv
  PROVE  Detector!Taken = Elems(accepted)
  <1>1. /\ baseline \in Seq(Lines) /\ decayUpdates \in Seq(Lines)
        /\ InHand \in Seq(Lines)
    BY DEF IInv, TypeOK, DecayTypes, InHand
  <1>2. Detector!Taken = Elems(Pending) \cup Elems(baseline)
    BY DEF Detector!Taken, Elems, Pending
  <1>3. Elems(Pending) = Elems(InHand) \cup Elems(decayUpdates)
    BY <1>1, ElemsConcat DEF Pending
  <1>4. accepted = (baseline \o InHand) \o decayUpdates
    BY DEF IInv, UpdatesInOrder
  <1>5. baseline \o InHand \in Seq(Lines)
    BY <1>1
  <1>6. Elems(accepted) = Elems(baseline \o InHand) \cup Elems(decayUpdates)
    BY <1>1, <1>4, <1>5, ElemsConcat
  <1>7. Elems(baseline \o InHand) = Elems(baseline) \cup Elems(InHand)
    BY <1>1, ElemsConcat
  <1>8. QED
    BY <1>2, <1>3, <1>6, <1>7

(* A step that changes none of the detector's variables.                   *)
LEMMA Stutters ==
  ASSUME UNCHANGED <<undelivered, verdict, Pending, baseline, file, Stopped>>
  PROVE  UNCHANGED Detector!vars
  BY DEF Detector!vars, Pending

LEMMA ReaderImplements ==
  ASSUME IInv, Workers # {}, Cancel \/ CloseStream \/ \E l \in Lines : Deliver(l)
  PROVE  [Detector!Next]_(Detector!vars)
  <1>1. UNCHANGED <<verdict, InHand, Pending, baseline, file, Stopped>>
    BY ReaderFrame
       DEF beyondReader, workerVars, decayVars, saveVars, diskVars, InHand, Pending, Stopped
  <1>2. CASE Cancel \/ CloseStream
    BY <1>1, <1>2, Stutters DEF Cancel, CloseStream
  <1>3. ASSUME NEW l \in Lines, Deliver(l)
        PROVE  Detector!Deliver(l)
    <2>1. ~Stopped
      BY <1>3 DEF Deliver, IInv, ShutdownOrder, Joined, Stopped
    <2>2. l \notin Delivered /\ Delivered' = Delivered \cup {l}
      BY <1>3 DEF Deliver, Delivered
    <2>3. QED
      BY <1>1, <2>1, <2>2 DEF Detector!Deliver, Delivered, Pending
  <1>4. QED
    BY <1>2, <1>3 DEF Detector!Next

LEMMA WorkersImplement ==
  ASSUME IInv, NEW w \in Workers, WorkerStep(w) \/ NotifyReturns(w)
  PROVE  [Detector!Next]_(Detector!vars)
  <1> DEFINE l == workerLine[w]
  <1>1. UNCHANGED <<undelivered, InHand, baseline, file, Stopped>>
    BY WorkersFrame
       DEF beyondWorkers, readerVars, decayVars, saveVars, diskVars, InHand, Stopped
  <1>2. workerPC[w] # "done" => ~Stopped
    BY DEF IInv, ShutdownOrder, Joined, Stopped
  <1>3. workerPC[w] \in {"compare", "offer"} => l \in Lines
    BY DEF IInv, TypeOK, PoolTypes
  <1> HIDE DEF l
  <1>4. CASE UNCHANGED <<verdict, decayUpdates>>
    BY <1>1, <1>4, Stutters DEF Pending
  <1>5. CASE Receive(w)
    <2> DEFINE k == Head(logsStream)
    <2>1. CASE k \in Blank
      <3>1. k \in Lines /\ k \notin undelivered /\ verdict[k] = "none"
        <4>1. 1 \in DOMAIN logsStream /\ k = logsStream[1] /\ k \in Lines
          BY <1>5 DEF Receive, IInv, TypeOK, StreamTypes
        <4>2. QED
          BY <4>1 DEF IInv, LinesOnce, Unjudged
      <3>2. /\ verdict' = [verdict EXCEPT ![k] = "blank"]
            /\ UNCHANGED decayUpdates
            /\ workerPC[w] = "range"
        BY <1>5, <2>1 DEF Receive
      <3>3. Detector!Judge(k)
        BY <1>1, <1>2, <2>1, <3>1, <3>2
           DEF Detector!Judge, Detector!Outcomes, Pending
      <3>4. QED
        BY <3>1, <3>3 DEF Detector!Next
    <2>2. CASE k \notin Blank
      BY <1>4, <1>5, <2>2 DEF Receive
    <2>3. QED
      BY <2>1, <2>2
  <1>6. CASE JudgeAnomaly(w) \/ JudgeHealthy(w)
    <2>1. /\ workerPC[w] = "compare"
          /\ UNCHANGED decayUpdates
          /\ \E v \in {"anomaly", "healthy"} : verdict' = [verdict EXCEPT ![l] = v]
      BY <1>6 DEF JudgeAnomaly, JudgeHealthy, l
    <2>2. l \in Lines /\ l \notin undelivered /\ l \notin Blank /\ verdict[l] = "none"
      BY <1>3, <2>1 DEF IInv, LinesOnce, Unjudged, l
    <2>3. Detector!Judge(l)
      BY <1>1, <1>2, <2>1, <2>2 DEF Detector!Judge, Detector!Outcomes, Pending
    <2>4. QED
      BY <2>2, <2>3 DEF Detector!Next
  <1>7. CASE OfferAccepted(w)
    <2>1. /\ workerPC[w] = "offer"
          /\ decayUpdates' = Append(decayUpdates, l)
          /\ UNCHANGED verdict
      BY <1>7 DEF OfferAccepted, l
    <2>2. l \in Lines /\ verdict[l] = "healthy" /\ l \notin Detector!Taken
      BY <1>3, <2>1, TakenIsAccepted DEF IInv, LinesOnce, l
    <2>3. Pending' = Append(Pending, l)
      <3>1. InHand \in Seq(Lines) /\ decayUpdates \in Seq(Lines)
        BY DEF IInv, TypeOK, DecayTypes, InHand
      <3>2. InHand \o Append(decayUpdates, l) = Append(InHand \o decayUpdates, l)
        BY ONLY <2>2, <3>1
      <3>3. QED
        BY <1>1, <2>1, <3>2 DEF Pending
    <2>4. Detector!Accept(l)
      BY <1>1, <1>2, <2>1, <2>2, <2>3 DEF Detector!Accept, Pending
    <2>5. QED
      BY <2>2, <2>4 DEF Detector!Next
  <1>8. CASE RangeEnds(w) \/ OfferShed(w) \/ NotifyReturns(w)
    BY <1>4, <1>8 DEF RangeEnds, OfferShed, NotifyReturns
  <1>9. QED
    BY <1>5, <1>6, <1>7, <1>8 DEF WorkerStep

LEMMA DecayImplements ==
  ASSUME IInv, DecayStep
  PROVE  [Detector!Next]_(Detector!vars)
  <1>1. UNCHANGED <<undelivered, verdict, file, Stopped>>
    BY DecayFrame DEF DecayStep, TakeUpdate, LockForUpdate, UpdateBaseline, BroadcastBaseline,
       UpdatesEnd, beyondDecay, readerVars, workerVars, saveVars, diskVars, Stopped,
       beyondSavers
  <1>2. decayUpdates \in Seq(Lines) /\ (decayPC \in {"lock", "blend"} => decayVec \in Lines)
    BY DEF IInv, TypeOK, DecayTypes
  <1>3. CASE TakeUpdate
    <2>1. /\ InHand = <<>> /\ InHand' = <<Head(decayUpdates)>>
          /\ decayUpdates # <<>> /\ decayUpdates' = Tail(decayUpdates)
          /\ UNCHANGED baseline
      BY <1>3 DEF TakeUpdate, InHand
    <2>2. <<>> \o decayUpdates = <<Head(decayUpdates)>> \o Tail(decayUpdates)
      BY ONLY <1>2, <2>1
    <2>3. QED
      BY <1>1, <2>1, <2>2, Stutters DEF Pending
  <1>4. CASE UpdateBaseline
    <2>1. /\ InHand = <<decayVec>> /\ InHand' = <<>>
          /\ baseline' = Append(baseline, decayVec)
          /\ UNCHANGED decayUpdates
          /\ decayVec \in Lines
          /\ decayPC = "blend"
      BY <1>2, <1>4 DEF UpdateBaseline, InHand
    <2>2. /\ <<decayVec>> \o decayUpdates # <<>>
          /\ Head(<<decayVec>> \o decayUpdates) = decayVec
          /\ Tail(<<decayVec>> \o decayUpdates) = <<>> \o decayUpdates
      BY ONLY <1>2, <2>1
    <2>3. ~Stopped
      BY <2>1 DEF IInv, ShutdownOrder
    <2>4. Detector!Learn
      BY <1>1, <2>1, <2>2, <2>3 DEF Detector!Learn, Pending
    <2>5. QED
      BY <2>4 DEF Detector!Next
  <1>5. CASE LockForUpdate \/ BroadcastBaseline \/ UpdatesEnd
    <2>1. UNCHANGED <<InHand, decayUpdates, baseline>>
      BY <1>5 DEF LockForUpdate, BroadcastBaseline, UpdatesEnd, InHand
    <2>2. QED
      BY <1>1, <2>1, Stutters DEF Pending
  <1>6. QED
    BY <1>3, <1>4, <1>5 DEF DecayStep

LEMMA SaversImplement ==
  ASSUME IInv, Tick \/ AutoSaveStops \/ \E s \in Savers : SaveStep(s)
  PROVE  [Detector!Next]_(Detector!vars)
  <1>1. UNCHANGED <<undelivered, verdict, Pending, baseline, Stopped>>
    BY SaversFrame
       DEF beyondSavers, readerVars, workerVars, decayVars, Pending, InHand, Stopped
  <1>2. CASE UNCHANGED file
    BY <1>1, <1>2, Stutters
  <1>3. ASSUME NEW s \in Savers, WriteFile(s)
        PROVE  Detector!Next
    <2>1. file' = baseline
      BY <1>3 DEF WriteFile, IInv, DiskFollowsModel, TornOnlyUnderLock
    <2>2. QED
      BY <1>1, <2>1 DEF Detector!Next, Detector!Store, Pending
  <1>4. ASSUME NEW s \in Savers, SaveStep(s), ~WriteFile(s)
        PROVE  UNCHANGED file
    BY <1>4 DEF SaveStep, LockForSave, CreateFile, EncodeModel, SaveFails, diskVars
  <1>5. CASE Tick \/ AutoSaveStops
    BY <1>2, <1>5 DEF Tick, AutoSaveStops, diskVars
  <1>6. QED
    BY <1>2, <1>3, <1>4, <1>5

LEMMA MainImplements ==
  ASSUME IInv, Workers # {}, MainStep
  PROVE  [Detector!Next]_(Detector!vars)
  <1>1. UNCHANGED <<undelivered, verdict, InHand, decayUpdates, Pending, baseline, file>>
    BY MainFrame
       DEF beyondMain, readerVars, workerVars, decayVars, diskVars, InHand, Pending
  <1>2. CASE UNCHANGED Stopped
    BY <1>1, <1>2, Stutters
  <1>3. CASE ~UNCHANGED Stopped
    <2>1. /\ \A w \in Workers : workerPC[w] = "done"
          /\ decayPC = "done"
          /\ Stopped' = TRUE
      BY <1>3 DEF MainStep, OpenStream, OpenFails, WorkersJoined, UpdatesDrained,
         BeginFinalSave, RunReturns, Exit, Stopped, IInv, ShutdownOrder, Joined
    <2>2. logsStream = <<>> /\ decayUpdates = <<>>
      BY <2>1 DEF IInv, ShutdownOrder
    <2>3. Pending = <<>>
      <3>1. InHand = <<>>
        BY <2>1 DEF InHand
      <3>2. <<>> \o <<>> = <<>>
        OBVIOUS
      <3>3. QED
        BY <2>2, <3>1, <3>2 DEF Pending
    <2>4. \A l \in Delivered : verdict[l] # "none"
      BY <2>1, <2>2 DEF IInv, NothingForgotten, Elems, Delivered
    <2>5. Detector!Stop
      BY <1>1, <2>1, <2>3, <2>4 DEF Detector!Stop, Pending, Delivered
    <2>6. QED
      BY <2>5 DEF Detector!Next
  <1>4. QED
    BY <1>2, <1>3

(* Whatever the goroutines do, it is a step of the abstract detector or    *)
(* none: lines are delivered and judged once, learned at most once and in  *)
(* the order of acceptance, the model stored is a model there was, and Run *)
(* stops owing nothing.  Without workers (--workers 0) it would not be so. *)
THEOREM RunImplementsDetector ==
  ASSUME Workers # {}
  PROVE  Spec => ImplementsDetector
  <1>1. Init => Detector!Init
    <2> SUFFICES ASSUME Init PROVE Detector!Init
      OBVIOUS
    <2>1. InHand = <<>> /\ decayUpdates = <<>> /\ <<>> \o <<>> = <<>>
      BY DEF Init, InHand
    <2>2. InHand \o decayUpdates = <<>>
      BY <2>1
    <2>3. QED
      BY <2>2 DEF Init, Detector!Init, Stopped
  <1>2. IInv /\ [Next]_vars => [Detector!Next]_(Detector!vars)
    <2>1. ASSUME IInv, Ended \/ UNCHANGED vars
          PROVE  UNCHANGED Detector!vars
      BY <2>1, EndedFrame, Stutters DEF beyondReader, readerVars, workerVars, decayVars,
         saveVars, diskVars, Pending, InHand, Stopped
    <2>2. QED
      BY <2>1, ReaderImplements, WorkersImplement, DecayImplements, SaversImplement,
         MainImplements DEF Next
  <1>3. QED
    BY <1>1, <1>2, Invariance, PTL DEF Spec, ImplementsDetector, Detector!Spec
=============================================================================
