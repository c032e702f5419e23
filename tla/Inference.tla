------------------------------ MODULE Inference ------------------------------
(***************************************************************************)
(* The detection pipeline of Inference.Run (internal/usecase/inference.go) *)
(* for one process: the log reader feeds the bounded channel logsStream;   *)
(* a pool of workers ranges over it, alerts on anomalies and offers every  *)
(* healthy vector to the bounded channel decayUpdates; one goroutine       *)
(* applies the offers to the baseline under Inference.mu; a ticker         *)
(* goroutine checkpoints the model under the same mutex; and Run itself    *)
(* joins them in order, saves once more, and returns to a main that exits. *)
(*                                                                         *)
(* A line is an identifier, and the vector EncodeLine makes of it is named *)
(* by the line.  Whether a vector is below the threshold depends on the    *)
(* baseline of the moment and is left open (JudgeAnomaly, JudgeHealthy).   *)
(* DecayBlend is not commutative, so a baseline is the sequence of updates *)
(* blended into the model that was loaded.  Updates arriving from peers    *)
(* (GossipNode.NotifyMsg) belong to module KnowledgeBase.                  *)
(***************************************************************************)
EXTENDS Naturals, Sequences, FiniteSets

CONSTANTS
  Lines,         \* the log entries the reader may deliver
  Blank,         \* those that are empty once trimmed
  Workers,       \* the worker goroutines (--workers)
  StreamCap,     \* capacity of logsStream (10000 in the reader)
  UpdatesCap,    \* capacity of decayUpdates (2000)
  MaxAutoSaves,  \* bound on the ticks of the checkpoint ticker
  DecayOn,       \* DecayRate > 0
  Persist,       \* Store # nil and dbFile # ""
  ClusterOn,     \* ClusterSync # nil
  TelemetryOn,   \* Telemetry # nil
  NoLine         \* "no line in hand"

ASSUME ConstantsAssumption ==
  /\ Blank \subseteq Lines
  /\ NoLine \notin Lines
  /\ StreamCap \in Nat \ {0}
  /\ UpdatesCap \in Nat \ {0}
  /\ MaxAutoSaves \in Nat
  /\ {DecayOn, Persist, ClusterOn, TelemetryOn} \subseteq BOOLEAN

VARIABLES
  cancelled,      \* ctx is done: a termination signal was received
  undelivered,    \* lines the reader has not put on logsStream
  logsStream,     \* contents of the channel
  streamClosed,   \* the reader closed it
  workerPC,       \* where each worker is
  workerLine,     \* the line each worker holds
  verdict,        \* what the workers decided about each line
  reported,       \* lines handed to Telemetry.ReportAnomaly
  accepted,       \* history: lines whose vector entered decayUpdates, in order
  decayUpdates,   \* contents of the channel
  updatesClosed,  \* Run closed it
  decayPC,        \* where the decay goroutine is
  decayVec,       \* the vector it holds
  baseline,       \* updates blended into the loaded model, in order
  broadcasts,     \* vectors handed to ClusterSync.BroadcastBaseline, in order
  mu,             \* holder of Inference.mu
  savePC,         \* where each saver is in GobStore.Save
  snapshot,       \* what each saver's Encode has read
  autoSaves,      \* ticks of the checkpoint ticker so far
  file,           \* model in the last completely written dbFile
  intact,         \* dbFile holds that model whole (not truncated)
  saveFailed,     \* some Save returned an error (the code ignores it)
  mainPC          \* where Run, and main after it, is

readerVars == <<cancelled, undelivered, streamClosed>>
workerVars == <<workerPC, workerLine, verdict, reported, accepted>>
decayVars  == <<decayPC, decayVec, baseline, broadcasts>>
diskVars   == <<autoSaves, file, intact, saveFailed>>
saveVars   == <<savePC, snapshot, diskVars>>
vars == <<readerVars, logsStream, workerVars, decayUpdates, updatesClosed,
          decayVars, mu, saveVars, mainPC>>

(* What each part of the pipeline leaves alone in all of its steps.        *)
beyondReader  == <<workerVars, decayUpdates, updatesClosed, decayVars, mu, saveVars, mainPC>>
beyondWorkers == <<readerVars, updatesClosed, decayVars, mu, saveVars, mainPC>>
beyondDecay   == <<readerVars, logsStream, workerVars, updatesClosed, saveVars, mainPC>>
beyondSavers  == <<readerVars, logsStream, workerVars, decayUpdates, updatesClosed, decayVars, mainPC>>
beyondMain    == <<readerVars, logsStream, workerVars, decayUpdates, decayVars, mu, snapshot, diskVars>>

Savers == {"auto", "final"}

StreamTypes ==
  /\ cancelled \in BOOLEAN
  /\ undelivered \subseteq Lines
  /\ logsStream \in Seq(Lines)
  /\ Len(logsStream) <= StreamCap
  /\ streamClosed \in BOOLEAN

PoolTypes ==
  /\ workerPC \in [Workers -> {"range", "compare", "notify", "offer", "done"}]
  /\ workerLine \in [Workers -> Lines \cup {NoLine}]
  /\ \A w \in Workers :
       workerPC[w] \in {"compare", "notify", "offer"} => workerLine[w] \in Lines
  /\ verdict \in [Lines -> {"none", "blank", "anomaly", "healthy"}]
  /\ reported \subseteq Lines
  /\ accepted \in Seq(Lines)

DecayTypes ==
  /\ decayUpdates \in Seq(Lines)
  /\ Len(decayUpdates) <= UpdatesCap
  /\ updatesClosed \in BOOLEAN
  /\ decayPC \in {"range", "lock", "blend", "broadcast", "done"}
  /\ decayVec \in Lines \cup {NoLine}
  /\ decayPC \in {"lock", "blend", "broadcast"} => decayVec \in Lines
  /\ baseline \in Seq(Lines)
  /\ broadcasts \in Seq(Lines)

SaveTypes ==
  /\ mu \in {"free", "decay"} \cup Savers
  /\ savePC \in [Savers -> {"idle", "lock", "create", "encode", "write", "done"}]
  /\ snapshot \in [Savers -> Seq(Lines)]
  /\ autoSaves \in 0 .. MaxAutoSaves
  /\ file \in Seq(Lines)
  /\ intact \in BOOLEAN
  /\ saveFailed \in BOOLEAN

TypeOK ==
  /\ StreamTypes
  /\ PoolTypes
  /\ DecayTypes
  /\ SaveTypes
  /\ mainPC \in {"open", "join", "drain", "save", "returned", "exited", "failed"}

(* Run has started its goroutines and the process has not exited.          *)
Running == mainPC \notin {"open", "exited", "failed"}

Init ==
  /\ cancelled = FALSE
  /\ undelivered = Lines
  /\ logsStream = <<>>
  /\ streamClosed = FALSE
  /\ workerPC = [w \in Workers |-> "range"]
  /\ workerLine = [w \in Workers |-> NoLine]
  /\ verdict = [l \in Lines |-> "none"]
  /\ reported = {}
  /\ accepted = <<>>
  /\ decayUpdates = <<>>
  /\ updatesClosed = FALSE
  /\ decayPC = IF DecayOn THEN "range" ELSE "done"
  /\ decayVec = NoLine
  /\ baseline = <<>>
  /\ broadcasts = <<>>
  /\ mu = "free"
  /\ savePC = [s \in Savers |->
                 IF s = "auto" /\ ~(DecayOn /\ Persist) THEN "done" ELSE "idle"]
  /\ snapshot = [s \in Savers |-> <<>>]
  /\ autoSaves = 0
  /\ file = <<>>
  /\ intact = TRUE
  /\ saveFailed = FALSE
  /\ mainPC = "open"

-----------------------------------------------------------------------------
(* The log reader and the termination signal, as Run sees them.            *)

(* SIGINT or SIGTERM: RunWithGracefulShutdown cancels ctx, once.           *)
Cancel ==
  /\ mainPC \notin {"exited", "failed"}
  /\ ~cancelled
  /\ cancelled' = TRUE
  /\ UNCHANGED <<undelivered, streamClosed, logsStream, beyondReader>>

(* Mutant of Deliver: the send has a default branch.                       *)
DeliverOrDrop(l) ==
  /\ Running
  /\ ~streamClosed
  /\ l \in undelivered
  /\ undelivered' = undelivered \ {l}
  /\ logsStream' = IF Len(logsStream) < StreamCap THEN Append(logsStream, l) ELSE logsStream
  /\ UNCHANGED <<cancelled, streamClosed, beyondReader>>

(* A tailer's blocking send: it waits while the channel is full.           *)
Deliver(l) ==
  /\ Running
  /\ ~streamClosed
  /\ l \in undelivered
  /\ Len(logsStream) < StreamCap
  /\ undelivered' = undelivered \ {l}
  /\ logsStream' = Append(logsStream, l)
  /\ UNCHANGED <<cancelled, streamClosed, beyondReader>>

(* Every tailer has returned, on ctx or because its tail died; what it had *)
(* not yet sent is never delivered.                                        *)
CloseStream ==
  /\ Running
  /\ ~streamClosed
  /\ streamClosed' = TRUE
  /\ UNCHANGED <<cancelled, undelivered, logsStream, beyondReader>>

-----------------------------------------------------------------------------
(* The worker pool.                                                        *)

(* The next line of the range; a blank one is skipped.                     *)
Receive(w) ==
  LET l == Head(logsStream) IN
  /\ workerPC[w] = "range"
  /\ logsStream # <<>>
  /\ logsStream' = Tail(logsStream)
  /\ IF l \in Blank
     THEN /\ verdict' = [verdict EXCEPT ![l] = "blank"]
          /\ UNCHANGED <<workerPC, workerLine>>
     ELSE /\ workerPC' = [workerPC EXCEPT ![w] = "compare"]
          /\ workerLine' = [workerLine EXCEPT ![w] = l]
          /\ UNCHANGED verdict
  /\ UNCHANGED <<reported, accepted, decayUpdates, beyondWorkers>>

(* Mutant of RangeEnds: workers leave when ctx is done.                    *)
LeaveOnCancel(w) ==
  /\ workerPC[w] = "range"
  /\ cancelled
  /\ workerPC' = [workerPC EXCEPT ![w] = "done"]
  /\ UNCHANGED <<logsStream, workerLine, verdict, reported, accepted,
                 decayUpdates, beyondWorkers>>

(* The channel is closed and empty: the range ends and wg.Done runs.       *)
RangeEnds(w) ==
  /\ workerPC[w] = "range"
  /\ streamClosed
  /\ logsStream = <<>>
  /\ workerPC' = [workerPC EXCEPT ![w] = "done"]
  /\ UNCHANGED <<logsStream, workerLine, verdict, reported, accepted,
                 decayUpdates, beyondWorkers>>

(* End of the loop body: the worker holds no line any more.                *)
BackToRange(w) ==
  /\ workerPC' = [workerPC EXCEPT ![w] = "range"]
  /\ workerLine' = [workerLine EXCEPT ![w] = NoLine]

(* Below the threshold: the alert goes out and the worker is inside        *)
(* Notify until the webhook has answered.                                  *)
JudgeAnomaly(w) ==
  /\ workerPC[w] = "compare"
  /\ verdict' = [verdict EXCEPT ![workerLine[w]] = "anomaly"]
  /\ workerPC' = [workerPC EXCEPT ![w] = "notify"]
  /\ UNCHANGED <<logsStream, workerLine, reported, accepted, decayUpdates,
                 beyondWorkers>>

(* Notify returned (its error is ignored) and the anomaly is reported.     *)
NotifyReturns(w) ==
  /\ Running
  /\ workerPC[w] = "notify"
  /\ reported' = IF TelemetryOn THEN reported \cup {workerLine[w]} ELSE reported
  /\ BackToRange(w)
  /\ UNCHANGED <<logsStream, verdict, accepted, decayUpdates, beyondWorkers>>

(* At or above it: with decay on, the vector is offered for learning.      *)
JudgeHealthy(w) ==
  /\ workerPC[w] = "compare"
  /\ verdict' = [verdict EXCEPT ![workerLine[w]] = "healthy"]
  /\ IF DecayOn
     THEN /\ workerPC' = [workerPC EXCEPT ![w] = "offer"]
          /\ UNCHANGED workerLine
     ELSE BackToRange(w)
  /\ UNCHANGED <<logsStream, reported, accepted, decayUpdates, beyondWorkers>>

(* Mutant of OfferAccepted: the channel has no bound.                      *)
OfferUnbounded(w) ==
  /\ workerPC[w] = "offer"
  /\ decayUpdates' = Append(decayUpdates, workerLine[w])
  /\ accepted' = Append(accepted, workerLine[w])
  /\ BackToRange(w)
  /\ UNCHANGED <<logsStream, verdict, reported, beyondWorkers>>

(* The non-blocking send: taken while there is room ...                    *)
OfferAccepted(w) ==
  /\ workerPC[w] = "offer"
  /\ Len(decayUpdates) < UpdatesCap
  /\ decayUpdates' = Append(decayUpdates, workerLine[w])
  /\ accepted' = Append(accepted, workerLine[w])
  /\ BackToRange(w)
  /\ UNCHANGED <<logsStream, verdict, reported, beyondWorkers>>

(* Mutant of OfferShed: the oldest update is dropped for the new one.      *)
ShedOldest(w) ==
  /\ workerPC[w] = "offer"
  /\ Len(decayUpdates) = UpdatesCap
  /\ decayUpdates' = Append(Tail(decayUpdates), workerLine[w])
  /\ accepted' = Append(accepted, workerLine[w])
  /\ BackToRange(w)
  /\ UNCHANGED <<logsStream, verdict, reported, beyondWorkers>>

(* ... and dropped when the channel is saturated.                          *)
OfferShed(w) ==
  /\ workerPC[w] = "offer"
  /\ Len(decayUpdates) = UpdatesCap
  /\ BackToRange(w)
  /\ UNCHANGED <<logsStream, verdict, reported, accepted, decayUpdates,
                 beyondWorkers>>

WorkerStep(w) ==
  /\ Running
  /\ \/ Receive(w) \/ RangeEnds(w) \/ JudgeAnomaly(w) \/ JudgeHealthy(w)
     \/ OfferAccepted(w) \/ OfferShed(w)

-----------------------------------------------------------------------------
(* The decay goroutine.                                                    *)

TakeUpdate ==
  /\ decayPC = "range"
  /\ decayUpdates # <<>>
  /\ decayVec' = Head(decayUpdates)
  /\ decayUpdates' = Tail(decayUpdates)
  /\ decayPC' = "lock"
  /\ UNCHANGED <<baseline, broadcasts, mu, beyondDecay>>

LockForUpdate ==
  /\ decayPC = "lock"
  /\ mu = "free"
  /\ mu' = "decay"
  /\ decayPC' = "blend"
  /\ UNCHANGED <<decayUpdates, decayVec, baseline, broadcasts, beyondDecay>>

(* Mutant of UpdateBaseline: the unlock is missing.                        *)
UpdateKeepsLock ==
  /\ decayPC = "blend"
  /\ baseline' = Append(baseline, decayVec)
  /\ decayPC' = IF ClusterOn THEN "broadcast" ELSE "range"
  /\ UNCHANGED <<decayUpdates, decayVec, broadcasts, mu, beyondDecay>>

(* kb.UpdateBaseline and the unlock that follows it.                       *)
UpdateBaseline ==
  /\ decayPC = "blend"
  /\ baseline' = Append(baseline, decayVec)
  /\ mu' = "free"
  /\ decayPC' = IF ClusterOn THEN "broadcast" ELSE "range"
  /\ UNCHANGED <<decayUpdates, decayVec, broadcasts, beyondDecay>>

BroadcastBaseline ==
  /\ decayPC = "broadcast"
  /\ broadcasts' = Append(broadcasts, decayVec)
  /\ decayPC' = "range"
  /\ UNCHANGED <<decayUpdates, decayVec, baseline, mu, beyondDecay>>

(* Mutant of UpdatesEnd: what is queued when the channel closes is left.   *)
EndAtClose ==
  /\ decayPC = "range"
  /\ updatesClosed
  /\ decayPC' = "done"
  /\ UNCHANGED <<decayUpdates, decayVec, baseline, broadcasts, mu, beyondDecay>>

UpdatesEnd ==
  /\ decayPC = "range"
  /\ updatesClosed
  /\ decayUpdates = <<>>
  /\ decayPC' = "done"
  /\ UNCHANGED <<decayUpdates, decayVec, baseline, broadcasts, mu, beyondDecay>>

DecayStep ==
  /\ Running
  /\ \/ TakeUpdate \/ LockForUpdate \/ UpdateBaseline \/ BroadcastBaseline
     \/ UpdatesEnd

-----------------------------------------------------------------------------
(* Saving the model: the checkpoint goroutine ("auto") and the save at the *)
(* end of Run ("final") both call GobStore.Save under Inference.mu.        *)

Tick ==
  /\ Running
  /\ savePC["auto"] = "idle"
  /\ autoSaves < MaxAutoSaves
  /\ autoSaves' = autoSaves + 1
  /\ savePC' = [savePC EXCEPT !["auto"] = "lock"]
  /\ UNCHANGED <<mu, snapshot, file, intact, saveFailed, beyondSavers>>

(* The goroutine's select saw ctx.Done; nothing waits for it to return.    *)
AutoSaveStops ==
  /\ Running
  /\ cancelled
  /\ savePC["auto"] = "idle"
  /\ savePC' = [savePC EXCEPT !["auto"] = "done"]
  /\ UNCHANGED <<mu, snapshot, diskVars, beyondSavers>>

(* Mutant of LockForSave: the mutex is ignored.                            *)
SaveUnlocked(s) ==
  /\ savePC[s] = "lock"
  /\ mu' = s
  /\ savePC' = [savePC EXCEPT ![s] = "create"]
  /\ UNCHANGED <<snapshot, diskVars, beyondSavers>>

LockForSave(s) ==
  /\ savePC[s] = "lock"
  /\ mu = "free"
  /\ mu' = s
  /\ savePC' = [savePC EXCEPT ![s] = "create"]
  /\ UNCHANGED <<snapshot, diskVars, beyondSavers>>

(* Save returned: unlock, and go back to the ticker or on to return.       *)
SaveReturns(s) ==
  /\ mu' = "free"
  /\ savePC' = [savePC EXCEPT ![s] = IF s = "auto" THEN "idle" ELSE "done"]

(* os.Create truncates whatever dbFile held.                               *)
CreateFile(s) ==
  /\ savePC[s] = "create"
  /\ intact' = FALSE
  /\ savePC' = [savePC EXCEPT ![s] = "encode"]
  /\ UNCHANGED <<mu, snapshot, autoSaves, file, saveFailed, beyondSavers>>

(* gob reads the model into its message buffer ...                         *)
EncodeModel(s) ==
  /\ savePC[s] = "encode"
  /\ snapshot' = [snapshot EXCEPT ![s] = baseline]
  /\ savePC' = [savePC EXCEPT ![s] = "write"]
  /\ UNCHANGED <<mu, diskVars, beyondSavers>>

(* ... and then writes that message to the file.                           *)
WriteFile(s) ==
  /\ savePC[s] = "write"
  /\ file' = snapshot[s]
  /\ intact' = TRUE
  /\ SaveReturns(s)
  /\ UNCHANGED <<snapshot, autoSaves, saveFailed, beyondSavers>>

(* os.Create or the write fails; a failed write leaves a truncated file.   *)
SaveFails(s) ==
  /\ savePC[s] \in {"create", "write"}
  /\ saveFailed' = TRUE
  /\ SaveReturns(s)
  /\ UNCHANGED <<snapshot, autoSaves, file, intact, beyondSavers>>

SaveStep(s) ==
  /\ Running
  /\ \/ LockForSave(s) \/ CreateFile(s) \/ EncodeModel(s) \/ WriteFile(s)
     \/ SaveFails(s)

-----------------------------------------------------------------------------
(* Run itself, and main after it.                                          *)

OpenStream ==
  /\ mainPC = "open"
  /\ mainPC' = "join"
  /\ UNCHANGED <<updatesClosed, savePC, beyondMain>>

(* ReadLogs returned an error: Run returns it and nothing was started.     *)
OpenFails ==
  /\ mainPC = "open"
  /\ mainPC' = "failed"
  /\ UNCHANGED <<updatesClosed, savePC, beyondMain>>

(* Nothing is left to drain: go on to the final save, if there is a store. *)
BeginFinalSave ==
  /\ mainPC' = IF Persist THEN "save" ELSE "returned"
  /\ savePC' = IF Persist THEN [savePC EXCEPT !["final"] = "lock"] ELSE savePC

(* Mutant of WorkersJoined: no wg.Wait, only an empty and closed stream.   *)
CloseUnjoined ==
  /\ mainPC = "join"
  /\ streamClosed /\ logsStream = <<>>
  /\ DecayOn
  /\ updatesClosed' = TRUE
  /\ mainPC' = "drain"
  /\ UNCHANGED <<savePC, beyondMain>>

(* wg.Wait returned.                                                       *)
WorkersJoined ==
  /\ mainPC = "join"
  /\ \A w \in Workers : workerPC[w] = "done"
  /\ IF DecayOn
     THEN /\ updatesClosed' = TRUE
          /\ mainPC' = "drain"
          /\ UNCHANGED savePC
     ELSE /\ BeginFinalSave
          /\ UNCHANGED updatesClosed
  /\ UNCHANGED beyondMain

(* Mutant of UpdatesDrained: no decayWg.Wait.                              *)
DrainSkipped ==
  /\ mainPC = "drain"
  /\ BeginFinalSave
  /\ UNCHANGED <<updatesClosed, beyondMain>>

(* decayWg.Wait returned.                                                  *)
UpdatesDrained ==
  /\ mainPC = "drain"
  /\ decayPC = "done"
  /\ BeginFinalSave
  /\ UNCHANGED <<updatesClosed, beyondMain>>

RunReturns ==
  /\ mainPC = "save"
  /\ savePC["final"] = "done"
  /\ mainPC' = "returned"
  /\ UNCHANGED <<updatesClosed, savePC, beyondMain>>

(* main returns, and every goroutine stops where it is.                    *)
Exit ==
  /\ mainPC = "returned"
  /\ mainPC' = "exited"
  /\ UNCHANGED <<updatesClosed, savePC, beyondMain>>

MainStep ==
  \/ OpenStream \/ OpenFails \/ WorkersJoined \/ UpdatesDrained
  \/ RunReturns \/ Exit

(* The process is gone.                                                    *)
Ended ==
  /\ mainPC \in {"exited", "failed"}
  /\ UNCHANGED vars

-----------------------------------------------------------------------------
Next ==
  \/ Cancel
  \/ \E l \in Lines : Deliver(l)
  \/ CloseStream
  \/ \E w \in Workers : WorkerStep(w) \/ NotifyReturns(w)
  \/ DecayStep
  \/ Tick
  \/ AutoSaveStops
  \/ \E s \in Savers : SaveStep(s)
  \/ MainStep
  \/ Ended

Spec == Init /\ [][Next]_vars

(***************************************************************************)
(* The Go scheduler runs every goroutine that can run, and sync.Mutex      *)
(* hands itself to waiters, so each goroutine is weakly fair.  A reader    *)
(* whose ctx is done closes its channel (module TailReader shows it does). *)
(* Nothing makes a signal arrive, a log line appear, or the ticker fire.   *)
(***************************************************************************)
SchedulerFairness ==
  /\ \A w \in Workers : WF_vars(WorkerStep(w))
  /\ WF_vars(DecayStep)
  /\ \A s \in Savers : WF_vars(SaveStep(s))
  /\ WF_vars(MainStep)
  /\ WF_vars(cancelled /\ CloseStream)

(* With a webhook that answers (or fails, or is not configured) each time. *)
FairSpec == Spec /\ SchedulerFairness /\ \A w \in Workers : WF_vars(NotifyReturns(w))

(* With one that may never answer: http.Post has no timeout.               *)
SilentWebhookSpec == Spec /\ SchedulerFairness

-----------------------------------------------------------------------------
(* Safety.                                                                 *)

Elems(s) == {s[i] : i \in DOMAIN s}

(* wg.Wait has returned.                                                   *)
Joined == mainPC \in {"drain", "save", "returned", "exited"}

(* ... and so has decayWg.Wait: nothing is left to detect or to learn.     *)
Stopped == mainPC \in {"save", "returned", "exited"}

(* What the decay goroutine has taken from the channel and not yet blended.*)
InHand == IF decayPC \in {"lock", "blend"} THEN <<decayVec>> ELSE <<>>

(* Closing decayUpdates while a worker can still send on it would panic:   *)
(* Run closes it only after wg.Wait (inference.go:224-226).                *)
NoSendOnClosed == \A w \in Workers : workerPC[w] = "offer" => ~updatesClosed

(* No worker loses or doubles a line: a delivered line without a verdict   *)
(* is exactly once in the channel or in the hands of exactly one worker,   *)
(* and one with a verdict is in neither place (range loop, 154-159).       *)
NoLineLost ==
  \A l \in Lines :
    LET queued == Cardinality({i \in DOMAIN logsStream : logsStream[i] = l})
        held == Cardinality({w \in Workers : workerPC[w] = "compare" /\ workerLine[w] = l})
    IN queued + held = IF l \notin undelivered /\ verdict[l] = "none" THEN 1 ELSE 0

(* Run returns only when everything the reader delivered was judged, every *)
(* anomaly was reported, and every accepted vector is in the model and was *)
(* handed to the cluster, in the model's order: the drain on shutdown,     *)
(* whatever was queued when the signal came (224-228).                     *)
GracefulDrain ==
  Stopped /\ Workers # {} =>
    /\ \A l \in Lines \ undelivered : verdict[l] # "none"
    /\ TelemetryOn => {l \in Lines : verdict[l] = "anomaly"} \subseteq reported
    /\ baseline = accepted
    /\ ClusterOn => broadcasts = accepted

(* Every vector that entered decayUpdates is blended once and in order:    *)
(* the model, the vector in hand and the channel make up all the offers    *)
(* the workers' select accepted (128-135, 213-217).                        *)
UpdatesInOrder == accepted = baseline \o InHand \o decayUpdates

(* A truncated dbFile, unless a Save failed, is a save in progress under   *)
(* the mutex, and what is being written is still the model: the decay      *)
(* goroutine and the other saver are kept out (115-117, 231-234).          *)
TornOnlyUnderLock ==
  /\ ~intact /\ ~saveFailed => mu \in Savers /\ savePC[mu] \in {"encode", "write"}
  /\ \A s \in Savers : savePC[s] = "write" => snapshot[s] = baseline

(* Once Run has returned, a dbFile that is whole holds every update the    *)
(* model ever accepted, even when the checkpoint goroutine saves after the *)
(* final save (230-236).                                                   *)
FinalModelCurrent ==
  mainPC \in {"returned", "exited"} /\ Persist /\ intact /\ ~saveFailed
    => file = accepted

(* No save replaces the model on disk by an older one (105-121, 230-236).  *)
FileNeverRegresses ==
  [][Len(file) <= Len(file') /\ SubSeq(file', 1, Len(file)) = file]_file

-----------------------------------------------------------------------------
(* The inductive invariant behind the theorems of module InferenceProofs.  *)

(* What each stage of the shutdown has already brought to an end.          *)
ShutdownOrder ==
  /\ updatesClosed <=> DecayOn /\ Joined
  /\ mainPC = "drain" => DecayOn
  /\ Joined => \A w \in Workers : workerPC[w] = "done"
  /\ \A w \in Workers : workerPC[w] = "done" => streamClosed /\ logsStream = <<>>
  /\ \A w \in Workers : workerPC[w] = "offer" => DecayOn
  /\ decayPC = "done" => decayUpdates = <<>> /\ (DecayOn => updatesClosed)
  /\ ~DecayOn => decayPC = "done"
  /\ Stopped => decayPC = "done"

(* The holder of Inference.mu is the one goroutine inside its section.     *)
LockHeld ==
  /\ mu = "decay" <=> decayPC = "blend"
  /\ \A s \in Savers : mu = s <=> savePC[s] \in {"create", "encode", "write"}

(* The final save runs after the drain, and Run returns after it.          *)
FinalSaveOrder ==
  /\ savePC["final"] = "idle" <=> ~(Stopped /\ Persist)
  /\ mainPC \in {"returned", "exited"} /\ Persist => savePC["final"] = "done"

(* The file against the model.                                             *)
DiskFollowsModel ==
  /\ TornOnlyUnderLock
  /\ savePC["final"] = "done" /\ intact /\ ~saveFailed => file = baseline

(* A delivered line is judged, queued or held; an anomaly is reported or   *)
(* its worker is still in Notify.                                          *)
NothingForgotten ==
  /\ \A l \in Lines \ undelivered :
       verdict[l] = "none" =>
         \/ l \in Elems(logsStream)
         \/ \E w \in Workers : workerPC[w] = "compare" /\ workerLine[w] = l
  /\ \A l \in Lines :
       TelemetryOn /\ verdict[l] = "anomaly" =>
         \/ l \in reported
         \/ \E w \in Workers : workerPC[w] = "notify" /\ workerLine[w] = l

(* Peers are sent the model's own updates, in the order they were blended, *)
(* and lag by at most the one being sent.                                  *)
BroadcastsFollowBaseline ==
  /\ ~ClusterOn => decayPC # "broadcast"
  /\ ClusterOn =>
       baseline = IF decayPC = "broadcast" THEN Append(broadcasts, decayVec) ELSE broadcasts

(* A line is in one place of the pipeline at a time, and goes through it   *)
(* once.                                                                   *)
Unjudged(l) == l \notin undelivered /\ verdict[l] = "none"

LinesOnce ==
  /\ \A l \in undelivered : verdict[l] = "none"
  /\ \A i \in DOMAIN logsStream : Unjudged(logsStream[i])
  /\ \A i, j \in DOMAIN logsStream : logsStream[i] = logsStream[j] => i = j
  /\ \A w \in Workers : workerPC[w] = "compare" =>
       Unjudged(workerLine[w]) /\ workerLine[w] \notin Elems(logsStream) \cup Blank
  /\ \A w \in Workers : workerPC[w] = "offer" =>
       verdict[workerLine[w]] = "healthy" /\ workerLine[w] \notin Elems(accepted)
  /\ \A v, w \in Workers :
       /\ workerPC[v] = workerPC[w] /\ workerPC[v] \in {"compare", "offer"}
       /\ workerLine[v] = workerLine[w]
       => v = w
  /\ \A l \in Elems(accepted) : verdict[l] = "healthy"

(* What was saved is where the model was at some time.                     *)
FileIsPrefix ==
  /\ Len(file) <= Len(baseline)
  /\ \A i \in 1 .. Len(file) : file[i] = baseline[i]

IInv ==
  /\ TypeOK
  /\ ShutdownOrder
  /\ LockHeld
  /\ FinalSaveOrder
  /\ UpdatesInOrder
  /\ DiskFollowsModel
  /\ NothingForgotten
  /\ BroadcastsFollowBaseline
  /\ LinesOnce
  /\ FileIsPrefix

-----------------------------------------------------------------------------
(* Liveness, under FairSpec.                                               *)

(* A signal brings the process down, whatever was queued: no goroutine Run *)
(* joins can be stuck behind another (224-236).                            *)
ShutdownCompletes == cancelled ~> mainPC \in {"exited", "failed"}

(* Every line the reader delivered is judged (154-219).                    *)
DeliveredIsJudged ==
  \A l \in Lines : (l \notin undelivered) ~> (verdict[l] # "none")

(* Every accepted vector reaches the model, also when the signal arrives   *)
(* while it is queued or the checkpoint holds the mutex (128-135, 225-228).*)
AcceptedIsLearned ==
  \A l \in Lines : (l \in Elems(accepted)) ~> (l \in Elems(baseline))

-----------------------------------------------------------------------------
(* Run's final save as its comment has it, "Save baseline synchronously at *)
(* the very end of inference run" (230): the process leaves a whole model  *)
(* behind.  Nothing joins the checkpoint goroutine, so it can truncate     *)
(* dbFile after the final save and be cut off by the exit.                 *)
FinalSaveIsLast == mainPC = "exited" /\ Persist /\ ~saveFailed => intact

-----------------------------------------------------------------------------
(* Run implements the abstract detector of module Detection.               *)
Detector == INSTANCE Detection WITH
  delivered <- Lines \ undelivered,
  pending   <- InHand \o decayUpdates,
  learned   <- baseline,
  stored    <- file,
  stopped   <- Stopped

(* Every step of the goroutines is a step of the detector, or none.        *)
ImplementsDetector == Detector!Spec
=============================================================================
