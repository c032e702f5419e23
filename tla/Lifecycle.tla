------------------------------ MODULE Lifecycle ------------------------------
(***************************************************************************)
(* One machine over many runs of cortex train, infer and auto, and the     *)
(* file cortex.kv they leave to each other (cmd/cortex/command, GobStore). *)
(*                                                                         *)
(* Save creates, which empties the file, and then encodes: whatever stops  *)
(* the process in between leaves a file that exists and does not decode.   *)
(* One process runs at a time.  What it does while it serves is Inference; *)
(* here it only learns, from its lines and from peers, and saves.          *)
(***************************************************************************)
EXTENDS Naturals

CONSTANTS
  NoModel,     \* no knowledge base, no file
  Torn,        \* a file that does not decode
  MaxStarts,   \* bound on the runs of the program
  MaxLearned,  \* bound on the updates a model takes from the node's lines
  MaxReceived, \* bound on the updates a model takes from peers
  MaxMishaps   \* bound on kills and failed reads and writes

ASSUME LifecycleAssumption ==
  /\ {MaxStarts, MaxLearned, MaxReceived, MaxMishaps} \subseteq Nat
  /\ NoModel \notin [gen : Nat, learned : Nat, received : Nat]
  /\ Torn \notin [gen : Nat, learned : Nat, received : Nat] \cup {NoModel}

VARIABLES
  disk,       \* cortex.kv: a model, Torn, or NoModel where there is no file
  saved,      \* history: the model it last held
  due,        \* history: what a run that was told to stop had learned by then
  pc,         \* where the process is; "down" when there is none
  command,    \* what was started
  given,      \* --threshold: not given, given as 0.65, another value
  decay,      \* --decay-rate is positive
  p2p,        \* --p2p, a flag of infer
  kb,         \* the knowledge base in memory
  threshold,  \* what Inference is made with
  after,      \* where the process goes on when Save returns
  starts,     \* number of starts, which also names the trainings
  mishaps     \* number of mishaps so far

config == <<command, given, decay, p2p>>
vars == <<disk, saved, due, pc, config, kb, threshold, after, starts, mishaps>>

(* Trained by the start of that number, 0 being a file of before           *)
(* auto-tuning; with so many updates of its own and of peers blended in.   *)
(* That two of them made at once may cost one is in KnowledgeBase.         *)
Model == [gen : 0 .. MaxStarts, learned : 0 .. MaxLearned, received : 0 .. MaxReceived]

Trained(gen) == [gen |-> gen, learned |-> 0, received |-> 0]

(* m is n with what was learned since.                                     *)
Extends(m, n) == m.gen = n.gen /\ m.learned >= n.learned /\ m.received >= n.received

Init ==
  /\ disk \in {NoModel, Trained(0)}
  /\ saved = disk
  /\ due = NoModel
  /\ pc = "down"
  /\ command = "auto" /\ given = "none" /\ decay = FALSE /\ p2p = FALSE
  /\ kb = NoModel
  /\ threshold = "none"
  /\ after = "down"
  /\ starts = 0
  /\ mishaps = 0

-----------------------------------------------------------------------------
(* Starting.                                                               *)

(* The operator, or the supervisor again.                                  *)
Start ==
  /\ pc = "down"
  /\ starts < MaxStarts
  /\ starts' = starts + 1
  /\ command' \in {"auto", "infer", "train"}
  /\ given' \in {"none", "0.65", "other"}
  /\ decay' \in BOOLEAN
  /\ p2p' \in (IF command' = "infer" THEN BOOLEAN ELSE {FALSE})
  /\ pc' = CASE command' = "auto" -> "stat"
             [] command' = "infer" -> "load"
             [] command' = "train" -> "train"
  /\ kb' = NoModel
  /\ due' = NoModel
  /\ UNCHANGED <<disk, saved, threshold, after, mishaps>>

(* Mutant of Stat: train whether or not there is a file.                   *)
StatRetrains ==
  /\ pc = "stat"
  /\ pc' = "train"
  /\ UNCHANGED <<disk, saved, due, config, kb, threshold, after, starts, mishaps>>

(* auto trains only when there is no file.                                 *)
Stat ==
  /\ pc = "stat"
  /\ pc' = IF disk = NoModel THEN "train" ELSE "load"
  /\ UNCHANGED <<disk, saved, due, config, kb, threshold, after, starts, mishaps>>

(* Mutant of Train: the model is not saved.                                *)
TrainUnsaved ==
  /\ pc = "train"
  /\ kb' = Trained(starts)
  /\ pc' = IF command = "auto" THEN "load" ELSE "down"
  /\ UNCHANGED <<disk, saved, due, config, threshold, after, starts, mishaps>>

(* The two passes over the files succeed; then Save.                       *)
Train ==
  /\ pc = "train"
  /\ kb' = Trained(starts)
  /\ pc' = "create"
  /\ after' = IF command = "auto" THEN "load" ELSE "down"
  /\ UNCHANGED <<disk, saved, due, config, threshold, starts, mishaps>>

(* Mutant of Effective: the stored threshold is taken even if it is 0.     *)
EffectiveUnset(model) ==
  IF given = "other" THEN "other" ELSE IF model.gen > 0 THEN "tuned" ELSE "zero"

(* SuggestedThreshold is positive in every model this version trained.     *)
Effective(model) ==
  IF model.gen > 0 /\ given \in {"none", "0.65"} THEN "tuned"
  ELSE IF given = "other" THEN "other" ELSE "0.65"

(* Mutant of Load: what cannot be decoded is an empty knowledge base.      *)
LoadAnything ==
  /\ pc = "load"
  /\ kb' = IF disk \in Model THEN disk ELSE Trained(0)
  /\ threshold' = Effective(kb')
  /\ pc' = "serve"
  /\ UNCHANGED <<disk, saved, due, config, after, starts, mishaps>>

(* Load, and the threshold; a file that is absent or torn ends the process.*)
(* With --p2p the gossip node is there from now on.                        *)
Load ==
  /\ pc = "load"
  /\ IF disk \in Model
     THEN pc' = "serve" /\ kb' = disk /\ threshold' = Effective(disk)
     ELSE pc' = "down" /\ UNCHANGED <<kb, threshold>>
  /\ UNCHANGED <<disk, saved, due, config, after, starts, mishaps>>

-----------------------------------------------------------------------------
(* Serving.                                                                *)

UpdateBaseline ==
  /\ pc = "serve"
  /\ decay
  /\ kb.learned < MaxLearned
  /\ kb' = [kb EXCEPT !.learned = @ + 1]
  /\ UNCHANGED <<disk, saved, due, pc, config, threshold, after, starts, mishaps>>

(* A peer's update is blended whatever the node's own rate is, and at any  *)
(* time, during saves and after the last one, until the node is shut down. *)
NotifyMsg ==
  /\ p2p
  /\ pc \in {"serve", "create", "write", "exit"}
  /\ kb.received < MaxReceived
  /\ kb' = [kb EXCEPT !.received = @ + 1]
  /\ UNCHANGED <<disk, saved, due, pc, config, threshold, after, starts, mishaps>>

(* The checkpoint is due.                                                  *)
Checkpoint ==
  /\ pc = "serve"
  /\ decay
  /\ pc' = "create"
  /\ after' = "serve"
  /\ UNCHANGED <<disk, saved, due, config, kb, threshold, starts, mishaps>>

(* Mutant of Stop: no final save without decay, as nothing was learned.    *)
StopSavesDecay ==
  /\ pc = "serve"
  /\ pc' = IF decay THEN "create" ELSE "exit"
  /\ after' = "exit"
  /\ due' = kb
  /\ UNCHANGED <<disk, saved, config, kb, threshold, starts, mishaps>>

(* A signal: the final save.                                               *)
Stop ==
  /\ pc = "serve"
  /\ pc' = "create"
  /\ after' = "exit"
  /\ due' = kb
  /\ UNCHANGED <<disk, saved, config, kb, threshold, starts, mishaps>>

(* Nobody waits for the checkpoint goroutine: it may save once more while  *)
(* the process is on its way out.                                          *)
LateCheckpoint ==
  /\ pc = "exit"
  /\ decay
  /\ pc' = "create"
  /\ after' = "down"
  /\ UNCHANGED <<disk, saved, due, config, kb, threshold, starts, mishaps>>

LateSave == pc \in {"create", "write"} /\ after = "down" /\ command # "train"

(* Run has returned: the gossip node is shut down, and main ends, whatever *)
(* the checkpoint goroutine is doing.                                      *)
Exit ==
  /\ pc = "exit" \/ LateSave
  /\ pc' = "down"
  /\ UNCHANGED <<disk, saved, due, config, kb, threshold, after, starts, mishaps>>

-----------------------------------------------------------------------------
(* GobStore.Save.                                                          *)

CreateFile ==
  /\ pc = "create"
  /\ disk' = Torn
  /\ pc' = "write"
  /\ UNCHANGED <<saved, due, config, kb, threshold, after, starts, mishaps>>

Encode ==
  /\ pc = "write"
  /\ disk' = kb
  /\ saved' = kb
  /\ pc' = after
  /\ UNCHANGED <<due, config, kb, threshold, after, starts, mishaps>>

-----------------------------------------------------------------------------
(* Mishaps.                                                                *)

Mishap ==
  /\ mishaps < MaxMishaps
  /\ mishaps' = mishaps + 1
  /\ due' = NoModel

(* SIGKILL, out of memory, power; also SIGTERM before the handler is there,*)
(* and an error of the gossip node, telemetry or reader that ends the run. *)
Kill ==
  /\ Mishap
  /\ pc # "down"
  /\ pc' = "down"
  /\ UNCHANGED <<disk, saved, config, kb, threshold, after, starts>>

(* No directory of logs, no line in it, or a read that fails.              *)
TrainFails ==
  /\ Mishap
  /\ pc = "train"
  /\ pc' = "down"
  /\ UNCHANGED <<disk, saved, config, kb, threshold, after, starts>>

(* The file cannot be created, or not be written to the end.  Training     *)
(* exits; inference ignores the error.                                     *)
SaveFails ==
  /\ Mishap
  /\ pc \in {"create", "write"}
  /\ pc' = IF after = "load" THEN "down" ELSE after
  /\ UNCHANGED <<disk, saved, config, kb, threshold, after, starts>>

Idle == pc = "down" /\ starts = MaxStarts /\ UNCHANGED vars

ProcessStep == Stat \/ Train \/ Load \/ CreateFile \/ Encode \/ Exit

Next ==
  \/ Start \/ ProcessStep
  \/ UpdateBaseline \/ NotifyMsg \/ Checkpoint \/ Stop \/ LateCheckpoint
  \/ Kill \/ TrainFails \/ SaveFails
  \/ Idle

Spec == Init /\ [][Next]_vars

(* A process that can go on does; when it stops, learns or saves is open.  *)
FairSpec == Spec /\ WF_vars(ProcessStep)

-----------------------------------------------------------------------------
(* Properties.                                                             *)

TypeOK ==
  /\ disk \in Model \cup {NoModel, Torn}
  /\ saved \in Model \cup {NoModel}
  /\ due \in Model \cup {NoModel}
  /\ pc \in {"down", "stat", "train", "load", "serve", "create", "write", "exit"}
  /\ command \in {"auto", "infer", "train"}
  /\ given \in {"none", "0.65", "other"}
  /\ decay \in BOOLEAN
  /\ p2p \in BOOLEAN
  /\ kb \in Model \cup {NoModel}
  /\ threshold \in {"none", "0.65", "tuned", "other"}
  /\ after \in {"down", "load", "serve", "exit"}
  /\ starts \in 0 .. MaxStarts
  /\ mishaps \in 0 .. MaxMishaps

(* A process that serves, up to its exit and in the middle of every save,  *)
(* has the model the file last held and what it learned since, never an    *)
(* empty or half-read one, one of another training, or an older one.       *)
Serving ==
  \/ pc \in {"serve", "exit"}
  \/ pc \in {"create", "write"} /\ (after \in {"serve", "exit"} \/ LateSave)

ServesStoredModel ==
  Serving => saved # NoModel /\ Extends(kb, saved)

(* Across restarts, kills and failed saves, whenever auto or infer leave a *)
(* model in the file, it extends the one the file held last, if there ever *)
(* was one: training anew is up to train.  (A save that is cut off or      *)
(* fails leaves no model: then all is lost, until train.)                  *)
LearningSurvives ==
  [][disk' # disk /\ disk' \in Model /\ saved # NoModel /\ command # "train" =>
       Extends(disk', saved)]_vars

(* A signal loses nothing: when a run without a mishap has ended, with     *)
(* decay or without, the file holds all it had learned from its lines and  *)
(* from peers when it was told to stop, unless the exit cut off the        *)
(* checkpoint goroutine.                                                   *)
SignalKeepsModel ==
  pc \in {"exit", "down"} /\ due # NoModel =>
    \/ disk \in Model /\ Extends(disk, due)
    \/ disk = Torn /\ pc = "down" /\ decay

(* Without a mishap, auto trains if need be and serves.                    *)
BootsWhole ==
  \A n \in 0 .. MaxMishaps :
    (pc = "stat" /\ disk # Torn /\ mishaps = n) ~> (pc = "serve" \/ mishaps > n)

(* "Auto-trains on first boot if knowledge base is missing, then monitors" *)
(* (main.go:62): as long as none was ever saved, a start without a mishap  *)
(* trains one.  A first save that is cut off leaves a file at which every  *)
(* later start gives up.                                                   *)
AutoTrainsIfMissing ==
  \A n \in 0 .. MaxMishaps :
    (pc = "stat" /\ saved = NoModel /\ mishaps = n) ~> (pc = "serve" \/ mishaps > n)

-----------------------------------------------------------------------------
(* The inductive invariant.                                                *)

(* The file is what was last saved, but for a save under way or cut off;   *)
(* there is none only where none was ever saved.                           *)
FileHistory ==
  /\ disk \in {saved, Torn}
  /\ pc = "write" => disk = Torn

(* Who may train and save: auto only when nothing was ever saved.          *)
TrainingStarts ==
  /\ pc = "stat" => command = "auto"
  /\ pc = "train" /\ command # "train" => command = "auto" /\ saved = NoModel
  /\ pc \in {"create", "write", "serve", "exit"} => kb # NoModel
  /\ pc \in {"create", "write"} /\ after = "load" => command = "auto" /\ saved = NoModel
  /\ pc \in {"create", "write"} /\ command = "train" => after = "down"
  /\ pc \in {"load", "serve", "exit"} => command # "train"
  /\ p2p => command = "infer"

(* What a stopped run owes the file: it is in memory until the exit, and   *)
(* in the file once the final save is made.                                *)
DueKept ==
  /\ LateSave => decay
  /\ due # NoModel =>
       /\ pc \in {"create", "write", "exit", "down"}
       /\ command # "train"
       /\ pc \in {"create", "write"} => after \in {"exit", "down"}
       /\ pc # "down" => Extends(kb, due)
       /\ pc = "create" /\ LateSave => disk \in Model /\ Extends(disk, due)

IInv ==
  /\ TypeOK
  /\ FileHistory
  /\ TrainingStarts
  /\ ServesStoredModel
  /\ DueKept
  /\ SignalKeepsModel
=============================================================================
