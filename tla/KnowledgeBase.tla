---------------------------- MODULE KnowledgeBase ----------------------------
(***************************************************************************)
(* The knowledge base as the memory its users share                        *)
(* (internal/domain/knowledge_base.go), with the three mutexes they take:  *)
(*   kb.mu    GetLetterVector, BestSimilarity, UpdateBaseline              *)
(*   i.mu     the decay goroutine and GobStore.Save (usecase/inference.go) *)
(*   node.mu  NotifyMsg, for updates from peers (p2p/gossip.go)            *)
(*                                                                         *)
(* An HVector is an array that is copied word by word; two words stand for *)
(* its 157.  A word holds the set of updates blended into it.  Which       *)
(* cluster is nearest to an update is left open, and one cluster stands    *)
(* for the single baseline.                                                *)
(***************************************************************************)
EXTENDS Naturals, FiniteSets

CONSTANTS
  Workers,       \* worker goroutines
  Handlers,      \* goroutines of memberlist that deliver peer messages
  Letters,       \* characters of the log lines
  Trained,       \* those the training run has met
  Clusters,      \* indices of kb.Baselines
  LocalUpdates,  \* healthy vectors the decay goroutine gets
  PeerUpdates,   \* vectors peers may send
  Arrivals,      \* the sets of updates that may arrive in one run
  MaxSaves,      \* bound on the ticks of the checkpoint ticker
  None           \* no goroutine, no vector, no letter

Words == {"lo", "hi"}
Updates == LocalUpdates \cup PeerUpdates
Blenders == {"decay"} \cup Handlers

ASSUME KnowledgeAssumption ==
  /\ Trained \subseteq Letters
  /\ LocalUpdates \cap PeerUpdates = {}
  /\ Clusters # {}
  /\ Arrivals \subseteq SUBSET Updates
  /\ MaxSaves \in Nat
  /\ None \notin Workers \cup Handlers \cup Letters \cup Clusters \cup Updates
  /\ {"decay", "save", "trained"} \cap (Workers \cup Handlers \cup {None}) = {}

VARIABLES
  itemMemory,  \* the vector of each letter, named by the worker that drew it
  issued,      \* history: what GetLetterVector has returned
  baseline,    \* each word of each cluster's baseline
  readers,     \* read holders of kb.mu
  writer,      \* the goroutine that holds kb.mu for writing or waits to
  iMu,         \* holder of Inference.mu
  nodeMu,      \* holder of GossipNode.mu
  workerPC,    \* where each worker is
  letter,      \* the letter it is looking up
  unread,      \* clusters BestSimilarity has not read yet
  seen,        \* the first word of the copy it compares with
  blendPC,     \* where each blender is
  update,      \* the update it is blending
  target,      \* the cluster it chose
  copy,        \* its copy of that cluster's baseline
  todo,        \* updates that arrive and that nobody has taken yet
  blended,     \* history: updates whose blend is complete
  savePC,      \* where the checkpoint goroutine is
  saves        \* ticks so far

letterVars == <<itemMemory, issued, letter>>
workerVars == <<letterVars, workerPC, unread, seen>>
blendVars  == <<baseline, blendPC, update, target, copy, todo, blended>>
saveVars   == <<savePC, saves>>
vars == <<workerVars, blendVars, saveVars, readers, writer, iMu, nodeMu>>

TypeOK ==
  /\ itemMemory \in [Letters -> Workers \cup {"trained", None}]
  /\ issued \subseteq Letters \X (Workers \cup {"trained"})
  /\ baseline \in [Clusters -> [Words -> SUBSET Updates]]
  /\ readers \subseteq Workers
  /\ writer \in Workers \cup {"decay", None}
  /\ iMu \in {"decay", "save", None}
  /\ nodeMu \in Handlers \cup {None}
  /\ workerPC \in [Workers -> {"encode", "lookup", "lock", "check", "insert",
                               "compare", "readHi"}]
  /\ letter \in [Workers -> Letters \cup {None}]
  /\ unread \in [Workers -> SUBSET Clusters]
  /\ seen \in [Workers -> SUBSET Updates]
  /\ blendPC \in [Blenders -> {"idle", "outer", "lock", "copyLo",
                                "copyHi", "storeLo", "storeHi"}]
  /\ update \in [Blenders -> Updates \cup {None}]
  /\ target \in [Blenders -> Clusters \cup {None}]
  /\ copy \in [Blenders -> [Words -> SUBSET Updates]]
  /\ todo \subseteq Updates
  /\ blended \subseteq Updates
  /\ savePC \in {"idle", "letters", "baselines"}
  /\ saves \in 0 .. MaxSaves

Blank == [w \in Words |-> {}]

Init ==
  /\ itemMemory = [l \in Letters |-> IF l \in Trained THEN "trained" ELSE None]
  /\ issued = {}
  /\ baseline = [c \in Clusters |-> Blank]
  /\ readers = {}
  /\ writer = None
  /\ iMu = None
  /\ nodeMu = None
  /\ workerPC = [w \in Workers |-> "encode"]
  /\ letter = [w \in Workers |-> None]
  /\ unread = [w \in Workers |-> {}]
  /\ seen = [w \in Workers |-> {}]
  /\ blendPC = [b \in Blenders |-> "idle"]
  /\ update = [b \in Blenders |-> None]
  /\ target = [b \in Blenders |-> None]
  /\ copy = [b \in Blenders |-> Blank]
  /\ todo \in Arrivals
  /\ blended = {}
  /\ savePC = "idle"
  /\ saves = 0
-----------------------------------------------------------------------------
(* kb.mu is a sync.RWMutex: Lock keeps new readers and writers out at once *)
(* and then waits for the readers that are inside.                         *)
RLock(p)   == writer = None /\ readers' = readers \cup {p} /\ UNCHANGED writer
RUnlock(p) == readers' = readers \ {p} /\ UNCHANGED writer
Lock(p)    == writer = None /\ writer' = p /\ UNCHANGED readers
Locked(p)  == writer = p /\ readers = {}
Unlock(p)  == writer' = None /\ UNCHANGED readers

beyondWorkers == <<blendVars, saveVars, iMu, nodeMu>>
beyondBlenders == <<workerVars, saveVars, readers>>
beyondSaver == <<workerVars, blendVars, readers, writer, nodeMu>>

-----------------------------------------------------------------------------
(* A worker: EncodeLine looks up the letters of a line, BestSimilarity     *)
(* compares its vector with every baseline.                                *)

StartLookup(w) ==
  /\ workerPC[w] = "encode"
  /\ RLock(w)
  /\ \E l \in Letters : letter' = [letter EXCEPT ![w] = l]
  /\ workerPC' = [workerPC EXCEPT ![w] = "lookup"]
  /\ UNCHANGED <<itemMemory, issued, unread, seen, beyondWorkers>>

(* GetLetterVector returns what itemMemory holds for the letter.           *)
ReturnLetter(w) ==
  /\ issued' = issued \cup {<<letter[w], itemMemory'[letter[w]]>>}
  /\ letter' = [letter EXCEPT ![w] = None]
  /\ workerPC' = [workerPC EXCEPT ![w] = "encode"]

(* Mutants of Lookup: the map is read without "exists"; the early return   *)
(* leaves the read lock behind.                                            *)
LookupUnchecked(w) ==
  /\ workerPC[w] = "lookup"
  /\ RUnlock(w)
  /\ issued' = issued \cup {<<letter[w], itemMemory[letter[w]]>>}
  /\ letter' = [letter EXCEPT ![w] = None]
  /\ workerPC' = [workerPC EXCEPT ![w] = "encode"]
  /\ UNCHANGED <<itemMemory, unread, seen, beyondWorkers>>

LookupLeaksLock(w) ==
  /\ workerPC[w] = "lookup"
  /\ UNCHANGED <<itemMemory, unread, seen, beyondWorkers>>
  /\ IF itemMemory[letter[w]] # None
     THEN ReturnLetter(w) /\ UNCHANGED <<readers, writer>>
     ELSE /\ RUnlock(w)
          /\ workerPC' = [workerPC EXCEPT ![w] = "lock"]
          /\ UNCHANGED <<issued, letter>>

(* The first look, under the read lock.                                    *)
Lookup(w) ==
  /\ workerPC[w] = "lookup"
  /\ RUnlock(w)
  /\ UNCHANGED <<itemMemory, unread, seen, beyondWorkers>>
  /\ IF itemMemory[letter[w]] # None
     THEN ReturnLetter(w)
     ELSE /\ workerPC' = [workerPC EXCEPT ![w] = "lock"]
          /\ UNCHANGED <<issued, letter>>

LockForInsert(w) ==
  /\ workerPC[w] = "lock"
  /\ Lock(w)
  /\ workerPC' = [workerPC EXCEPT ![w] = "check"]
  /\ UNCHANGED <<letterVars, unread, seen, beyondWorkers>>

(* The second look: another worker may have been faster.                   *)
FoundAfterAll(w) ==
  /\ workerPC[w] = "check"
  /\ Locked(w)
  /\ itemMemory[letter[w]] # None
  /\ UNCHANGED <<itemMemory, unread, seen, beyondWorkers>>
  /\ ReturnLetter(w)
  /\ Unlock(w)

(* Mutant of StillMissing: no second look.                                 *)
NoSecondLook(w) ==
  /\ workerPC[w] = "check"
  /\ Locked(w)
  /\ workerPC' = [workerPC EXCEPT ![w] = "insert"]
  /\ UNCHANGED <<letterVars, unread, seen, readers, writer, beyondWorkers>>

StillMissing(w) ==
  /\ workerPC[w] = "check"
  /\ Locked(w)
  /\ itemMemory[letter[w]] = None
  /\ workerPC' = [workerPC EXCEPT ![w] = "insert"]
  /\ UNCHANGED <<letterVars, unread, seen, readers, writer, beyondWorkers>>

(* Mutant of Insert: the deferred unlock is missing.                       *)
InsertKeepsLock(w) ==
  /\ workerPC[w] = "insert"
  /\ itemMemory' = [itemMemory EXCEPT ![letter[w]] = w]
  /\ ReturnLetter(w)
  /\ UNCHANGED <<unread, seen, readers, writer, beyondWorkers>>

(* The write to the map ends, with a vector that is this worker's.         *)
Insert(w) ==
  /\ workerPC[w] = "insert"
  /\ itemMemory' = [itemMemory EXCEPT ![letter[w]] = w]
  /\ ReturnLetter(w)
  /\ Unlock(w)
  /\ UNCHANGED <<unread, seen, beyondWorkers>>

StartCompare(w) ==
  /\ workerPC[w] = "encode"
  /\ RLock(w)
  /\ unread' = [unread EXCEPT ![w] = Clusters]
  /\ workerPC' = [workerPC EXCEPT ![w] = "compare"]
  /\ UNCHANGED <<letterVars, seen, beyondWorkers>>

(* Similarity is passed a copy of the baseline, made word by word.         *)
NextCluster(w) == CHOOSE c \in unread[w] : TRUE

ReadLo(w) ==
  /\ workerPC[w] = "compare"
  /\ unread[w] # {}
  /\ seen' = [seen EXCEPT ![w] = baseline[NextCluster(w)]["lo"]]
  /\ workerPC' = [workerPC EXCEPT ![w] = "readHi"]
  /\ UNCHANGED <<letterVars, unread, readers, writer, beyondWorkers>>

ReadHi(w) ==
  /\ workerPC[w] = "readHi"
  /\ seen' = [seen EXCEPT ![w] = {}]
  /\ unread' = [unread EXCEPT ![w] = @ \ {NextCluster(w)}]
  /\ workerPC' = [workerPC EXCEPT ![w] = "compare"]
  /\ UNCHANGED <<letterVars, readers, writer, beyondWorkers>>

EndCompare(w) ==
  /\ workerPC[w] = "compare"
  /\ unread[w] = {}
  /\ RUnlock(w)
  /\ workerPC' = [workerPC EXCEPT ![w] = "encode"]
  /\ UNCHANGED <<letterVars, unread, seen, beyondWorkers>>

(* What a worker does once it has started a call; the calls end.           *)
WorkerStep(w) ==
  \/ Lookup(w) \/ LockForInsert(w) \/ FoundAfterAll(w) \/ StillMissing(w) \/ Insert(w)
  \/ ReadLo(w) \/ ReadHi(w) \/ EndCompare(w)

-----------------------------------------------------------------------------
(* Blending an update: UpdateBaseline for the decay goroutine, under i.mu  *)
(* and kb.mu; NotifyMsg for a peer's message, under node.mu.               *)

GoTo(b, pc) == blendPC' = [blendPC EXCEPT ![b] = pc]

TakeUpdate(b) ==
  /\ blendPC[b] = "idle"
  /\ \E u \in todo \cap (IF b = "decay" THEN LocalUpdates ELSE PeerUpdates) :
       /\ update' = [update EXCEPT ![b] = u]
       /\ todo' = todo \ {u}
  /\ GoTo(b, "outer")
  /\ UNCHANGED <<baseline, target, copy, blended, writer, iMu, nodeMu, beyondBlenders>>

LockInference ==
  /\ blendPC["decay"] = "outer"
  /\ iMu = None
  /\ iMu' = "decay"
  /\ GoTo("decay", "lock")
  /\ UNCHANGED <<baseline, update, target, copy, todo, blended, writer, nodeMu, beyondBlenders>>

LockKB ==
  /\ blendPC["decay"] = "lock"
  /\ Lock("decay")
  /\ GoTo("decay", "copyLo")
  /\ UNCHANGED <<baseline, update, target, copy, todo, blended, iMu, nodeMu,
                 workerVars, saveVars>>

(* Mutant of LockNode: NotifyMsg takes no lock at all.                     *)
NodeUnlocked(h) ==
  /\ blendPC[h] = "outer"
  /\ nodeMu' = h
  /\ GoTo(h, "copyLo")
  /\ UNCHANGED <<baseline, update, target, copy, todo, blended, writer, iMu, beyondBlenders>>

LockNode(h) ==
  /\ blendPC[h] = "outer"
  /\ nodeMu = None
  /\ nodeMu' = h
  /\ GoTo(h, "copyLo")
  /\ UNCHANGED <<baseline, update, target, copy, todo, blended, writer, iMu, beyondBlenders>>

(* Mutant of CopyLo: the writer does not wait for the readers.             *)
CopyAtOnce(b) ==
  /\ blendPC[b] = "copyLo"
  /\ \E c \in Clusters :
       /\ target' = [target EXCEPT ![b] = c]
       /\ copy' = [copy EXCEPT ![b]["lo"] = baseline[c]["lo"]]
  /\ GoTo(b, "copyHi")
  /\ UNCHANGED <<baseline, update, todo, blended, writer, iMu, nodeMu, beyondBlenders>>

(* With the lock held, the nearest cluster is chosen and DecayBlend gets a *)
(* copy of it ...                                                          *)
CopyLo(b) ==
  /\ blendPC[b] = "copyLo"
  /\ b = "decay" => Locked(b)
  /\ \E c \in Clusters :
       /\ target' = [target EXCEPT ![b] = c]
       /\ copy' = [copy EXCEPT ![b]["lo"] = baseline[c]["lo"]]
  /\ GoTo(b, "copyHi")
  /\ UNCHANGED <<baseline, update, todo, blended, writer, iMu, nodeMu, beyondBlenders>>

CopyHi(b) ==
  /\ blendPC[b] = "copyHi"
  /\ copy' = [copy EXCEPT ![b]["hi"] = baseline[target[b]]["hi"]]
  /\ GoTo(b, "storeLo")
  /\ UNCHANGED <<baseline, update, target, todo, blended, writer, iMu, nodeMu, beyondBlenders>>

(* ... and its result is stored.                                           *)
StoreLo(b) ==
  /\ blendPC[b] = "storeLo"
  /\ baseline' = [baseline EXCEPT ![target[b]]["lo"] = copy[b]["lo"] \cup {update[b]}]
  /\ GoTo(b, "storeHi")
  /\ UNCHANGED <<update, target, copy, todo, blended, writer, iMu, nodeMu, beyondBlenders>>

StoreHi(b) ==
  /\ blendPC[b] = "storeHi"
  /\ baseline' = [baseline EXCEPT ![target[b]]["hi"] = copy[b]["hi"] \cup {update[b]}]
  /\ blended' = blended \cup {update[b]}
  /\ update' = [update EXCEPT ![b] = None]
  /\ target' = [target EXCEPT ![b] = None]
  /\ copy' = [copy EXCEPT ![b] = Blank]
  /\ IF b = "decay" THEN writer' = None /\ iMu' = None /\ UNCHANGED nodeMu
                    ELSE nodeMu' = None /\ UNCHANGED <<writer, iMu>>
  /\ GoTo(b, "idle")
  /\ UNCHANGED <<todo, beyondBlenders>>

BlendStep(b) ==
  \/ TakeUpdate(b) \/ CopyLo(b) \/ CopyHi(b) \/ StoreLo(b) \/ StoreHi(b)
  \/ b = "decay" /\ (LockInference \/ LockKB)
  \/ b \in Handlers /\ LockNode(b)

-----------------------------------------------------------------------------
(* A checkpoint: the ticker has fired and i.mu is free; Save walks the map *)
(* and then the baselines under i.mu only.                                 *)

SaveLocks ==
  /\ savePC = "idle"
  /\ saves < MaxSaves
  /\ iMu = None
  /\ iMu' = "save"
  /\ saves' = saves + 1
  /\ savePC' = "letters"
  /\ UNCHANGED beyondSaver

SaveLetters ==
  /\ savePC = "letters"
  /\ savePC' = "baselines"
  /\ UNCHANGED <<saves, iMu, beyondSaver>>

SaveBaselines ==
  /\ savePC = "baselines"
  /\ iMu' = None
  /\ savePC' = "idle"
  /\ UNCHANGED <<saves, beyondSaver>>

SaveStep == SaveLetters \/ SaveBaselines

-----------------------------------------------------------------------------
Next ==
  \/ \E w \in Workers : StartLookup(w) \/ StartCompare(w) \/ WorkerStep(w)
  \/ \E b \in Blenders : BlendStep(b)
  \/ SaveLocks
  \/ SaveStep

Spec == Init /\ [][Next]_vars

(* Goroutines are scheduled; no line, no message and no tick need come.    *)
FairSpec ==
  /\ Spec
  /\ \A w \in Workers : WF_vars(WorkerStep(w))
  /\ \A b \in Blenders : WF_vars(BlendStep(b))
  /\ WF_vars(SaveStep)

-----------------------------------------------------------------------------
(* Safety.                                                                 *)

(* A letter has one vector for good: all workers that ever asked for it    *)
(* got the one the map holds, however their lookups raced (26-45).         *)
LettersAgree ==
  \A i \in issued : itemMemory[i[1]] = i[2]

(* The updates taken so far, and whether they have come from one side only.*)
Started == blended \cup ({update[b] : b \in Blenders} \ {None})
Alone == Started \subseteq LocalUpdates
OneSided == Alone \/ Started \subseteq PeerUpdates

(* BestSimilarity compares with a baseline as some update left it, never   *)
(* with half of one and half of the next, while no peer interferes: kb.mu  *)
(* keeps the decay goroutine's stores out (50-64).                         *)
NoTornRead ==
  [][Alone => \A w \in Workers :
       ReadHi(w) => seen[w] = baseline[NextCluster(w)]["hi"]]_vars

InBaseline(u) == \E c \in Clusters : \A w \in Words : u \in baseline[c][w]

(* An update that was blended stays blended: no later one was computed     *)
(* from a baseline without it, while updates come from one side only, the  *)
(* decay goroutine or the peers' handlers (67-78, gossip.go:39-48).        *)
NoUpdateLost == OneSided => \A u \in blended : InBaseline(u)

(* The same with updates from both sides: UpdateBaseline "incorporates a   *)
(* new healthy vector into the baseline(s)" (66).  NotifyMsg holds node.mu *)
(* and not kb.mu, so either side may overwrite what the other stored.      *)
EveryUpdateKept == \A u \in blended : InBaseline(u)

(* Save writes the letters of one moment: "Save saves the entire knowledge *)
(* base" (gob_store.go:17).  It walks the map without kb.mu, and Go stops  *)
(* the process when a worker writes to the map meanwhile.                  *)
NoMapRace == savePC = "letters" => \A w \in Workers : workerPC[w] # "insert"

-----------------------------------------------------------------------------
(* The inductive invariant behind the theorems of KnowledgeBaseProofs.     *)

(* What each goroutine works on.                                           *)
WorkInHand ==
  /\ \A w \in Workers :
       /\ workerPC[w] \in {"lookup", "lock", "check", "insert"} => letter[w] \in Letters
       /\ workerPC[w] = "readHi" => unread[w] # {}
  /\ \A b \in Blenders :
       /\ update[b] \in (IF b = "decay" THEN LocalUpdates ELSE PeerUpdates) \cup {None}
       /\ blendPC[b] = "idle" <=> update[b] = None
       /\ blendPC[b] \in {"copyHi", "storeLo", "storeHi"} => target[b] \in Clusters

Blending(b) == blendPC[b] \in {"copyLo", "copyHi", "storeLo", "storeHi"}

(* Who is in a section holds its mutex, and a writer that goes on is alone.*)
LocksHeld ==
  /\ \A w \in Workers : w \in readers <=> workerPC[w] \in {"lookup", "compare", "readHi"}
  /\ \A w \in Workers : writer = w <=> workerPC[w] \in {"check", "insert"}
  /\ writer = "decay" <=> Blending("decay")
  /\ Blending("decay") /\ blendPC["decay"] # "copyLo" => readers = {}
  /\ \A h \in Handlers : nodeMu = h <=> Blending(h)

(* A letter is inserted only where the map has none.                       *)
InsertsNew ==
  \A w \in Workers : workerPC[w] = "insert" => itemMemory[letter[w]] = None

(* What a blender has copied is what it will replace.                      *)
CopyFresh ==
  OneSided => \A b \in Blenders : LET now == baseline[target[b]] IN
    /\ blendPC[b] \in {"copyHi", "storeLo"} => copy[b]["lo"] = now["lo"]
    /\ blendPC[b] \in {"storeLo", "storeHi"} => copy[b]["hi"] = now["hi"]
    /\ blendPC[b] = "storeHi" => now["lo"] = copy[b]["lo"] \cup {update[b]}

(* A baseline's words agree, but for the one the decay goroutine is about  *)
(* to store; a reader has seen the first word of what it is reading.       *)
WholeBaselines ==
  Alone =>
    /\ \A c \in Clusters :
         baseline[c]["lo"] = baseline[c]["hi"] \cup
           (IF blendPC["decay"] = "storeHi" /\ target["decay"] = c THEN {update["decay"]} ELSE {})
    /\ \A w \in Workers :
         workerPC[w] = "readHi" => seen[w] = baseline[NextCluster(w)]["lo"]

IInv ==
  /\ TypeOK
  /\ WorkInHand
  /\ LocksHeld
  /\ InsertsNew
  /\ LettersAgree
  /\ CopyFresh
  /\ NoUpdateLost
  /\ WholeBaselines

-----------------------------------------------------------------------------
(* Liveness, under FairSpec.                                               *)

(* However many readers come and go, and whatever the checkpoint holds,    *)
(* an update that was taken is blended: no lock cycle, no writer starved.  *)
UpdatesComplete == \A u \in Updates : u \in Started ~> u \in blended

(* ... and a worker that asked for a letter gets its vector.               *)
LookupsReturn == \A w \in Workers : workerPC[w] # "encode" ~> workerPC[w] = "encode"
=============================================================================
