------------------------- MODULE KnowledgeBaseProofs -------------------------
(* Theorems about KnowledgeBase for any workers, peers' handlers, letters, *)
(* clusters and updates.                                                   *)
EXTENDS KnowledgeBase, TLAPS

-----------------------------------------------------------------------------
(* What each kind of goroutine does, and leaves alone.                     *)

WorkerAction(w) == StartLookup(w) \/ StartCompare(w) \/ WorkerStep(w)

LEMMA NextCases ==
  ASSUME [Next]_vars
  PROVE  \/ \E w \in Workers : WorkerAction(w)
         \/ \E b \in Blenders : BlendStep(b)
         \/ SaveLocks \/ SaveStep
         \/ UNCHANGED vars
  BY DEF Next, WorkerAction

LEMMA WorkersFrame ==
  ASSUME NEW w \in Workers, WorkerAction(w)
  PROVE  UNCHANGED beyondWorkers
  BY DEF WorkerAction, WorkerStep, StartLookup, StartCompare, Lookup, LockForInsert,
         FoundAfterAll, StillMissing, Insert, ReadLo, ReadHi, EndCompare

LEMMA BlendersFrame ==
  ASSUME NEW b \in Blenders, BlendStep(b)
  PROVE  UNCHANGED beyondBlenders
  BY DEF BlendStep, TakeUpdate, LockInference, LockKB, Lock, LockNode, CopyLo, CopyHi,
         StoreLo, StoreHi, beyondBlenders

LEMMA SaverFrame ==
  ASSUME SaveLocks \/ SaveStep
  PROVE  UNCHANGED beyondSaver
  BY DEF SaveLocks, SaveStep, SaveLetters, SaveBaselines

-----------------------------------------------------------------------------
(* Types, and what each goroutine works on.                                *)

WorkerTypes ==
  /\ itemMemory \in [Letters -> Workers \cup {"trained", None}]
  /\ issued \subseteq Letters \X (Workers \cup {"trained"})
  /\ workerPC \in [Workers -> {"encode", "lookup", "lock", "check", "insert",
                               "compare", "readHi"}]
  /\ letter \in [Workers -> Letters \cup {None}]
  /\ unread \in [Workers -> SUBSET Clusters]
  /\ seen \in [Workers -> SUBSET Updates]
  /\ \A w \in Workers :
       /\ workerPC[w] \in {"lookup", "lock", "check", "insert"} => letter[w] \in Letters
       /\ workerPC[w] = "readHi" => unread[w] # {}

LockTypes ==
  /\ readers \subseteq Workers
  /\ writer \in Workers \cup {"decay", None}

BlenderTypes ==
  /\ baseline \in [Clusters -> [Words -> SUBSET Updates]]
  /\ blendPC \in [Blenders -> {"idle", "outer", "lock", "copyLo",
                                "copyHi", "storeLo", "storeHi"}]
  /\ update \in [Blenders -> Updates \cup {None}]
  /\ target \in [Blenders -> Clusters \cup {None}]
  /\ copy \in [Blenders -> [Words -> SUBSET Updates]]
  /\ todo \subseteq Updates
  /\ blended \subseteq Updates
  /\ nodeMu \in Handlers \cup {None}
  /\ \A b \in Blenders :
       /\ update[b] \in (IF b = "decay" THEN LocalUpdates ELSE PeerUpdates) \cup {None}
       /\ blendPC[b] = "idle" <=> update[b] = None
       /\ blendPC[b] \in {"copyHi", "storeLo", "storeHi"} => target[b] \in Clusters

SaverTypes ==
  /\ iMu \in {"decay", "save", None}
  /\ savePC \in {"idle", "letters", "baselines"}
  /\ saves \in 0 .. MaxSaves

Typed == WorkerTypes /\ LockTypes /\ BlenderTypes /\ SaverTypes

LEMMA TypedIsTypeOK == Typed <=> TypeOK /\ WorkInHand
  BY DEF Typed, WorkerTypes, LockTypes, BlenderTypes, SaverTypes, TypeOK, WorkInHand

LEMMA InitTyped ==
  ASSUME Init
  PROVE  Typed
  <1> USE DEF Init
  <1>1. WorkerTypes
    BY KnowledgeAssumption DEF WorkerTypes
  <1>2. LockTypes /\ SaverTypes
    BY KnowledgeAssumption DEF LockTypes, SaverTypes
  <1>3. BlenderTypes
    BY KnowledgeAssumption DEF BlenderTypes, Blank
  <1>4. QED
    BY <1>1, <1>2, <1>3 DEF Typed

LEMMA NextClusterIn ==
  ASSUME NEW w \in Workers, unread[w] # {}
  PROVE  NextCluster(w) \in unread[w]
  BY DEF NextCluster

(* A worker draws only its own vectors, and is given one that is there.    *)
LEMMA WorkerTyped ==
  ASSUME Typed, NEW w \in Workers, WorkerAction(w)
  PROVE  Typed'
  <1>1. BlenderTypes' /\ SaverTypes'
    BY WorkersFrame DEF beyondWorkers, blendVars, saveVars, Typed, BlenderTypes, SaverTypes
  <1>2. LockTypes'
    BY DEF Typed, LockTypes, WorkerAction, WorkerStep, StartLookup, StartCompare, Lookup,
       LockForInsert, FoundAfterAll, StillMissing, Insert, ReadLo, ReadHi, EndCompare,
       RLock, RUnlock, Lock, Unlock
  <1>3. WorkerTypes'
    <2> USE DEF Typed, WorkerTypes
    <2>1. CASE StartLookup(w)
      BY <2>1 DEF StartLookup
    <2>2. CASE Lookup(w)
      <3>1. letter[w] \in Letters /\ UNCHANGED itemMemory
        BY <2>2 DEF Lookup
      <3>2. CASE itemMemory[letter[w]] # None
        <4>1. <<letter[w], itemMemory[letter[w]]>> \in Letters \X (Workers \cup {"trained"})
          BY <3>1, <3>2
        <4>2. QED
          BY <2>2, <3>1, <3>2, <4>1 DEF Lookup, ReturnLetter
      <3>3. CASE itemMemory[letter[w]] = None
        BY <2>2, <3>1, <3>3 DEF Lookup
      <3>4. QED
        BY <3>2, <3>3
    <2>3. CASE LockForInsert(w)
      BY <2>3 DEF LockForInsert, letterVars
    <2>4. CASE FoundAfterAll(w)
      <3>1. letter[w] \in Letters /\ UNCHANGED itemMemory /\ itemMemory[letter[w]] # None
        BY <2>4 DEF FoundAfterAll
      <3>2. <<letter[w], itemMemory[letter[w]]>> \in Letters \X (Workers \cup {"trained"})
        BY <3>1
      <3>3. QED
        BY <2>4, <3>1, <3>2 DEF FoundAfterAll, ReturnLetter
    <2>5. CASE StillMissing(w)
      BY <2>5 DEF StillMissing, letterVars
    <2>6. CASE Insert(w)
      <3>1. letter[w] \in Letters /\ itemMemory' = [itemMemory EXCEPT ![letter[w]] = w]
        BY <2>6 DEF Insert
      <3>2. itemMemory'[letter[w]] = w
        BY <3>1
      <3>3. QED
        BY <2>6, <3>1, <3>2 DEF Insert, ReturnLetter
    <2>7. CASE StartCompare(w)
      BY <2>7 DEF StartCompare, letterVars
    <2>8. CASE ReadLo(w)
      <3>1. NextCluster(w) \in Clusters
        BY <2>8, NextClusterIn DEF ReadLo
      <3>2. baseline[NextCluster(w)]["lo"] \subseteq Updates
        BY <3>1 DEF BlenderTypes, Words
      <3>3. QED
        BY <2>8, <3>2 DEF ReadLo, letterVars
    <2>9. CASE ReadHi(w)
      BY <2>9 DEF ReadHi, letterVars
    <2>10. CASE EndCompare(w)
      BY <2>10 DEF EndCompare, letterVars
    <2>11. QED
      BY <2>1, <2>2, <2>3, <2>4, <2>5, <2>6, <2>7, <2>8, <2>9, <2>10
         DEF WorkerAction, WorkerStep
  <1>4. QED
    BY <1>1, <1>2, <1>3 DEF Typed

LEMMA BlenderTyped ==
  ASSUME Typed, NEW b \in Blenders, BlendStep(b)
  PROVE  Typed'
  <1>1. WorkerTypes'
    BY BlendersFrame DEF beyondBlenders, workerVars, letterVars, Typed, WorkerTypes
  <1>2. LockTypes' /\ SaverTypes'
    BY DEF Typed, LockTypes, SaverTypes, BlendStep, TakeUpdate, LockInference, LockKB, Lock,
       LockNode, CopyLo, CopyHi, StoreLo, StoreHi, beyondBlenders, saveVars
  <1>3. BlenderTypes'
    <2> USE DEF Typed, BlenderTypes, GoTo
    <2>1. CASE TakeUpdate(b)
      BY <2>1, KnowledgeAssumption DEF TakeUpdate, Updates
    <2>2. CASE b = "decay" /\ LockInference
      BY <2>2 DEF LockInference
    <2>3. CASE b = "decay" /\ LockKB
      BY <2>3 DEF LockKB
    <2>4. CASE b \in Handlers /\ LockNode(b)
      BY <2>4 DEF LockNode
    <2>5. CASE CopyLo(b)
      <3>1. PICK c \in Clusters : /\ target' = [target EXCEPT ![b] = c]
                                  /\ copy' = [copy EXCEPT ![b]["lo"] = baseline[c]["lo"]]
        BY <2>5 DEF CopyLo
      <3>2. baseline[c]["lo"] \subseteq Updates /\ "lo" \in Words
        BY DEF Words
      <3>3. copy' \in [Blenders -> [Words -> SUBSET Updates]]
        BY <3>1, <3>2
      <3>4. QED
        BY <2>5, <3>1, <3>3 DEF CopyLo
    <2>6. CASE CopyHi(b)
      <3>1. target[b] \in Clusters /\ "hi" \in Words
        BY <2>6 DEF CopyHi, Words
      <3>2. baseline[target[b]]["hi"] \subseteq Updates
        BY <3>1
      <3>3. copy' \in [Blenders -> [Words -> SUBSET Updates]]
        BY <2>6, <3>1, <3>2 DEF CopyHi
      <3>4. QED
        BY <2>6, <3>3 DEF CopyHi
    <2>7. CASE StoreLo(b) \/ StoreHi(b)
      <3>1. /\ target[b] \in Clusters /\ {"lo", "hi"} = Words
            /\ update[b] \in Updates
        BY <2>7 DEF StoreLo, StoreHi, Words
      <3>2. \A x \in Words : copy[b][x] \cup {update[b]} \in SUBSET Updates
        BY <3>1
      <3>3. baseline' \in [Clusters -> [Words -> SUBSET Updates]]
        <4>1. ASSUME NEW x \in Words, NEW v \in SUBSET Updates,
                     baseline' = [baseline EXCEPT ![target[b]][x] = v]
              PROVE  baseline' \in [Clusters -> [Words -> SUBSET Updates]]
          BY <3>1, <4>1
        <4>2. PICK x \in Words : baseline' =
                [baseline EXCEPT ![target[b]][x] = copy[b][x] \cup {update[b]}]
          BY <2>7, <3>1 DEF StoreLo, StoreHi
        <4> DEFINE v == copy[b][x] \cup {update[b]}
        <4>3. v \in SUBSET Updates /\ baseline' = [baseline EXCEPT ![target[b]][x] = v]
          BY <3>2, <4>2
        <4> HIDE DEF v
        <4>4. QED
          BY <4>1, <4>3
      <3>4. CASE StoreLo(b)
        BY <3>3, <3>4 DEF StoreLo
      <3>5. CASE StoreHi(b)
        <4>1. copy' \in [Blenders -> [Words -> SUBSET Updates]]
          BY <3>5 DEF StoreHi, Blank
        <4>2. QED
          BY <3>1, <3>3, <3>5, <4>1 DEF StoreHi
      <3>6. QED
        BY <2>7, <3>4, <3>5
    <2>8. QED
      BY <2>1, <2>2, <2>3, <2>4, <2>5, <2>6, <2>7 DEF BlendStep
  <1>4. QED
    BY <1>1, <1>2, <1>3 DEF Typed

LEMMA SaverTyped ==
  ASSUME Typed, SaveLocks \/ SaveStep
  PROVE  Typed'
  <1>1. WorkerTypes' /\ LockTypes' /\ BlenderTypes'
    BY SaverFrame DEF beyondSaver, workerVars, letterVars, blendVars, Typed, WorkerTypes,
       LockTypes, BlenderTypes
  <1>2. SaverTypes'
    BY KnowledgeAssumption DEF Typed, SaverTypes, SaveLocks, SaveStep, SaveLetters, SaveBaselines
  <1>3. QED
    BY <1>1, <1>2 DEF Typed

LEMMA TypedKept ==
  ASSUME Typed, [Next]_vars
  PROVE  Typed'
  <1>1. CASE UNCHANGED vars
    BY <1>1 DEF vars, workerVars, letterVars, blendVars, saveVars, Typed, WorkerTypes,
       LockTypes, BlenderTypes, SaverTypes
  <1>2. QED
    BY <1>1, NextCases, WorkerTyped, BlenderTyped, SaverTyped

(* Every variable keeps its type: lookups return vectors, copies and       *)
(* baselines hold updates only.                                            *)
THEOREM TypeCorrect == Spec => []TypeOK
  <1>1. Spec => []Typed
    BY InitTyped, TypedKept, PTL DEF Spec
  <1>2. Typed => TypeOK
    BY TypedIsTypeOK
  <1>3. QED
    BY <1>1, <1>2, PTL

-----------------------------------------------------------------------------
(* The locks, and the letters.                                             *)

LEMMA InitInv ==
  ASSUME Init
  PROVE  IInv
  <1>1. Typed
    BY InitTyped
  <1>2. LocksHeld
    BY <1>1, KnowledgeAssumption
       DEF Init, LocksHeld, Blending, Typed, WorkerTypes, Blenders
  <1>3. InsertsNew /\ LettersAgree
    BY DEF Init, InsertsNew, LettersAgree
  <1>4. CopyFresh /\ NoUpdateLost
    BY DEF Init, CopyFresh, NoUpdateLost
  <1>5. WholeBaselines
    BY DEF Init, WholeBaselines, Blank, Words, Blenders
  <1>6. QED
    BY <1>1, <1>2, <1>3, <1>4, <1>5, TypedIsTypeOK DEF IInv

LEMMA WorkerLocks ==
  ASSUME Typed, LocksHeld, NEW w \in Workers, WorkerAction(w)
  PROVE  LocksHeld'
  <1> USE KnowledgeAssumption
      DEF LocksHeld, Blending, Typed, WorkerTypes, LockTypes, RLock, RUnlock, Lock, Unlock, Locked
  <1>1. UNCHANGED <<blendPC, nodeMu>>
    BY WorkersFrame DEF beyondWorkers, blendVars
  <1>2. CASE StartLookup(w)
    BY <1>1, <1>2 DEF StartLookup
  <1>3. CASE Lookup(w)
    BY <1>1, <1>3 DEF Lookup, ReturnLetter
  <1>4. CASE LockForInsert(w)
    BY <1>1, <1>4 DEF LockForInsert
  <1>5. CASE FoundAfterAll(w)
    BY <1>1, <1>5 DEF FoundAfterAll, ReturnLetter
  <1>6. CASE StillMissing(w)
    BY <1>1, <1>6 DEF StillMissing
  <1>7. CASE Insert(w)
    BY <1>1, <1>7 DEF Insert, ReturnLetter
  <1>8. CASE StartCompare(w)
    BY <1>1, <1>8 DEF StartCompare
  <1>9. CASE ReadLo(w)
    BY <1>1, <1>9 DEF ReadLo
  <1>10. CASE ReadHi(w)
    BY <1>1, <1>10 DEF ReadHi
  <1>11. CASE EndCompare(w)
    BY <1>1, <1>11 DEF EndCompare
  <1>12. QED
    BY <1>2, <1>3, <1>4, <1>5, <1>6, <1>7, <1>8, <1>9, <1>10, <1>11
       DEF WorkerAction, WorkerStep

LEMMA BlenderLocks ==
  ASSUME Typed, LocksHeld, NEW b \in Blenders, BlendStep(b)
  PROVE  LocksHeld'
  <1> USE KnowledgeAssumption
      DEF LocksHeld, Blending, Typed, BlenderTypes, LockTypes, Blenders, GoTo, Lock, Locked
  <1>1. UNCHANGED <<readers, workerPC>>
    BY BlendersFrame DEF beyondBlenders, workerVars
  <1>2. CASE TakeUpdate(b)
    BY <1>1, <1>2 DEF TakeUpdate
  <1>3. CASE b = "decay" /\ LockInference
    BY <1>1, <1>3 DEF LockInference
  <1>4. CASE b = "decay" /\ LockKB
    BY <1>1, <1>4 DEF LockKB
  <1>5. CASE b \in Handlers /\ LockNode(b)
    BY <1>1, <1>5 DEF LockNode
  <1>6. CASE CopyLo(b)
    BY <1>1, <1>6 DEF CopyLo
  <1>7. CASE CopyHi(b)
    BY <1>1, <1>7 DEF CopyHi
  <1>8. CASE StoreLo(b)
    BY <1>1, <1>8 DEF StoreLo
  <1>9. CASE StoreHi(b)
    BY <1>1, <1>9 DEF StoreHi
  <1>10. QED
    BY <1>2, <1>3, <1>4, <1>5, <1>6, <1>7, <1>8, <1>9 DEF BlendStep

LEMMA LocksKept ==
  ASSUME Typed, LocksHeld, [Next]_vars
  PROVE  LocksHeld'
  <1>1. CASE SaveLocks \/ SaveStep \/ UNCHANGED vars
    BY <1>1, SaverFrame DEF vars, beyondSaver, workerVars, blendVars, LocksHeld, Blending
  <1>2. QED
    BY <1>1, NextCases, WorkerLocks, BlenderLocks

(* Two workers with the same letter: the second look is under the lock.    *)
LEMMA LettersKept ==
  ASSUME Typed, LocksHeld, InsertsNew, LettersAgree, [Next]_vars
  PROVE  InsertsNew' /\ LettersAgree'
  <1> USE DEF InsertsNew, LettersAgree
  <1>1. CASE UNCHANGED <<itemMemory, issued, workerPC, letter>>
    BY <1>1
  <1>2. ASSUME NEW w \in Workers, WorkerAction(w)
        PROVE  InsertsNew' /\ LettersAgree'
    <2> USE DEF Typed, WorkerTypes
    <2>1. CASE Insert(w)
      <3>1. /\ workerPC[w] = "insert" /\ letter[w] \in Letters
            /\ itemMemory[letter[w]] = None
            /\ itemMemory' = [itemMemory EXCEPT ![letter[w]] = w]
            /\ issued' = issued \cup {<<letter[w], w>>}
            /\ workerPC' = [workerPC EXCEPT ![w] = "encode"]
        BY <2>1 DEF Insert, ReturnLetter
      <3>2. \A i \in issued : i[1] \in Letters /\ i[1] # letter[w]
        BY <3>1, KnowledgeAssumption
      <3>3. LettersAgree'
        BY <3>1, <3>2
      <3>4. \A v \in Workers : v # w => workerPC'[v] # "insert"
        BY <3>1 DEF LocksHeld
      <3>5. QED
        BY <3>1, <3>3, <3>4
    <2>2. CASE Lookup(w) \/ FoundAfterAll(w)
      <3>1. UNCHANGED itemMemory
        BY <2>2 DEF Lookup, FoundAfterAll
      <3>2. issued' \subseteq issued \cup {<<letter[w], itemMemory[letter[w]]>>}
        BY <2>2 DEF Lookup, FoundAfterAll, ReturnLetter
      <3>3. \A v \in Workers : workerPC'[v] = "insert" =>
              workerPC[v] = "insert" /\ letter'[v] = letter[v]
        BY <2>2 DEF Lookup, FoundAfterAll, ReturnLetter
      <3>4. QED
        BY <3>1, <3>2, <3>3
    <2>3. CASE StillMissing(w)
      BY <2>3 DEF StillMissing, letterVars
    <2>4. CASE StartLookup(w)
      BY <2>4 DEF StartLookup
    <2>5. CASE LockForInsert(w) \/ StartCompare(w) \/ ReadLo(w) \/ ReadHi(w) \/ EndCompare(w)
      BY <2>5 DEF LockForInsert, StartCompare, ReadLo, ReadHi, EndCompare, letterVars
    <2>6. QED
      BY <1>2, <2>1, <2>2, <2>3, <2>4, <2>5 DEF WorkerAction, WorkerStep
  <1>3. QED
    BY <1>1, <1>2, NextCases, BlendersFrame, SaverFrame
       DEF vars, beyondBlenders, beyondSaver, workerVars, letterVars

-----------------------------------------------------------------------------
(* Blending.  While updates come from one side only, blenders take turns.  *)

LEMMA StartedGrows ==
  ASSUME Typed, [Next]_vars
  PROVE  Started \subseteq Started'
  <1>1. CASE UNCHANGED <<update, blended>>
    BY <1>1 DEF Started
  <1>2. ASSUME NEW b \in Blenders, BlendStep(b)
        PROVE  Started \subseteq Started'
    <2> USE DEF Typed, BlenderTypes
    <2>1. CASE TakeUpdate(b)
      <3>1. update[b] = None /\ blended' = blended
        BY <2>1 DEF TakeUpdate
      <3>2. \A d \in Blenders : d # b => update'[d] = update[d]
        BY <2>1 DEF TakeUpdate
      <3>3. QED
        BY <3>1, <3>2 DEF Started
    <2>2. CASE StoreHi(b)
      <3>1. blended' = blended \cup {update[b]}
        BY <2>2 DEF StoreHi
      <3>2. \A d \in Blenders : d # b => update'[d] = update[d]
        BY <2>2 DEF StoreHi
      <3>3. QED
        BY <3>1, <3>2 DEF Started
    <2>3. CASE UNCHANGED <<update, blended>>
      BY <2>3 DEF Started
    <2>4. QED
      BY <1>2, <2>1, <2>2, <2>3 DEF BlendStep, LockInference, LockKB, LockNode, CopyLo,
         CopyHi, StoreLo
  <1>3. QED
    BY <1>1, <1>2, NextCases, WorkersFrame, SaverFrame
       DEF vars, beyondWorkers, beyondSaver, blendVars

LEMMA SidesKept ==
  ASSUME Typed, [Next]_vars
  PROVE  (OneSided' => OneSided) /\ (Alone' => Alone)
  BY StartedGrows DEF OneSided, Alone

LEMMA Exclusion ==
  ASSUME Typed, LocksHeld, OneSided, NEW b \in Blenders, NEW d \in Blenders,
         Blending(b), Blending(d)
  PROVE  b = d
  <1>1. CASE b # "decay" /\ d # "decay"
    BY <1>1 DEF LocksHeld, Blenders
  <1>2. ASSUME NEW h \in Handlers, h # "decay", Blending(h), Blending("decay")
        PROVE  FALSE
    <2>1. "decay" \in Blenders /\ h \in Blenders
      BY DEF Blenders
    <2>2. update[h] # None /\ update["decay"] # None
      BY <1>2, <2>1 DEF Blending, Typed, BlenderTypes
    <2>3. update[h] \in PeerUpdates /\ update["decay"] \in LocalUpdates
      BY <1>2, <2>1, <2>2 DEF Typed, BlenderTypes
    <2>4. update[h] \in Started /\ update["decay"] \in Started
      BY <2>1, <2>2 DEF Started
    <2>5. QED
      BY <2>3, <2>4, KnowledgeAssumption DEF OneSided, Alone
  <1>3. QED
    BY <1>1, <1>2 DEF Blenders

(* What a store replaces is what was copied, so that it only adds.         *)
LEMMA StoreAdds ==
  ASSUME Typed, OneSided, CopyFresh, NEW b \in Blenders, StoreLo(b) \/ StoreHi(b)
  PROVE  /\ target[b] \in Clusters
         /\ \A c \in Clusters : c # target[b] => baseline'[c] = baseline[c]
         /\ StoreLo(b) =>
              /\ baseline'[target[b]]["lo"] = baseline[target[b]]["lo"] \cup {update[b]}
              /\ baseline'[target[b]]["hi"] = baseline[target[b]]["hi"]
         /\ StoreHi(b) =>
              /\ baseline'[target[b]]["lo"] = baseline[target[b]]["lo"]
              /\ baseline'[target[b]]["hi"] = baseline[target[b]]["hi"] \cup {update[b]}
              /\ update[b] \in baseline[target[b]]["lo"]
  <1> USE DEF Typed, BlenderTypes, Words
  <1>1. target[b] \in Clusters
    BY DEF StoreLo, StoreHi
  <1>2. CASE StoreLo(b)
    <2>1. baseline' = [baseline EXCEPT ![target[b]]["lo"] = copy[b]["lo"] \cup {update[b]}]
      BY <1>2 DEF StoreLo
    <2>2. copy[b]["lo"] = baseline[target[b]]["lo"] /\ ~StoreHi(b)
      BY <1>2 DEF StoreLo, StoreHi, CopyFresh
    <2>3. QED
      BY <1>1, <2>1, <2>2
  <1>3. CASE StoreHi(b)
    <2>1. baseline' = [baseline EXCEPT ![target[b]]["hi"] = copy[b]["hi"] \cup {update[b]}]
      BY <1>3 DEF StoreHi
    <2>2. /\ copy[b]["hi"] = baseline[target[b]]["hi"] /\ ~StoreLo(b)
          /\ baseline[target[b]]["lo"] = copy[b]["lo"] \cup {update[b]}
      BY <1>3 DEF StoreLo, StoreHi, CopyFresh
    <2>3. QED
      BY <1>1, <2>1, <2>2
  <1>4. QED
    BY <1>2, <1>3

LEMMA NoUpdateLostKept ==
  ASSUME Typed, CopyFresh, NoUpdateLost, [Next]_vars
  PROVE  NoUpdateLost'
  <1>1. CASE UNCHANGED <<baseline, blended>>
    BY <1>1, SidesKept DEF NoUpdateLost, InBaseline
  <1>2. ASSUME NEW b \in Blenders, BlendStep(b), OneSided'
        PROVE  \A u \in blended' : InBaseline(u)'
    <2>1. OneSided
      BY <1>2, SidesKept
    <2>2. CASE StoreLo(b) \/ StoreHi(b)
      <3>1. \A c \in Clusters, x \in Words : baseline[c][x] \subseteq baseline'[c][x]
        BY <2>1, <2>2, StoreAdds DEF Words
      <3>2. ASSUME NEW u \in blended
            PROVE  \E c \in Clusters : \A x \in Words : u \in baseline'[c][x]
        BY <2>1, <3>1 DEF NoUpdateLost, InBaseline
      <3>3. CASE StoreHi(b)
        <4>1. blended' = blended \cup {update[b]}
          BY <3>3 DEF StoreHi
        <4>2. \A x \in Words : update[b] \in baseline'[target[b]][x]
          BY <2>1, <3>3, StoreAdds DEF Words
        <4>3. QED
          BY <2>1, <2>2, <3>2, <4>1, <4>2, StoreAdds DEF InBaseline
      <3>4. CASE StoreLo(b)
        BY <3>2, <3>4 DEF StoreLo, InBaseline
      <3>5. QED
        BY <2>2, <3>3, <3>4
    <2>3. CASE UNCHANGED <<baseline, blended>>
      BY <2>1, <2>3 DEF NoUpdateLost, InBaseline
    <2>4. QED
      BY <1>2, <2>2, <2>3 DEF BlendStep, TakeUpdate, LockInference, LockKB, LockNode,
         CopyLo, CopyHi
  <1>3. QED
    BY <1>1, <1>2, NextCases, WorkersFrame, SaverFrame
       DEF vars, beyondWorkers, beyondSaver, blendVars, NoUpdateLost

LEMMA CopyFreshKept ==
  ASSUME Typed, LocksHeld, CopyFresh, [Next]_vars
  PROVE  CopyFresh'
  <1>1. CASE UNCHANGED <<baseline, blendPC, update, target, copy>>
    BY <1>1, SidesKept DEF CopyFresh
  <1>2. ASSUME NEW b \in Blenders, BlendStep(b), OneSided', NEW d \in Blenders
        PROVE  /\ blendPC'[d] \in {"copyHi", "storeLo"} =>
                    copy'[d]["lo"] = baseline'[target'[d]]["lo"]
               /\ blendPC'[d] \in {"storeLo", "storeHi"} =>
                    copy'[d]["hi"] = baseline'[target'[d]]["hi"]
               /\ blendPC'[d] = "storeHi" =>
                    baseline'[target'[d]]["lo"] = copy'[d]["lo"] \cup {update'[d]}
    <2> USE DEF Typed, BlenderTypes, GoTo
    <2>1. OneSided
      BY <1>2, SidesKept
    <2>2. /\ blendPC[d] \in {"copyHi", "storeLo"} =>
                      copy[d]["lo"] = baseline[target[d]]["lo"]
          /\ blendPC[d] \in {"storeLo", "storeHi"} =>
                      copy[d]["hi"] = baseline[target[d]]["hi"]
          /\ blendPC[d] = "storeHi" =>
                      baseline[target[d]]["lo"] = copy[d]["lo"] \cup {update[d]}
      BY <2>1 DEF CopyFresh
    <2>3. CASE d # b
      <3>1. /\ blendPC'[d] = blendPC[d] /\ update'[d] = update[d]
            /\ target'[d] = target[d] /\ copy'[d] = copy[d]
        BY <1>2, <2>3 DEF BlendStep, TakeUpdate, LockInference, LockKB, LockNode, CopyLo,
           CopyHi, StoreLo, StoreHi
      <3>2. CASE StoreLo(b) \/ StoreHi(b)
        <4>1. Blending(b)
          BY <3>2 DEF StoreLo, StoreHi, Blending
        <4>2. ~Blending(d)
          BY <2>1, <2>3, <4>1, Exclusion
        <4>3. QED
          BY <3>1, <4>2 DEF Blending
      <3>3. CASE UNCHANGED baseline
        BY <2>2, <3>1, <3>3
      <3>4. QED
        BY <1>2, <3>2, <3>3 DEF BlendStep, TakeUpdate, LockInference, LockKB, LockNode,
           CopyLo, CopyHi
    <2>4. CASE d = b
      <3>1. CASE \/ TakeUpdate(b) \/ StoreHi(b)
                 \/ b = "decay" /\ (LockInference \/ LockKB)
                 \/ b \in Handlers /\ LockNode(b)
        <4>1. blendPC'[b] \in {"idle", "outer", "lock", "copyLo"}
          BY <3>1 DEF TakeUpdate, StoreHi, LockInference, LockKB, LockNode
        <4>2. QED
          BY <2>4, <4>1
      <3>2. CASE CopyLo(b)
        <4>1. PICK c \in Clusters : /\ target' = [target EXCEPT ![b] = c]
                                    /\ copy' = [copy EXCEPT ![b]["lo"] = baseline[c]["lo"]]
          BY <3>2 DEF CopyLo
        <4>2. target'[b] = c /\ copy'[b]["lo"] = baseline[c]["lo"]
          BY <4>1 DEF Words
        <4>3. blendPC'[b] = "copyHi" /\ baseline' = baseline
          BY <3>2 DEF CopyLo
        <4>4. QED
          BY <2>4, <4>2, <4>3
      <3>3. CASE CopyHi(b)
        <4>1. /\ copy'[b]["lo"] = copy[b]["lo"]
              /\ copy'[b]["hi"] = baseline[target[b]]["hi"]
          BY <3>3 DEF CopyHi, Words
        <4>2. /\ blendPC[b] = "copyHi" /\ blendPC'[b] = "storeLo"
              /\ UNCHANGED <<baseline, target>>
          BY <3>3 DEF CopyHi
        <4>3. QED
          BY <2>2, <2>4, <4>1, <4>2
      <3>4. CASE StoreLo(b)
        <4>1. /\ blendPC[b] = "storeLo" /\ blendPC'[b] = "storeHi"
              /\ UNCHANGED <<update, target, copy>>
          BY <3>4 DEF StoreLo
        <4>2. /\ baseline'[target[b]]["lo"] = baseline[target[b]]["lo"] \cup {update[b]}
              /\ baseline'[target[b]]["hi"] = baseline[target[b]]["hi"]
          BY <2>1, <3>4, StoreAdds
        <4>3. QED
          BY <2>2, <2>4, <4>1, <4>2
      <3>5. QED
        BY <1>2, <3>1, <3>2, <3>3, <3>4 DEF BlendStep
    <2>5. QED
      BY <2>3, <2>4
  <1>3. QED
    BY <1>1, <1>2, NextCases, WorkersFrame, SaverFrame
       DEF vars, beyondWorkers, beyondSaver, blendVars, CopyFresh

-----------------------------------------------------------------------------
(* Reading.  While only the decay goroutine blends, kb.mu keeps readers    *)
(* away from its stores.                                                   *)

LEMMA NextClusterSame ==
  ASSUME NEW w \in Workers, unread'[w] = unread[w]
  PROVE  NextCluster(w)' = NextCluster(w)
  BY DEF NextCluster

LEMMA AloneMeansDecay ==
  ASSUME Typed, Alone, NEW b \in Blenders, Blending(b)
  PROVE  b = "decay"
  <1>1. update[b] \in Started /\ update[b] # None
    BY DEF Typed, BlenderTypes, Blending, Started
  <1>2. b # "decay" => update[b] \in PeerUpdates
    BY <1>1 DEF Typed, BlenderTypes
  <1>3. QED
    BY <1>1, <1>2, KnowledgeAssumption DEF Alone

LEMMA WholeBaselinesKept ==
  ASSUME Typed, LocksHeld, CopyFresh, WholeBaselines, [Next]_vars
  PROVE  WholeBaselines'
  <1> USE DEF Typed, BlenderTypes
  <1>1. ASSUME Alone', UNCHANGED <<baseline, blendPC, update, target>>, NEW c \in Clusters
        PROVE  baseline'[c]["lo"] = baseline'[c]["hi"] \cup
                 (IF blendPC'["decay"] = "storeHi" /\ target'["decay"] = c
                  THEN {update'["decay"]} ELSE {})
    BY <1>1, SidesKept DEF WholeBaselines
  <1>2. ASSUME Alone', NEW b \in Blenders, BlendStep(b), NEW c \in Clusters
        PROVE  baseline'[c]["lo"] = baseline'[c]["hi"] \cup
                 (IF blendPC'["decay"] = "storeHi" /\ target'["decay"] = c
                  THEN {update'["decay"]} ELSE {})
    <2>1. Alone /\ OneSided /\ "decay" \in Blenders
      BY <1>2, SidesKept DEF OneSided, Blenders
    <2>2. baseline[c]["lo"] = baseline[c]["hi"] \cup
            (IF blendPC["decay"] = "storeHi" /\ target["decay"] = c
             THEN {update["decay"]} ELSE {})
      BY <2>1 DEF WholeBaselines
    <2>3. CASE StoreLo(b) \/ StoreHi(b)
      <3>1. b = "decay"
        BY <2>1, <2>3, AloneMeansDecay DEF StoreLo, StoreHi, Blending
      <3>2. CASE StoreLo(b)
        <4>1. /\ blendPC["decay"] = "storeLo" /\ blendPC'["decay"] = "storeHi"
              /\ UNCHANGED <<target, update>>
          BY <2>1, <3>1, <3>2 DEF StoreLo, GoTo
        <4>2. QED
          BY <2>1, <2>2, <2>3, <3>1, <3>2, <4>1, StoreAdds
      <3>3. CASE StoreHi(b)
        <4>1. blendPC["decay"] = "storeHi" /\ blendPC'["decay"] = "idle"
          BY <2>1, <3>1, <3>3 DEF StoreHi, GoTo
        <4>2. QED
          BY <2>1, <2>2, <2>3, <3>1, <3>3, <4>1, StoreAdds
      <3>4. QED
        BY <2>3, <3>2, <3>3
    <2>4. CASE ~(StoreLo(b) \/ StoreHi(b))
      <3>1. baseline' = baseline
        BY <1>2, <2>4 DEF BlendStep, TakeUpdate, LockInference, LockKB, LockNode, CopyLo, CopyHi
      <3>2. blendPC'[b] # "idle"
        BY <1>2, <2>4 DEF BlendStep, TakeUpdate, LockInference, LockKB, LockNode, CopyLo,
           CopyHi, GoTo
      <3>3. b = "decay"
        <4>1. update'[b] \in (IF b = "decay" THEN LocalUpdates ELSE PeerUpdates)
          BY <1>2, <3>2, BlenderTyped
        <4>2. update'[b] # None
          BY <1>2, <3>2, BlenderTyped
        <4>3. update'[b] \in Started'
          BY <4>2 DEF Started
        <4>4. QED
          BY <1>2, <4>1, <4>3, KnowledgeAssumption DEF Alone
      <3>4. blendPC["decay"] # "storeHi" /\ blendPC'["decay"] # "storeHi"
        BY <1>2, <2>4, <3>3 DEF BlendStep, TakeUpdate, LockInference, LockKB, LockNode,
           CopyLo, CopyHi, GoTo
      <3>5. QED
        BY <2>2, <3>1, <3>4
    <2>5. QED
      BY <2>3, <2>4
  <1>3. ASSUME Alone', NEW c \in Clusters
        PROVE  baseline'[c]["lo"] = baseline'[c]["hi"] \cup
                 (IF blendPC'["decay"] = "storeHi" /\ target'["decay"] = c
                  THEN {update'["decay"]} ELSE {})
    <2>1. CASE \E b \in Blenders : BlendStep(b)
      BY <1>2, <1>3, <2>1
    <2>2. CASE UNCHANGED blendVars
      BY <1>1, <1>3, <2>2 DEF blendVars
    <2>3. QED
      BY <2>1, <2>2, NextCases, WorkersFrame, SaverFrame
         DEF vars, beyondWorkers, beyondSaver
  <1>4. ASSUME Alone', NEW w \in Workers, workerPC'[w] = "readHi"
        PROVE  seen'[w] = (baseline[NextCluster(w)]["lo"])'
    <2> USE DEF WorkerTypes
    <2>1. Alone /\ "decay" \in Blenders
      BY <1>4, SidesKept DEF Blenders
    <2>2. CASE workerPC[w] = "readHi" /\ UNCHANGED <<seen[w], unread[w]>>
      <3>1. NextCluster(w)' = NextCluster(w) /\ NextCluster(w) \in Clusters
        BY <2>2, NextClusterSame, NextClusterIn
      <3>2. seen[w] = baseline[NextCluster(w)]["lo"]
        BY <2>1, <2>2 DEF WholeBaselines
      <3>3. CASE UNCHANGED baseline
        BY <2>2, <3>1, <3>2, <3>3
      <3>4. ASSUME NEW b \in Blenders, BlendStep(b), StoreLo(b) \/ StoreHi(b)
            PROVE  FALSE
        <4>1. b = "decay"
          BY <2>1, <3>4, AloneMeansDecay DEF StoreLo, StoreHi, Blending
        <4>2. readers = {}
          BY <3>4, <4>1 DEF StoreLo, StoreHi, Blending, LocksHeld
        <4>3. w \in readers
          BY <2>2 DEF LocksHeld
        <4>4. QED
          BY <4>2, <4>3
      <3>5. UNCHANGED baseline
        BY <3>4, NextCases, WorkersFrame, SaverFrame
           DEF vars, beyondWorkers, beyondSaver, blendVars, BlendStep, TakeUpdate,
           LockInference, LockKB, LockNode, CopyLo, CopyHi
      <3>6. QED
        BY <3>3, <3>5
    <2>3. CASE UNCHANGED <<workerPC, seen, unread>>
      BY <1>4, <2>2, <2>3
    <2>4. ASSUME NEW v \in Workers, WorkerAction(v)
          PROVE  seen'[w] = (baseline[NextCluster(w)]["lo"])'
      <3>1. CASE v = w
        <4>1. ReadLo(w)
          BY <1>4, <2>4, <3>1 DEF WorkerAction, WorkerStep, StartLookup, StartCompare, Lookup,
             ReturnLetter, LockForInsert, FoundAfterAll, StillMissing, Insert, ReadHi, EndCompare
        <4>2. /\ seen'[w] = baseline[NextCluster(w)]["lo"]
              /\ UNCHANGED <<unread, baseline>>
          BY <4>1 DEF ReadLo, beyondWorkers, blendVars
        <4>3. QED
          BY <4>2, NextClusterSame
      <3>2. CASE v # w
        <4>1. workerPC[w] = "readHi" /\ UNCHANGED <<seen[w], unread[w]>>
          BY <1>4, <2>4, <3>2 DEF WorkerAction, WorkerStep, StartLookup, StartCompare, Lookup,
             ReturnLetter, LockForInsert, FoundAfterAll, StillMissing, Insert, ReadLo, ReadHi,
             EndCompare, letterVars
        <4>2. QED
          BY <2>2, <4>1
      <3>3. QED
        BY <3>1, <3>2
    <2>5. QED
      BY <2>3, <2>4, NextCases, BlendersFrame, SaverFrame
         DEF vars, beyondBlenders, beyondSaver, workerVars
  <1>5. QED
    BY <1>3, <1>4 DEF WholeBaselines

-----------------------------------------------------------------------------
(* The theorems.                                                           *)

(* The mutexes exclude whom they should, a letter is inserted once, and a  *)
(* blender replaces what it has read.                                      *)
THEOREM Invariance == Spec => []IInv
  <1>1. ASSUME IInv, [Next]_vars
        PROVE  IInv'
    <2>1. Typed
      BY <1>1, TypedIsTypeOK DEF IInv
    <2>2. Typed'
      BY <1>1, <2>1, TypedKept
    <2>3. TypeOK' /\ WorkInHand'
      BY <2>2 DEF Typed, WorkerTypes, LockTypes, BlenderTypes, SaverTypes, TypeOK, WorkInHand
    <2>4. LocksHeld' /\ InsertsNew' /\ LettersAgree' /\ CopyFresh'
      BY <1>1, <2>1, LocksKept, LettersKept, CopyFreshKept DEF IInv
    <2>5. NoUpdateLost' /\ WholeBaselines'
      BY <1>1, <2>1, NoUpdateLostKept, WholeBaselinesKept DEF IInv
    <2>6. QED
      BY <2>3, <2>4, <2>5 DEF IInv
  <1>2. QED
    BY InitInv, <1>1, PTL DEF Spec

(* However many workers meet a letter at once, they use one vector for it. *)
THEOREM LettersAreShared == Spec => []LettersAgree
  <1>1. IInv => LettersAgree
    BY DEF IInv
  <1>2. QED
    BY <1>1, Invariance, PTL

(* While updates come from one side, none overwrites another.              *)
THEOREM BlendsAreKept == Spec => []NoUpdateLost
  <1>1. IInv => NoUpdateLost
    BY DEF IInv
  <1>2. QED
    BY <1>1, Invariance, PTL

(* While no peer interferes, BestSimilarity compares with a baseline that  *)
(* some update left: the decay goroutine waits for the readers inside.     *)
THEOREM ReadsAreWhole == Spec => NoTornRead
  <1>1. ASSUME IInv, Alone, NEW w \in Workers, ReadHi(w)
        PROVE  seen[w] = baseline[NextCluster(w)]["hi"]
    <2>1. Typed /\ "decay" \in Blenders
      BY <1>1, TypedIsTypeOK DEF IInv, Blenders
    <2>2. workerPC[w] = "readHi" /\ w \in readers
      BY <1>1 DEF IInv, LocksHeld, ReadHi
    <2>3. NextCluster(w) \in Clusters
      BY <2>1, <2>2, NextClusterIn DEF Typed, WorkerTypes
    <2>4. blendPC["decay"] # "storeHi"
      BY <1>1, <2>2 DEF IInv, LocksHeld, Blending
    <2>5. QED
      BY <1>1, <2>2, <2>3, <2>4 DEF IInv, WholeBaselines
  <1>2. IInv => [Alone => \A w \in Workers :
                   ReadHi(w) => seen[w] = baseline[NextCluster(w)]["hi"]]_vars
    BY <1>1
  <1>3. QED
    BY <1>2, Invariance, PTL DEF NoTornRead
=============================================================================
