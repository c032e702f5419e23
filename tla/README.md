# Cortex-HDC in TLA+

Cortex-HDC reads log lines, turns each into a 10,000-bit vector, compares it
with a baseline learned from healthy logs, alerts when the similarity is low,
and (with `--decay-rate`) keeps learning from the lines it found healthy. This
directory specifies its concurrent core and its learning, checks them with TLC on
small instances and proves the central safety properties with TLAPS for instances
of any size.
Paths below are relative to the repository.

## 1. The system

| Part | State it keeps | Operations | Talks to | What is hard |
|---|---|---|---|---|
| **Detection pipeline** `internal/usecase/inference.go` | channels `logsStream`, `decayUpdates`; mutex `Inference.mu`; wait groups | `Run`: worker pool, decay goroutine, checkpoint ticker, heartbeat, ordered shutdown, final save | reader, knowledge base, notifier, telemetry, store, gossip | closing channels in order, draining on a signal, three users of one mutex and one file |
| **Tail reader** `internal/infrastructure/logreader/robust_tail.go` | per file a buffer and a line counter; one shared channel | `ReadLogs`: tailers, multi-line buffering, flush by ticker, prefix, cancellation or end | workers, ctx | blocking sends against cancellation; buffer and counter must agree |
| **Knowledge base** `internal/domain/knowledge_base.go` | `ItemMemory`, `Baseline(s)`, RWMutex | `GetLetterVector`, `BestSimilarity`, `UpdateBaseline` | workers, decay goroutine, store, gossip | double-checked insertion; three mutexes for the same memory |
| **Gossip node** `internal/infrastructure/p2p/gossip.go` | memberlist, broadcast queue, `node.mu` | `NotifyMsg`, `BroadcastBaseline`, `NewGossipNode`, `Shutdown` | peers, knowledge base | its own mutex for the baselines, retransmission, unbounded queue |
| **Model store** `internal/infrastructure/storage/gob_store.go` | `cortex.kv` | `Save` (create, encode), `Load` | trainer, pipeline | truncation before the new content exists |
| **Trainer, static reader** `internal/usecase/trainer.go`, `logreader/native_tail.go` | batch, centroids or counters, Welford sums | two passes, threshold, save | store, clustering | the second pass must agree with the first |
| **Vectors** `internal/domain/{hvector,decay,clustering,stats}.go`, `infrastructure/hdc/encoder.go` | none (values) | `Bind`, `Rotate`, `Bundle`, `Similarity`, `DecayBlend`, k-means | everyone | boundaries: 157 words of 64 bits for 10,000 dimensions, small decay rates |
| **Telemetry client** `infrastructure/grpc/telemetry_client.go` | connection | `ReportAnomaly`, `SendHeartbeat`, `Close` | pipeline | reports in flight when the connection is closed |
| **Alert notifier** `infrastructure/notifier/http_notifier.go` | none | `Notify` (HTTP POST) | workers | no timeout |
| **Commands** `cmd/cortex` | flags, thresholds | `train`, `infer`, `auto`, signal handling | all | first boot, restart after a crash |
| Sanitizer, configuration, metrics, generated protobuf, scripts, deployment | - | - | - | formatting, I/O, generated or external: not modelled |

What makes each part correct:

* *Pipeline*: nothing the reader delivered is lost; each healthy vector that was
  accepted is learned once and in order; nobody sends on a closed channel; a
  signal ends the process, drained; the stored model never goes back.
* *Tail reader*: entries of a file leave in order, whole and within the limit;
  lines are left out only by the rule for full entries; a signal ends every
  tailer even if nobody drains the channel.
* *Knowledge base*: a letter has one vector for good; comparisons see whole
  baselines; no blend is lost; no lock cycle.
* *Gossip*: an update never comes back to the node that learned it, is not passed on
  by others, and no node blends it more often than it may be sent (`RetransmitMult`);
  once a node stops learning, what it has queued is sent, unless it stops or is alone. While
  it learns faster than it gossips this may not be so: memberlist sends the newest
  of the updates sent equally often. That all nodes end
  with the same baselines (ROADMAP.md:28 speaks of unifying them) does *not* hold: there is
  no state exchange, so a node that
  joins late, or whose packets were lost, never catches up.
* *Telemetry*: nothing waits for a call, so nothing is promised of one, and no property is
  stated; calls are in `Cluster` because they go on while the process shuts down.
* *Static reader*: training sees the same entries as detection will.
* *Encoder*: a trigram tells each of its letters.
* *Store and commands*: whatever the moment of a crash, the next start goes on from the
  model in the file if that is whole, and never trains over it or serves an empty, half-read
  or older one; a signal leaves in the file all that was learned. That the file stays whole is *not*
  promised: a save that is cut off leaves one that does not decode, all that was learned is
  lost, and only `train` makes a new one, also on the first boot.
* *Trainer and vectors*: every line counts exactly once, also those of the last batch; a
  centroid never leaves what the data showed; bundling as the lines stream in is
  the majority of them all; blending moves only towards the new vector, and gets
  there.

PROJECT.json lists every hazard at its line with the property that covers it,
or what is missing.

## 2. Modules

| Module | Models |
|---|---|
| `Inference` | `Run`, its goroutines, `GobStore.Save`, the signal and the exit |
| `Detection` | abstract: what `Run` promises, without goroutines, channels or locks |
| `TailReader` | `RobustTailReader.ReadLogs` |
| `StaticReader` | the entries `ReadStaticLogs` makes of a file, as an operator; `TailReader` is compared with it |
| `KnowledgeBase` | the three operations of the knowledge base with `NotifyMsg`, the decay goroutine and `Save` on the same memory |
| `Gossip` | `GossipNode` on memberlist: membership, queue, packets, blends |
| `Telemetry` | `RealTelemetryClient`: calls with a deadline, `Close` |
| `Cluster` | composes `Gossip` and `Telemetry`: several processes in `InferCommand.Execute` |
| `Lifecycle` | `train`, `infer` and `auto` over restarts, kills and failed saves, and the file between them |
| `Vectors` | bundling, Hamming distance, `Rotate`, `Bind`, the encoder, `DecayBlend`, cluster assignment, as operators |
| `Training` | `Trainer.train` with `MiniBatchKMeans`, step by step, over `Vectors` |
| `Adaptation` | `UpdateBaseline` while the same healthy line keeps coming, over `Vectors` |
| `InferenceProofs`, `TailReaderProofs`, `KnowledgeBaseProofs`, `ClusterProofs`, `LifecycleProofs`, `TrainingProofs` | theorems about the module of that name; those about `StaticReader` are in `TailReaderProofs` |
| `VectorProofs` | theorems about `Vectors` and about repeated blends (`Adaptation`) |
| `FoldProofs` | lemmas: induction over a set of numbers, folds, sums and maxima over finite sets |
| `MC...` | instances for TLC |

Definitions introduced as "Mutant of X" are never part of a specification. Each
is X with a plausible bug (a dropped guard, a missing unlock, an off-by-one);
TLC finds the corresponding property violated when X is replaced by it, which
shows that the property does constrain the code.

Not modelled, within the parts that are:

* the threshold of the trainer's second pass (float64 sums), and with it what happens when
  the training files change between the passes;
* the 64 KiB limit of `bufio.Scanner`, counted in bytes, which the lines of
  `StaticReader` are below;
* the timestamp heuristics of the encoder and `Sanitize`: string formatting;
* the clean-up of tails when opening one of the files fails (`robust_tail.go:53-62`);
* lines that end in a carriage return: `bufio.Scanner` strips it and the `tail` library does not,
  so that an empty line is one to training and none to detection; here lines end in a
  newline in both;
* datagrams duplicated by the network: a packet arrives once or not at all, and
  a node repeats an update only as memberlist retransmits it;
* memberlist's own protocol, the `tail` library, HTTP and gRPC: modelled from how the code
  uses them, as an environment that may be late, lose or fail.

## 3. How the models correspond to the code

### Inference

One process, from `ReadLogs` to the end of main. A line is an identifier; its
vector has the same name. Whether its similarity is below the threshold depends
on the current baseline and is left open, so both outcomes are explored for
every line. `DecayBlend` does not commute, so a baseline is the *sequence* of
updates blended so far. Each action is one atomic step of one goroutine:

| Goroutine | Code | Actions |
|---|---|---|
| signal handler | `command.go:37-41` | `Cancel` |
| tailers (as `Run` sees them) | `robust_tail.go` | `Deliver`, `CloseStream` |
| worker | `inference.go:153-221` | `Receive`, `RangeEnds`, `JudgeAnomaly`, `NotifyReturns`, `JudgeHealthy`, `OfferAccepted`, `OfferShed` |
| decay | `inference.go:128-140` | `TakeUpdate`, `LockForUpdate`, `UpdateBaseline`, `BroadcastBaseline`, `UpdatesEnd` |
| checkpoint and final save | `inference.go:105-121, 230-236`, `gob_store.go:18-27` | `Tick`, `AutoSaveStops`, `LockForSave`, `CreateFile`, `EncodeModel`, `WriteFile`, `SaveFails` |
| `Run`, main | `inference.go:71-74, 224-237`, `command.go:43-45` | `OpenStream`, `OpenFails`, `WorkersJoined`, `UpdatesDrained`, `RunReturns`, `Exit` |

`accepted`, `broadcasts`, `reported`, `verdict` and `saveFailed` are history: no
guard reads them. The features that can be off (decay, store, cluster,
telemetry) are constants; the theorems hold for every combination. The store's
errors are ignored as in the code. The checkpoint may save at any time, as its
five minutes may elapse at any time; `MaxAutoSaves` bounds how often.
Left out: metrics, console output, `Sanitize`. The heartbeat, which shares
nothing with the rest, is in `Cluster`; peers' updates are in `KnowledgeBase` and `Gossip`.

`Detection` is the abstract specification. `ImplementsDetector` maps it:
`delivered` is what the reader has put on the channel, `pending` is the vector
in the decay goroutine's hand followed by the channel, `learned` the baseline,
`stored` the file, `stopped` the point after `decayWg.Wait`.

### TailReader

The n-th line of file f is `<<f, n>>`. Of its text only the class matters
(prefixed, empty, other); `Init` chooses every content, and whether a prefix is
configured, so one run covers them all. `flushBuffer` is a blocking select of its
own: the program counter remembers what follows it (`flushLoop` for the ticker,
`flushStart` before a new entry, `flushExit` before returning). The tail library
is the environment: its `Lines` channel may deliver the next line, close, or do
nothing. A line with `line.Err` is skipped by the code before it touches any
state, and is not represented.

### StaticReader

`ReadStaticLogs` has the same task as the tail reader, without ticker or
cancellation, and was written a second time. Its loop is a fold over the lines of a
file. `SameEntries` of `TailReader` compares the two after every line: with the last
entry still open they are equal, but for empty lines at the end of an entry, unless the
ticker has cut an entry in two.

### KnowledgeBase

The same memory under three mutexes: `kb.mu` (RWMutex, with the writer that waits
keeping new readers out), `Inference.mu`, `GossipNode.mu`. A vector is an array
copied word by word (it is passed by value), so two words stand for 157; a word
holds the set of updates blended into it, enough to see a torn copy or a lost
blend. The map write is a step with a beginning and an end, and so is the walk
of `Encode` over the map. `Arrivals` lists which updates come in one run: one
local and one from a peer, or two from peers.

### Gossip, Telemetry, Cluster

An update is named by the node and the line it was learned from; the messages
themselves carry a vector and a rate only, so no guard of a receiver looks at the name. A
line is learned again and again: each time is an update of its own, which takes the name
over when no copy of the last one is queued or in flight, so a node may go on learning
for ever.
A vector of 157 words fills a packet (1,400 bytes in memberlist), so a packet holds one
update. `broadcasts` counts how often each update is still to be sent, `network` the packets
on their way to each node (so they may overtake each other), `blended` how often a node has
blended the last update of that name; the order in which it did is not kept.

| Code | Action |
|---|---|
| `gossip.go:77-119`: `memberlist.Create`, `node.broadcasts = ...`, `list.Join` | `StartGossip`, `AssignBroadcasts`, `JoinCluster` |
| its own gossip tick between the first two, once a peer has joined it | `Panic` (nil queue) |
| `BroadcastBaseline`, `GetBroadcasts`, `NotifyMsg` | `Learn`, `GossipTick`, `Receive` |
| loss, failure detection (external) | `Lose`, `NoticeDeath` in `Network` |
| `Shutdown`: `Leave(10)`, `list.Shutdown` | `ShutdownGossip` |
| `ReportAnomaly`, `SendHeartbeat`, their context, `Close` | `Report`, `SendHeartbeat`, `Deadline`, `CloseTelemetry` |
| the server, which may never answer | `ControlPlane` |

`Leave(10)` is ten nanoseconds, so leaving is the same as stopping: the others have to
notice. A join that fails is a warning and not repeated. `StartFails` covers the returns of
`Execute` before its deferred calls are installed. A call made on a closed connection fails
at once; the heartbeat goroutine may make one, as nobody waits for it.

### Lifecycle

One machine and one file. `disk` is what the file holds: a model, `Torn` (created and
not encoded to the end: it exists and does not decode), or nothing at all. A model is the number
of the start that trained it and how many updates it has taken since from the node's own lines and from
peers; when two are made at once one may be lost, which is in `KnowledgeBase`. `saved` (the
model the file held last) and `due` (what a run had learned when it was told to stop)
are history. `Start` takes any command and flags; `Stat` is `auto.go:106`, `Load` the
decoding and the threshold rule of `infer.go:133-144` and `auto.go:123-133`; `Train` is all
of `Training`, as one step; `CreateFile` and `Encode` are `GobStore.Save`, after which
the process goes where `after` says.

`UpdateBaseline` and `Checkpoint` need a decay rate; `NotifyMsg` and the final save do not: a
process with `--p2p` blends what peers send, also during a save and until the node is shut
down, and `Stop` leads to a final save in every run (`inference.go:230-236`). Nobody waits for the
checkpoint goroutine, so it may save once more (`LateCheckpoint`), and `Exit` may cut it
off. `Kill` may come between any two steps, which is
also what SIGTERM does before `RunWithGracefulShutdown` has installed its handler;
`SaveFails` ends a training and is ignored by inference, as in the code.

### Vectors, Training, Adaptation

A word is the set of its bits that are on, a vector a function from block numbers
to words; word size, number of words and `Dimensions` are constants (64, 157 and
10,000 in the code). `Distance` counts differing bits: the most similar centroid
is the nearest. A learning rate is a fraction. `EncodeLine` turns a line's letters,
framed by `^` and `$`, into trigrams and takes their majority; the vectors of the letters
are given. `Training` reads any of `Inputs` for a line, so a run covers every training
file up to its length; in the run, `Inputs` are the encodings of four lines over two letters.

`Training` has one action per step of the code: a line read and collected
(`CollectVector`) or counted (`CountVector`), the three ways `ProcessBatch` gets its
first centroids (`TakeAllAsCentroids`; `FirstSeed`, `NextSeed`, `SeedsComplete`), one
vector pulling its centroid (`PullCentroid`), the end of a batch and of the files, the
second pass (`Tuned`) and the save; `Fail` is an unreadable file in either pass, or a
failed save. `seen` is history. The threshold of the second pass is float64
arithmetic and is left out.

`Adaptation` is `UpdateBaseline` alone, with one baseline and one vector.

## 4. Runs

| Run | Instance | Result |
|---|---|---|
| `inference` | 3 lines (one blank), 2 workers, stream of 2, offers of 1, 1 checkpoint, failing disk | all hold: 42,828 states |
| `inference_final_save` | 1 line, 1 worker, 1 checkpoint | `FinalSaveIsLast` violated |
| `inference_silent_webhook` | 1 line, 1 worker | `ShutdownCompletes` violated |
| `tail` | files of 3 and 1 lines with any content, limit 2, channel of 1 | all hold: 100,986 states |
| `knowledge` | 2 workers, 1 new letter, 2 peer handlers, 1 checkpoint | all hold: 76,320 states |
| `knowledge_lost_update` | 1 local and 1 peer update | `EveryUpdateKept` violated |
| `knowledge_map_race` | 1 checkpoint, 1 new letter | `NoMapRace` violated |
| `cluster` | 2 agents, one learns 2 lines over and over and is the other's seed, each update sent twice; the other reports 1 line | all hold: 27,258 states |
| `training` | up to 5 lines of 4 vectors of 3 words of 2 bits; no, 2, 3 or 4 clusters; batches of 3 | all hold: 44,136 states |
| `lifecycle` | 4 starts, 2 mishaps, 2 updates of its own and 1 of a peer | all hold: 164,951 states |
| `first_boot` | 2 starts, 1 mishap | `AutoTrainsIfMissing` violated |
| `slow_decay` | 3 words of 2 bits, rate 1/4, every baseline and line | `BaselineConverges` violated |

Why the bounds are enough. In `inference`, the stream and the offers both fill
(3 lines against 2, 2 healthy lines against 1, so `OfferShed` happens), two
workers compete, and the one checkpoint can fall before, between and after the
updates and the final save, which is every order of two savers. In `tail`, three
lines are the shortest file in which an entry of two overflows and another
starts behind it; the second file makes the channel (of one entry) contended. In
`knowledge`, two workers are what a race for a letter takes and two handlers
what a race of blends takes; each cluster is independent of the others. In
`training`, five lines are a full batch and a short one; two clusters are fewer than
a batch holds, three as many, four more, so that each way to the first centroids
is taken; with four, as with more clusters in the code than its batch of 5,000 lines, the model
has only as many baselines as the first batch has vectors. The sums are exact, so that losing even one
line of the short batch breaks them on every way; rates fall from one bit per word to one bit of the first word (1/3, the
floor), as they do in the code between 1/2 and 1/100. `slow_decay` has the code's
proportions: no bit per word due, and a period longer than the vector. In
`cluster`, any number of updates come one after the other, of which two compete for the next packet, and two packets of each are enough for
one of them to be lost, repeated or overtaken; the learner may stop and be noticed while the
other runs on; `ClusterProofs` has `NoFeedback` for more nodes. In `lifecycle`,
four starts are a training, a run that learns, one that is disturbed and one that
recovers; the second mishap strikes during the recovery, with and without decay and peers.

What the violations say. (1) The checkpoint goroutine is not joined: it can
truncate the file after the final save and be killed by the exit. (2) A webhook
that never answers keeps its worker, and so the shutdown, for ever. (3) `NotifyMsg` stores under
`node.mu` what `UpdateBaseline` stores under `kb.mu`; either may discard the
other's blend. `NoUpdateLost` shows that each side alone is right. (4) `Save`
walks the letter map under `Inference.mu` while workers insert under `kb.mu`. (5) At
the decay rates the documentation recommends, `DecayBlend` flips one bit of every
`int(1/alpha)`-th block: block 0 at 0.001, blocks 0 and 100 at 0.01, of 157. It
keeps no state between calls, so the other blocks never change. (6) A first save that
is cut off leaves a file; `auto` takes it for a knowledge base, cannot decode it, and
exits at this and every later start.

One property depends on a constant by its nature: `DropsOnlyOverflow` holds for every limit
but 1 (0, no limit, included), and is proved for those. After an empty line that leaves the buffer empty the code's counter is one
ahead (`robust_tail.go:132-133`), so with `--multiline-max-lines 1` the buffer counts as
full while it is empty, and every further line is left out until one with the prefix.
`ReadStaticLogs` has the same rule, so that `SameEntries` holds there too. `BufferCounted`,
which is proved, says that this is the only case in which the counter is not the length.

## 5. Fairness

`SchedulerFairness` gives each goroutine weak fairness: the Go scheduler runs
what can run, and a `sync.Mutex` in starvation mode is handed to its oldest
waiter; with the few lock requests that a finite set of lines makes, weak
fairness is enough. The signal, the lines and the ticks have none. The reader
closes its channel after the signal: assumed in `Inference`, and checked in
`TailReader` as `NoLeak`. `FairSpec` adds that `Notify` returns, which holds when
no webhook is configured or the server answers; `SilentWebhookSpec` does not, and
shows the difference. In `TailReader` the ticker is fair (it is only reset when
a line arrives, and the files are finite), and a select that keeps finding
`ctx.Done` ready picks it in the end. Workers that drain the channel are not
assumed, except in `TakenIsSent`, which names the assumption. In `KnowledgeBase`
no call need be made, but a call that was started goes on. In `Lifecycle` a
process that can load, train or save goes on unless a mishap stops it (of which there
are finitely many); when it learns, saves or is stopped is open. `Training` is sequential
and has no liveness property. In `Cluster` only one thing is fair: each node's
gossip ticker ticks; nobody need join, learn, answer or
notice a death, no call need end, and no packet need arrive. In `Adaptation` fairness is the premise of the
comment that is checked: the same line keeps coming.

## 6. Proofs

`InferenceProofs` proves, from `ConstantsAssumption` alone (capacities are
positive, `Blank` are lines, flags are Booleans), for any sets of lines and
workers, any capacities, and every combination of the features:

* `TypeCorrect`: `Spec => []TypeOK`;
* `Invariance`: `Spec => []IInv`;
* `SendsEndBeforeClose`, `UpdatesAreOrdered`, `DrainIsComplete`,
  `TornFileIsLocked`, `FinalSaveIsCurrent`: the invariants `NoSendOnClosed`,
  `UpdatesInOrder`, `GracefulDrain`, `TornOnlyUnderLock`, `FinalModelCurrent`;
* `LinesAreKept` (`NoLineLost`) and `StoredModelAdvances` (the action property
  `FileNeverRegresses`);
* `RunImplementsDetector`: with at least one worker, `Spec => Detector!Spec` under the
  mapping of `ImplementsDetector`, one lemma per goroutine.

None of these is inductive alone. `IInv` adds what each rests on:

* `ShutdownOrder`: once the workers are joined they are all done, the stream is
  closed and empty, and the channel of offers is closed exactly then. It gives
  `NoSendOnClosed` at once: an offering worker is not done, so `Run` has not
  passed `wg.Wait`.
* `LockHeld`: `Inference.mu` is held by a goroutine exactly while that goroutine
  is in its section, so at most one is. A snapshot taken by `Encode` is therefore
  still the model when it is written.
* `UpdatesInOrder`: accepted = model + in hand + queued, as sequences; together with
  `ShutdownOrder` it says that model and offers are equal once the decay
  goroutine is done.
* `FinalSaveOrder` and `DiskFollowsModel`: the final save follows the drain, and
  from then on the file equals the model, which nobody changes any more; a
  checkpoint that runs later writes the same model again.
* `BroadcastsFollowBaseline`: what the cluster was sent is the model, but for the update
  just being sent; `GracefulDrain` needs it for its last conjunct.
* `LinesOnce`: a line is in one place of the pipeline at a time and passes it once; so
  channel and hands together count it at most once.
* `FileIsPrefix`: the file is where the model was at some time, so a snapshot taken under
  the mutex extends it.
* `NothingForgotten`: a delivered line without verdict is in the stream or in a
  worker's hand; both are empty when all workers are done.

Each part has a lemma per kind of step ("...Kept"), with the frame lemmas saying
which variables a goroutine leaves alone.

In `InferenceProofs`, `GracefulDrain` supposes `Workers # {}`: with `--workers 0` the code's `wg.Wait`
returns at once and `Run` ends with whatever the reader delivered unjudged.

`TailReaderProofs` proves, from `ReaderAssumption`, for any files, limits and channel
capacities: `TypeCorrect`, `Invariance`, `EntriesInFileOrder` (`PerFileOrder`), `EntriesAreRuns`
(`EntriesWellFormed`), `LinesAreKept` (`NothingLost`), `SendsEndBeforeClose`
(`ClosedAfterTailers`), `DetectionCutsAsTraining` (`SameEntries`), and, for every limit but 1,
`DropsFollowFullEntries` (`DropsOnlyOverflow`). The order holds because the entries sent, the buffer and the line in
hand are at all times an ordered cut of what was taken; that needs three more facts: a
tailer waiting to send holds the line it took last (`LastInHand`), nothing is anywhere that was
not taken (`OnlyTaken`), and the counter is the length of the buffer, which, if it may still
grow, ends with the last line taken (`BufferCounted`). The last two together make an entry
a run of consecutive lines. `RestDropped` adds what is behind a full buffer: lines left out
and the line in hand, so that the line left out next has the full entry before it, also
after that entry is sent.

`DetectionCutsAsTraining` relates two programs. The static reader's fold over one line more
is its loop body on the fold so far (`ScanAllAppend`); so `InStep` follows the two line by line.
While no entry was cut, either both have no entry yet and the same counter, or what the tail
reader found, the buffer and the line in hand included, is what the static reader sent and
holds (`Together`). Equality would not be inductive: after a tick the tail reader has an empty
buffer where the static reader's entry is open, so that an empty line behind it goes into
the one and into nothing in the other. Hence "but for empty lines at their ends"; and any other
line there starts an entry of its own, so the ticker has cut one. `FlushesSomething` (a
tailer flushes only what is there) keeps a flush from making an entry of nothing.

`KnowledgeBaseProofs` proves, from `KnowledgeAssumption`, for any number of workers, peers,
letters, clusters and updates: `TypeCorrect`, `Invariance`, `LettersAreShared` (`LettersAgree`),
`BlendsAreKept` (`NoUpdateLost`) and `ReadsAreWhole` (`NoTornRead`). `LocksHeld` says that each
mutex is held exactly in its sections, and that a writer past the wait is alone. So a letter is
inserted only where there is none (`InsertsNew`); while updates come from one side the blenders
take turns, so that what one has copied is what it replaces (`CopyFresh`); and while none comes
from a peer, the two words of a baseline differ only between two stores of the decay
goroutine, which has waited for every reader to leave (`WholeBaselines`).

`ClusterProofs` proves, from `GossipAssumption` and `ClusterAssumption`, for up to nine nodes
(memberlist sends more copies from ten on), any seeds, lines and reports: `TypeCorrect`
and `UpdatesDoNotEcho` (`NoFeedback`). The sum of what is blended, in flight and still to be
sent is the quantity each step keeps or lowers, and a new update starts it at
`RetransmitMult`. It bounds the types as well, so both are proved together.

`VectorProofs` proves, from `VectorsAssumption` alone, for vectors of any size:

* `TrigramTellsLetters`: put another vector in the place of any of a trigram's three, and it
  changes, because rotation moves every word to a place of its own (`RotateInjective`) and
  binding can be undone (`BindInjective`);
* `DistanceIsMetric`: the distance the code counts is a metric, up to all the bits there are,
  which every vector reaches with another (those are more than `Dimensions`);
* `AssignsToNearest` and `SeedIsNew`: what `AssignToCluster` and k-means++ choose exists and
  is what they mean to choose;
* `BlendFlips`: how many bits of each word a blend takes from the difference, exactly. From it
  `BlendGetsNearer`, and, for the baselines `UpdateBaseline` makes of one healthy line that
  keeps coming: a bit that agrees with it agrees for ever (`BlendsTowardsHealthy`), at a rate
  of a bit per word or more the baseline becomes the line's vector in as many steps as they
  differed in bits (`BlendsConverge`), and at a lower rate every word that is no multiple of
  `int(1/alpha)` keeps its bits for ever (`SlowRateFreezes`): run `slow_decay` for the code's
  sizes. The last two are the two sides of one rate, 1/64 in the code.

`TrainingProofs` proves, from `VectorsAssumption` and `TrainingAssumption`, for vectors of
any size, files of any length and any number of clusters:

* `TypeCorrect`, and `Invariance`: `Spec => []IInv`;
* `CentroidsComeFromData` (`CentroidsWithinData`): a centroid of the blend is, bit by
  bit, one of the two blended (`BlendChooses`); `IInv` adds that what is still in the
  batch was read (`BatchFromData`), or a pull could bring in anything;
* `StreamingIsBundling` (`StreamedBundle`): the counters are the votes
  (`CountsAreVotes`), and one more vector is one more vote (`VotesAppend`);
* `VectorsAreCounted` (`EveryVectorCounted`): the centroids' counts and the batch still to be
  processed add up to the vectors read, and, where k-means++ chose the centroids, to exactly
  one more per seed (`CountsAddUp`): the seeds are assigned once more with their batch;
* `ModelIsComplete` (`ModelComplete`): until there are centroids, everything read is in
  the first batch, which is full or the last (`FirstBatch`); so the number of
  centroids is settled with it (`CentroidsComplete`): the number asked for, or that of the
  vectors in the first batch where there are fewer.

`LifecycleProofs` proves, from `LifecycleAssumption`, for any number of starts, updates and
mishaps: `TypeCorrect`, `Invariance`, `ServesWhatWasStored` (`ServesStoredModel`),
`StopKeepsModel` (`SignalKeepsModel`) and `LearningIsKept` (`LearningSurvives`, over what is in
the file). None follows from the steps of one run: `IInv` adds who may train, so that no
training by `auto` has a predecessor (`TrainingStarts`); that the file is what was last saved,
but for a save under way or cut off, and so absent only where none was ever saved
(`FileHistory`); and where what a stopped run owes the file is at each moment: in memory until the
exit, and in the file before the checkpoint goroutine may save again (`DueKept`).

`FoldProofs` is what `TailReaderProofs`, `VectorProofs` and `TrainingProofs` rest on where they speak of sums, folds and
chosen elements: `Distance` is a sum over the words, the counters of a training are a sum, a
rank of a bit is one over a word, the static reader is a fold over lines. The
induction theorems of the library take a predicate as a parameter, which the provers here
cannot instantiate, so they are stated again for sets: a set of numbers with 0 in it and
closed under +1 is all of them (`NatInductionSet`), a set that has a subset of a finite
set whenever it has all smaller ones has every subset (`SubsetInduction`).
From these come the functions that folds over numbers (`FoldUpExists`) and sets (`FoldExists`)
are, and the sums taken apart (`SumTakenApart`).

Only model-checked: liveness (`ShutdownCompletes`, `DeliveredIsJudged`, `AcceptedIsLearned`,
`NoLeak`, `TakenIsSent`, `UpdatesComplete`, `LookupsReturn`, `BootsWhole`, `QueuedIsSent`),
which rests on fairness and so on ENABLED, out of the provers' reach.

Every safety property of the passing runs is stated by a theorem.

## 7. Running

    tlc -config MCInference.cfg MCInference
    tlc -config MCTailReader.cfg MCTailReader
    tlc -config MCKnowledgeBase.cfg MCKnowledgeBase
    tlc -config MCCluster.cfg MCCluster
    tlc -config MCTraining.cfg MCTraining
    tlc -config MCAdaptation.cfg MCAdaptation
    tlc -config MCLifecycle.cfg MCLifecycle
    tlapm InferenceProofs.tla
    tlapm TailReaderProofs.tla
    tlapm KnowledgeBaseProofs.tla
    tlapm ClusterProofs.tla
    tlapm LifecycleProofs.tla
    tlapm VectorProofs.tla
    tlapm TrainingProofs.tla
    tlapm FoldProofs.tla

`MCInferenceLastSave`, `MCInferenceSilentWebhook`, `MCKnowledgeLostUpdate`,
`MCKnowledgeMapRace` and `MCLifecycleFirstBoot` are the configurations of the violated
properties, for the modules `MCInference`, `MCKnowledgeBase` and `MCLifecycle`;
`MCAdaptation.cfg` is the one of `slow_decay`.
