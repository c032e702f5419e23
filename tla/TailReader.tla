----------------------------- MODULE TailReader -----------------------------
(***************************************************************************)
(* RobustTailReader.ReadLogs (internal/infrastructure/logreader/           *)
(* robust_tail.go): one goroutine per file takes the lines its tail finds, *)
(* joins them into multi-line entries when a prefix is configured, and     *)
(* sends them on the one channel all files share; a last goroutine closes  *)
(* the channel when every tailer has returned.                             *)
(*                                                                         *)
(* The n-th line of file f is the pair <<f, n>>.  Of its text only this    *)
(* matters: whether it has the prefix, and whether it is empty.  The model *)
(* starts from every content of the files, with and without a prefix.      *)
(* strings.Builder.Len is 0 exactly when buffer is <<>>, because an empty  *)
(* text written to an empty buffer leaves nothing behind.                  *)
(***************************************************************************)
EXTENDS Naturals, StaticReader

CONSTANTS
  Files,         \* the files tailed
  FileLen,       \* how many lines appear in each file after start-up (a function)
  MaxLines,      \* r.maxLines; 0 is no limit
  ChanCap,       \* capacity of ch (10000 in the code)
  NoLine         \* "no line in hand"

AllLines == UNION {{f} \X (1 .. FileLen[f]) : f \in Files}

ASSUME ReaderAssumption ==
  /\ FileLen \in [Files -> Nat]
  /\ MaxLines \in Nat
  /\ ChanCap \in Nat \ {0}
  /\ NoLine \notin AllLines

VARIABLES
  prefixMode,  \* r.prefix # ""
  text,        \* what each line is: starts with r.prefix, is empty, or neither
  cancelled,   \* ctx is done
  pos,         \* lines each tailer has taken from its tail's Lines channel
  pc,          \* where each tailer is
  logBuffer,   \* the lines of the entry each tailer is building
  lineCount,   \* its counter of them
  inHand,      \* the line a tailer is handling while it waits to send
  ch,          \* contents of the shared channel
  chClosed,    \* the closer goroutine closed it
  sent,        \* history: the entries each tailer put on ch
  dropped      \* history: the lines each tailer left out of its entries

tailerVars == <<pos, pc, logBuffer, lineCount, inHand, sent, dropped>>
inputs == <<prefixMode, text>>   \* chosen once
vars == <<inputs, cancelled, tailerVars, ch, chClosed>>

HasPrefix == {l \in AllLines : text[l] = "prefixed"}
IsEmpty == {l \in AllLines : text[l] = "empty"}

TypeOK ==
  /\ prefixMode \in BOOLEAN
  /\ text \in [AllLines -> {"prefixed", "empty", "other"}]
  /\ cancelled \in BOOLEAN
  /\ pos \in [Files -> Nat] /\ \A f \in Files : pos[f] <= FileLen[f]
  /\ pc \in [Files -> {"select", "send", "flushLoop", "flushStart", "flushExit", "done"}]
  /\ logBuffer \in [Files -> Seq(AllLines)]
  /\ lineCount \in [Files -> Nat] /\ \A f \in Files : lineCount[f] <= pos[f]
  /\ inHand \in [Files -> AllLines \cup {NoLine}]
  /\ ch \in Seq(Seq(AllLines))
  /\ Len(ch) <= ChanCap
  /\ chClosed \in BOOLEAN
  /\ sent \in [Files -> Seq(Seq(AllLines))]
  /\ dropped \in [Files -> SUBSET AllLines]

Init ==
  /\ prefixMode \in BOOLEAN
  /\ text \in [AllLines -> {"prefixed", "empty", "other"}]
  /\ cancelled = FALSE
  /\ pos = [f \in Files |-> 0]
  /\ pc = [f \in Files |-> "select"]
  /\ logBuffer = [f \in Files |-> <<>>]
  /\ lineCount = [f \in Files |-> 0]
  /\ inHand = [f \in Files |-> NoLine]
  /\ ch = <<>>
  /\ chClosed = FALSE
  /\ sent = [f \in Files |-> <<>>]
  /\ dropped = [f \in Files |-> {}]

-----------------------------------------------------------------------------
(* The environment: the signal, and the workers that drain the channel.    *)

Cancel ==
  /\ ~cancelled
  /\ cancelled' = TRUE
  /\ UNCHANGED <<inputs, tailerVars, ch, chClosed>>

Consume ==
  /\ ch # <<>>
  /\ ch' = Tail(ch)
  /\ UNCHANGED <<inputs, cancelled, tailerVars, chClosed>>

-----------------------------------------------------------------------------
(* flushBuffer, called with what is to happen after it.                    *)

CallFlush(f, after) == pc' = [pc EXCEPT ![f] = after]

(* Mutant of AfterFlush: the buffer is not reset.                          *)
FlushKeeps(f) ==
  /\ logBuffer' = [logBuffer EXCEPT ![f] = IF pc[f] = "flushStart" THEN Append(@, inHand[f]) ELSE @]
  /\ lineCount' = [lineCount EXCEPT ![f] = IF pc[f] = "flushStart" THEN 1 ELSE 0]
  /\ inHand' = [inHand EXCEPT ![f] = NoLine]
  /\ pc' = [pc EXCEPT ![f] = IF pc[f] = "flushExit" THEN "done" ELSE "select"]

(* After the flush: return, or go on with the line in hand, if any.        *)
AfterFlush(f) ==
  /\ logBuffer' = [logBuffer EXCEPT ![f] = IF pc[f] = "flushStart" THEN <<inHand[f]>> ELSE <<>>]
  /\ lineCount' = [lineCount EXCEPT ![f] = IF pc[f] = "flushStart" THEN 1 ELSE 0]
  /\ inHand' = [inHand EXCEPT ![f] = NoLine]
  /\ pc' = [pc EXCEPT ![f] = IF pc[f] = "flushExit" THEN "done" ELSE "select"]

Flushing(f) == pc[f] \in {"flushLoop", "flushStart", "flushExit"}

FlushSends(f) ==
  /\ Flushing(f)
  /\ Len(ch) < ChanCap
  /\ ch' = Append(ch, logBuffer[f])
  /\ sent' = [sent EXCEPT ![f] = Append(@, logBuffer[f])]
  /\ AfterFlush(f)
  /\ UNCHANGED <<inputs, cancelled, pos, dropped, chClosed>>

(* ctx is done while the channel is full, or select just picked it: the    *)
(* entry is lost.                                                          *)
FlushGivesUp(f) ==
  /\ Flushing(f)
  /\ cancelled
  /\ AfterFlush(f)
  /\ UNCHANGED <<inputs, cancelled, pos, sent, dropped, ch, chClosed>>

-----------------------------------------------------------------------------
(* The select of the tailer's loop.                                        *)

(* ctx is done, or the tail closed Lines: flush what there is and return.  *)
Leave(f) ==
  /\ IF logBuffer[f] # <<>> THEN CallFlush(f, "flushExit")
                            ELSE pc' = [pc EXCEPT ![f] = "done"]
  /\ UNCHANGED <<inputs, cancelled, pos, logBuffer, lineCount, inHand, sent, dropped,
                 ch, chClosed>>

SeeDone(f) ==
  /\ pc[f] = "select"
  /\ cancelled
  /\ Leave(f)

LinesClosed(f) ==
  /\ pc[f] = "select"
  /\ Leave(f)

(* Mutant of Tick: the ticker was stopped.                                 *)
NoTick(f) == FALSE

(* The ticker; with nothing buffered flushBuffer does nothing at all.      *)
Tick(f) ==
  /\ pc[f] = "select"
  /\ logBuffer[f] # <<>>
  /\ CallFlush(f, "flushLoop")
  /\ UNCHANGED <<inputs, cancelled, pos, logBuffer, lineCount, inHand, sent, dropped,
                 ch, chClosed>>

(* No prefix configured: every line is an entry.                           *)
TakeEntry(f, line) ==
  /\ ~prefixMode
  /\ pc' = [pc EXCEPT ![f] = "send"]
  /\ inHand' = [inHand EXCEPT ![f] = line]
  /\ UNCHANGED <<logBuffer, lineCount, dropped>>

(* Mutant of TakeStart: the entry before is not flushed.                   *)
StartOverwrites(f, line) ==
  /\ prefixMode
  /\ text[line] = "prefixed"
  /\ logBuffer' = [logBuffer EXCEPT ![f] = <<line>>]
  /\ lineCount' = [lineCount EXCEPT ![f] = 1]
  /\ UNCHANGED <<pc, inHand, dropped>>

(* A line with the prefix ends the entry before it and starts the next.    *)
TakeStart(f, line) ==
  /\ prefixMode
  /\ text[line] = "prefixed"
  /\ IF logBuffer[f] # <<>>
     THEN /\ CallFlush(f, "flushStart")
          /\ inHand' = [inHand EXCEPT ![f] = line]
          /\ UNCHANGED <<logBuffer, lineCount>>
     ELSE /\ logBuffer' = [logBuffer EXCEPT ![f] = <<line>>]
          /\ lineCount' = [lineCount EXCEPT ![f] = 1]
          /\ UNCHANGED <<pc, inHand>>
  /\ UNCHANGED dropped

(* Mutants of Full: off by one either way.                                 *)
FullLate(f)  == MaxLines > 0 /\ lineCount[f] > MaxLines
FullEarly(f) == MaxLines > 0 /\ lineCount[f] + 1 >= MaxLines

Full(f) == MaxLines > 0 /\ lineCount[f] >= MaxLines

(* Any other line continues the entry ...                                  *)
TakeContinuation(f, line) ==
  /\ prefixMode
  /\ text[line] # "prefixed"
  /\ ~Full(f)
  /\ LET vanishes == logBuffer[f] = <<>> /\ text[line] = "empty" IN
       /\ logBuffer' = [logBuffer EXCEPT ![f] = IF vanishes THEN @ ELSE Append(@, line)]
       /\ dropped' = [dropped EXCEPT ![f] = IF vanishes THEN @ \cup {line} ELSE @]
  /\ lineCount' = [lineCount EXCEPT ![f] = IF logBuffer[f] = <<>> THEN 1 ELSE @ + 1]
  /\ UNCHANGED <<pc, inHand>>

(* ... unless the counter says that the entry is full.                     *)
DropContinuation(f, line) ==
  /\ prefixMode
  /\ text[line] # "prefixed"
  /\ Full(f)
  /\ dropped' = [dropped EXCEPT ![f] = @ \cup {line}]
  /\ UNCHANGED <<pc, logBuffer, lineCount, inHand>>

TakeLine(f) ==
  LET line == <<f, pos[f] + 1>> IN
  /\ pc[f] = "select"
  /\ pos[f] < FileLen[f]
  /\ pos' = [pos EXCEPT ![f] = @ + 1]
  /\ \/ TakeEntry(f, line)
     \/ TakeStart(f, line)
     \/ TakeContinuation(f, line)
     \/ DropContinuation(f, line)
  /\ UNCHANGED <<inputs, cancelled, sent, ch, chClosed>>

(* Mutant of SendLine: the channel has no bound.                           *)
SendUnbounded(f) ==
  /\ pc[f] = "send"
  /\ ch' = Append(ch, <<inHand[f]>>)
  /\ sent' = [sent EXCEPT ![f] = Append(@, <<inHand[f]>>)]
  /\ inHand' = [inHand EXCEPT ![f] = NoLine]
  /\ pc' = [pc EXCEPT ![f] = "select"]
  /\ UNCHANGED <<inputs, cancelled, pos, logBuffer, lineCount, dropped, chClosed>>

(* The blocking send of a line on its own, and the way out of it.          *)
SendLine(f) ==
  /\ pc[f] = "send"
  /\ Len(ch) < ChanCap
  /\ ch' = Append(ch, <<inHand[f]>>)
  /\ sent' = [sent EXCEPT ![f] = Append(@, <<inHand[f]>>)]
  /\ inHand' = [inHand EXCEPT ![f] = NoLine]
  /\ pc' = [pc EXCEPT ![f] = "select"]
  /\ UNCHANGED <<inputs, cancelled, pos, logBuffer, lineCount, dropped, chClosed>>

(* Mutant of SendGivesUp: a bare send, without ctx.                        *)
NeverGivesUp(f) == FALSE

SendGivesUp(f) ==
  /\ pc[f] = "send"
  /\ cancelled
  /\ inHand' = [inHand EXCEPT ![f] = NoLine]
  /\ pc' = [pc EXCEPT ![f] = "done"]
  /\ UNCHANGED <<inputs, cancelled, pos, logBuffer, lineCount, sent, dropped, ch, chClosed>>

(* Mutant of CloseCh: the first tailer to return closes the channel.       *)
CloseAtFirst ==
  /\ ~chClosed
  /\ \E f \in Files : pc[f] = "done"
  /\ chClosed' = TRUE
  /\ UNCHANGED <<inputs, cancelled, tailerVars, ch>>

(* wg.Wait returned in the closer goroutine.                               *)
CloseCh ==
  /\ ~chClosed
  /\ \A f \in Files : pc[f] = "done"
  /\ chClosed' = TRUE
  /\ UNCHANGED <<inputs, cancelled, tailerVars, ch>>

-----------------------------------------------------------------------------
FlushStep(f) == FlushSends(f) \/ FlushGivesUp(f)
SendStep(f) == SendLine(f) \/ SendGivesUp(f)

(* Every tailer has returned, and the workers took what was on the channel.*)
Ended ==
  /\ chClosed
  /\ ch = <<>>
  /\ UNCHANGED vars

Next ==
  \/ Cancel
  \/ Consume
  \/ \E f \in Files :
       TakeLine(f) \/ Tick(f) \/ SeeDone(f) \/ LinesClosed(f) \/ FlushStep(f) \/ SendStep(f)
  \/ CloseCh
  \/ Ended

Spec == Init /\ [][Next]_vars

(***************************************************************************)
(* The scheduler runs every tailer that can run, its ticker ticks, and a   *)
(* select that keeps finding ctx.Done ready picks it in the end.  Lines    *)
(* need not appear, and nobody needs to drain the channel.                 *)
(***************************************************************************)
FairSpec ==
  /\ Spec
  /\ \A f \in Files :
       WF_vars(FlushStep(f)) /\ WF_vars(SendStep(f)) /\ WF_vars(SeeDone(f)) /\ WF_vars(Tick(f))
  /\ WF_vars(CloseCh)

-----------------------------------------------------------------------------
(* Safety.                                                                 *)

Elems(s) == {s[i] : i \in DOMAIN s}
LinesIn(entries) == UNION {Elems(e) : e \in entries}
Hand(f) == IF inHand[f] = NoLine THEN <<>> ELSE <<inHand[f]>>

(* Line a comes before line b in their file.                               *)
Before(a, b) == a[2] < b[2]

(* The lines of these pieces, read one piece after the other, are in order.*)
Ordered(parts) ==
  \A i, j \in DOMAIN parts : \A a \in DOMAIN parts[i], b \in DOMAIN parts[j] :
    i < j \/ (i = j /\ a < b) => Before(parts[i][a], parts[j][b])

(* The entries of a file leave in file order and no line leaves twice: all *)
(* that was sent, then the buffer, then the line in hand, is in order,     *)
(* whatever mix of ticks, prefixes, sends and cancellations got it there.  *)
PerFileOrder == \A f \in Files : Ordered(sent[f] \o <<logBuffer[f], Hand(f)>>)

(* An entry is a run of consecutive lines, within the limit, and only its  *)
(* first line may have the prefix (README.md:85-86).                       *)
EntriesWellFormed ==
  \A f \in Files : \A e \in Elems(sent[f]) \cup {logBuffer[f]} :
    /\ MaxLines > 0 => Len(e) <= MaxLines
    /\ \A i \in 2 .. Len(e) :
         /\ e[i][2] = e[i - 1][2] + 1
         /\ prefixMode => e[i] \notin HasPrefix

(* Until the signal, every line taken is sent, buffered, in hand, or was   *)
(* left out by the rules for continuation lines.                           *)
NothingLost ==
  ~cancelled => \A f \in Files : \A n \in 1 .. pos[f] :
    <<f, n>> \in LinesIn(Elems(sent[f]) \cup {logBuffer[f], Hand(f)}) \cup dropped[f]

(* A line with text is left out only behind an entry that already has      *)
(* MaxLines lines: "Maximum number of lines to buffer for a single         *)
(* multiline log entry" (README.md:86).  The counter is 1 after an empty   *)
(* line that left the buffer empty.                                        *)
DropsOnlyOverflow ==
  ~cancelled => \A f \in Files : \A d \in dropped[f] \ IsEmpty :
    \E e \in Elems(sent[f]) \cup {logBuffer[f]} :
      /\ Len(e) = MaxLines
      /\ \A i \in DOMAIN e : Before(e[i], d)
      /\ \A n \in e[Len(e)][2] + 1 .. d[2] : <<f, n>> \in dropped[f]

(* The entries of a file so far, as the workers will get them.             *)
AndEntry(entries, e) == IF e = <<>> THEN entries ELSE Append(entries, e)
Found(f) == AndEntry(AndEntry(sent[f], logBuffer[f]), Hand(f))

(* The ticker has cut none of them in two.                                 *)
Uncut(f) == \A i \in 2 .. Len(Found(f)) : Head(Found(f)[i]) \in HasPrefix

(* These entries are those, but for empty lines at their end.              *)
ButEmptyLines(e, whole) ==
  /\ Len(e) <= Len(whole)
  /\ \A i \in 1 .. Len(whole) : IF i <= Len(e) THEN e[i] = whole[i] ELSE whole[i] \in IsEmpty
Alike(entries, wholes) ==
  /\ Len(entries) = Len(wholes)
  /\ \A i \in 1 .. Len(entries) : ButEmptyLines(entries[i], wholes[i])

Taken(f) == [n \in 1 .. pos[f] |-> <<f, n>>]

(* Training and detection cut a file into the same entries, but for empty  *)
(* lines at their end, as long as the ticker has not cut one of them in    *)
(* two: else a line of a healthy file would look like nothing the training *)
(* run has met (native_tail.go:37-63, robust_tail.go:106-137).             *)
SameEntries ==
  ~cancelled =>
    \A f \in Files : (prefixMode => Uncut(f))
      => Alike(Found(f), ReadStaticLogs(Taken(f), prefixMode, text, MaxLines))

(* Nobody is about to send when the channel is closed (142-146).           *)
ClosedAfterTailers == chClosed => \A f \in Files : pc[f] = "done" /\ inHand[f] = NoLine

-----------------------------------------------------------------------------
(* The inductive invariant behind the theorems of TailReaderProofs.        *)

(* A tailer that waits to send has the line it took last in hand, if it is *)
(* to go on with it; only a prefix makes it buffer.                        *)
LastInHand ==
  \A f \in Files :
    /\ inHand[f] = IF pc[f] \in {"send", "flushStart"} THEN <<f, pos[f]>> ELSE NoLine
    /\ pc[f] \in {"send", "flushStart"} => pos[f] > 0
    /\ pc[f] = "send" => ~prefixMode
    /\ pc[f] = "flushStart" => prefixMode
    /\ ~prefixMode => logBuffer[f] = <<>>

(* What is sent or buffered was taken before.                              *)
OnlyTaken ==
  \A f \in Files : \A e \in Elems(sent[f]) \cup {logBuffer[f]} :
    \A i \in DOMAIN e : e[i] \in {f} \X (1 .. pos[f])

(* The counter is how long the entry is, or 1 after an empty line that left*)
(* the buffer empty; an entry that may grow ends with the line taken last. *)
BufferCounted ==
  \A f \in Files :
    /\ lineCount[f] = Len(logBuffer[f]) \/ (logBuffer[f] = <<>> /\ lineCount[f] = 1)
    /\ logBuffer[f] # <<>> /\ inHand[f] = NoLine /\ ~Full(f)
         => logBuffer[f][Len(logBuffer[f])] = <<f, pos[f]>>

(* What was taken after the last line of the entry is in hand or left out; *)
(* without a limit only empty lines are.                                   *)
RestDropped ==
  \A f \in Files :
    /\ logBuffer[f] # <<>> =>
         \A n \in logBuffer[f][Len(logBuffer[f])][2] + 1 .. pos[f] :
           <<f, n>> \in dropped[f] \cup {inHand[f]}
    /\ MaxLines = 0 => dropped[f] \subseteq IsEmpty

(* While the ticker cuts nothing, the tailer is where the static reader is *)
(* that has read the same lines: both have no entry yet, or the reader's   *)
(* buffer holds what the tailer found last.                                *)
Together(f, r) ==
  /\ IF r.buffer = <<>> THEN r.sent = <<>> /\ Found(f) = <<>> /\ lineCount[f] = r.count
     ELSE r.count > 0 /\ Alike(Found(f), Append(r.sent, r.buffer))
  /\ logBuffer[f] # <<>> /\ inHand[f] = NoLine
       => r.buffer = logBuffer[f] /\ r.count = lineCount[f]
  /\ inHand[f] # NoLine => r.buffer = <<inHand[f]>> /\ r.count = 1

InStep ==
  ~cancelled =>
    \A f \in Files :
      /\ ~prefixMode => Found(f) = [n \in 1 .. pos[f] |-> <<<<f, n>>>>]
      /\ prefixMode /\ Uncut(f) => Together(f, ScanAll(Taken(f), text, MaxLines))

(* Only what is there is flushed.                                          *)
FlushesSomething == \A f \in Files : Flushing(f) => logBuffer[f] # <<>>

IInv ==
  /\ TypeOK
  /\ LastInHand
  /\ OnlyTaken
  /\ BufferCounted
  /\ RestDropped
  /\ FlushesSomething
  /\ InStep
  /\ EntriesWellFormed
  /\ NothingLost
  /\ PerFileOrder
  /\ ClosedAfterTailers

-----------------------------------------------------------------------------
(* Liveness, under FairSpec.                                               *)

(* After the signal every tailer returns and the channel is closed, also   *)
(* with the channel full and no worker left to drain it,                   *)
(* "zero-leak context cancellation safety" (README.md:14).                 *)
NoLeak == cancelled ~> chClosed

(* With workers that keep draining the channel, a line taken from a file   *)
(* reaches it without another line to push it out (the ticker, 93-94).     *)
TakenIsSent ==
  WF_vars(Consume) =>
    \A f \in Files : \A n \in 1 .. FileLen[f] :
      pos[f] >= n ~> cancelled \/ <<f, n>> \in LinesIn(Elems(sent[f])) \cup dropped[f]
=============================================================================
