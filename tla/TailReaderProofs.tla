-------------------------- MODULE TailReaderProofs --------------------------
(* Theorems about TailReader for any files, any content of theirs, any     *)
(* limit of lines and any capacity of the channel.                         *)
EXTENDS TailReader, FoldProofs, SequenceTheorems, TLAPS

-----------------------------------------------------------------------------
(* The static reader.                                                      *)

(* What the static reader holds after each line.                           *)
NothingRead == [sent |-> <<>>, buffer |-> <<>>, count |-> 0]

Reads(h, lines, kind, maxLines) ==
  /\ h[0] = NothingRead
  /\ \A n \in 1 .. Len(lines) : h[n] = Scan(h[n - 1], lines[n], kind, maxLines)

Readings(L) == [sent : Seq(Seq(L)), buffer : Seq(L), count : Nat]

LEMMA ScanType ==
  ASSUME NEW L, NEW kind, NEW maxLines, NEW r \in Readings(L), NEW l \in L
  PROVE  Scan(r, l, kind, maxLines) \in Readings(L)
  <1> DEFINE Entries == Seq(L)
             Holds(s, b, c) == [sent |-> s, buffer |-> b, count |-> c]
  <1>1. PICK s \in Seq(Entries), b \in Entries, c \in Nat : r = Holds(s, b, c)
    BY DEF Readings
  <1>2. /\ Append(b, l) \in Entries /\ <<l>> \in Entries /\ <<>> \in Entries
        /\ c + 1 \in Nat
    OBVIOUS
  <1>3. \A s2 \in Seq(Entries), b2 \in Entries, c2 \in Nat : Holds(s2, b2, c2) \in Readings(L)
    BY DEF Readings
  <1> HIDE DEF Entries
  <1>4. Append(s, b) \in Seq(Entries)
    OBVIOUS
  <1>5. Flush(r).sent \in Seq(Entries)
    BY <1>1, <1>4 DEF Flush
  <1>6. r.buffer = b /\ r.count = c /\ r.sent = s
    BY <1>1
  <1>7. \/ Scan(r, l, kind, maxLines) = r
        \/ Scan(r, l, kind, maxLines) = Holds(Flush(r).sent, <<l>>, 1)
        \/ \E b2 \in {<<>>, Append(b, l)}, c2 \in {1, c + 1} :
             Scan(r, l, kind, maxLines) = Holds(s, b2, c2)
    BY <1>6 DEF Scan
  <1> HIDE DEF Holds
  <1>8. 1 \in Nat
    OBVIOUS
  <1>9. QED
    BY <1>2, <1>3, <1>5, <1>7, <1>8

LEMMA NothingTyped ==
  ASSUME NEW L
  PROVE  NothingRead \in Readings(L)
  <1> DEFINE Entries == Seq(L)
  <1>1. <<>> \in Entries /\ <<>> \in Seq(Entries)
    OBVIOUS
  <1>2. QED
    BY <1>1 DEF NothingRead, Readings

LEMMA ScanSteps ==
  ASSUME NEW L, NEW kind, NEW maxLines, NEW lines \in Seq(L)
  PROVE  \E h : /\ ScanAll(lines, kind, maxLines) = h[Len(lines)]
                /\ Reads(h, lines, kind, maxLines)
  <1> DEFINE N == Len(lines)
             S == 1 .. N
             V == Readings(L)
             step == [p \in S \X V |-> Scan(p[2], lines[p[1]], kind, maxLines)]
             IsIter(iter) ==
               iter = [s \in SUBSET S |->
                         IF s = {} THEN NothingRead
                         ELSE Scan(iter[s \ {Max(s)}], lines[Max(s)], kind, maxLines)]
             iter == CHOOSE i : IsIter(i)
  <1>1. N \in Nat /\ DOMAIN lines = S /\ \A n \in S : lines[n] \in L
    OBVIOUS
  <1>2. NothingRead \in V
    BY NothingTyped
  <1>3. step \in [S \X V -> V]
    BY <1>1, ScanType
  <1> HIDE DEF V, S, N
  <1>4. PICK g \in [SUBSET S -> V] : FoldsUp(g, N, NothingRead, step)
    <2>1. step \in [(1 .. N) \X V -> V]
      BY <1>3 DEF S
    <2> HIDE DEF step
    <2>2. QED
      BY <1>1, <1>2, <2>1, FoldUpExists DEF S
  <1>5. \E i : IsIter(i)
    <2>1. ASSUME NEW T \in SUBSET S, T # {}
          PROVE  g[T] = Scan(g[T \ {Max(T)}], lines[Max(T)], kind, maxLines)
      <3>1. Max(T) \in S
        BY <1>1, <2>1, MaxIn DEF S
      <3>2. g[T \ {Max(T)}] \in V
        OBVIOUS
      <3>3. QED
        BY <1>4, <2>1, <3>1, <3>2 DEF FoldsUp, S
    <2>2. g[{}] = NothingRead
      BY <1>4 DEF FoldsUp
    <2> DEFINE e == [s \in SUBSET S |->
                         IF s = {} THEN NothingRead
                         ELSE Scan(g[s \ {Max(s)}], lines[Max(s)], kind, maxLines)]
    <2>3. \A T \in SUBSET S : g[T] = e[T]
      BY <2>1, <2>2
    <2>4. g = e
      BY <2>3
    <2>5. QED
      BY <2>4
  <1>6. IsIter(iter)
    <2> HIDE DEF IsIter
    <2>1. QED
      BY <1>5
  <1>7. ScanAll(lines, kind, maxLines) = iter[S]
    BY <1>1 DEF ScanAll, FoldLeft, MapThenFoldSet, NothingRead
  <1> HIDE DEF iter
  <1> DEFINE h == [n \in 0 .. N |-> iter[1 .. n]]
  <1>8. h[0] = NothingRead /\ h[N] = iter[S]
    <2>1. 1 .. 0 = {} /\ {} \in SUBSET S /\ 0 \in 0 .. N /\ N \in 0 .. N
      BY <1>1
    <2>2. QED
      BY <1>6, <2>1 DEF S
  <1>9. ASSUME NEW n \in 1 .. N
        PROVE  h[n] = Scan(h[n - 1], lines[n], kind, maxLines)
    <2>1. /\ 1 .. n \in SUBSET S /\ 1 .. n # {} /\ (1 .. n) \ {n} = 1 .. (n - 1)
          /\ n \in 0 .. N /\ n - 1 \in 0 .. N /\ n \in Nat \ {0}
      <3>1. n \in Nat \ {0} /\ n <= N /\ N \in Nat
        BY <1>1
      <3>2. 1 .. n \in SUBSET S /\ n \in 1 .. n
        BY <3>1 DEF S
      <3>3. (1 .. n) \ {n} = 1 .. (n - 1)
        BY <3>1
      <3>4. n \in 0 .. N /\ n - 1 \in 0 .. N
        BY <3>1
      <3>5. QED
        BY <3>1, <3>2, <3>3, <3>4
    <2>2. Max(1 .. n) = n
      BY <2>1, MaxUpTo
    <2>3. iter[1 .. n] = Scan(iter[(1 .. n) \ {n}], lines[n], kind, maxLines)
      BY <1>6, <2>1, <2>2
    <2>4. QED
      BY <2>1, <2>3
  <1> HIDE DEF h
  <1>10. QED
    BY <1>7, <1>8, <1>9 DEF Reads, N

(* Two readings agree on the lines both read.                              *)
StartsWith(more, lines) ==
  /\ Len(lines) <= Len(more)
  /\ \A n \in 1 .. Len(lines) : more[n] = lines[n]

Agree(h, k, lines, L) == \A n \in 0 .. Len(lines) : h[n] \in Readings(L) /\ k[n] = h[n]

LEMMA ReadingsAgree ==
  ASSUME NEW L, NEW kind, NEW maxLines, NEW lines \in Seq(L), NEW more \in Seq(L), NEW h, NEW k,
         StartsWith(more, lines),
         Reads(h, lines, kind, maxLines), Reads(k, more, kind, maxLines)
  PROVE  Agree(h, k, lines, L)
  <1> USE DEF StartsWith
  <1> DEFINE G == {n \in Nat : n <= Len(lines) => h[n] \in Readings(L) /\ k[n] = h[n]}
  <1>1. 0 \in G
    <2>1. NothingRead \in Readings(L)
      BY NothingTyped
    <2>2. QED
      BY <2>1 DEF Reads
  <1>2. ASSUME NEW n \in G
        PROVE  n + 1 \in G
    <2>1. SUFFICES ASSUME n + 1 <= Len(lines)
                   PROVE  h[n + 1] \in Readings(L) /\ k[n + 1] = h[n + 1]
      OBVIOUS
    <2>2. /\ Len(lines) \in Nat /\ Len(more) \in Nat /\ n \in Nat
          /\ n + 1 \in 1 .. Len(lines) /\ n + 1 \in 1 .. Len(more) /\ (n + 1) - 1 = n
          /\ lines[n + 1] \in L /\ more[n + 1] = lines[n + 1]
          /\ h[n] \in Readings(L) /\ k[n] = h[n]
      <3>1. n <= Len(lines) /\ Len(lines) \in Nat /\ Len(more) \in Nat /\ n \in Nat
        BY <2>1
      <3>2. n + 1 \in 1 .. Len(lines) /\ n + 1 \in 1 .. Len(more)
        BY <2>1, <3>1
      <3>3. lines[n + 1] \in L
        BY <3>2
      <3>4. QED
        BY <3>1, <3>2, <3>3
    <2> HIDE DEF G
    <2>3. h[n + 1] = Scan(h[n], lines[n + 1], kind, maxLines)
      BY <2>2 DEF Reads
    <2>4. k[n + 1] = Scan(h[n], lines[n + 1], kind, maxLines)
      BY <2>2 DEF Reads
    <2>5. QED
      BY <2>2, <2>3, <2>4, ScanType
  <1>3. G = Nat
    <2>1. G \in SUBSET Nat
      OBVIOUS
    <2> HIDE DEF G
    <2>2. QED
      BY <1>1, <1>2, <2>1, NatInductionSet
  <1>4. QED
    BY <1>3 DEF Agree

LEMMA ScanAllEmpty ==
  ASSUME NEW kind, NEW maxLines
  PROVE  ScanAll(<<>>, kind, maxLines) = NothingRead
  <1>1. <<>> \in Seq({}) /\ Len(<<>>) = 0
    OBVIOUS
  <1>2. PICK h : /\ ScanAll(<<>>, kind, maxLines) = h[Len(<<>>)]
                 /\ Reads(h, <<>>, kind, maxLines)
    BY <1>1, ScanSteps
  <1>3. QED
    BY <1>1, <1>2 DEF Reads

LEMMA ScanAllType ==
  ASSUME NEW L, NEW kind, NEW maxLines, NEW lines \in Seq(L)
  PROVE  ScanAll(lines, kind, maxLines) \in Readings(L)
  <1>1. PICK h : /\ ScanAll(lines, kind, maxLines) = h[Len(lines)]
                 /\ Reads(h, lines, kind, maxLines)
    BY ScanSteps
  <1>2. Len(lines) \in 0 .. Len(lines) /\ StartsWith(lines, lines)
    BY DEF StartsWith
  <1>3. Agree(h, h, lines, L)
    BY <1>1, <1>2, ReadingsAgree
  <1>4. QED
    BY <1>1, <1>2, <1>3 DEF Agree

(* Reading a line more is scanning it.                                     *)
LEMMA ScanAllAppend ==
  ASSUME NEW L, NEW kind, NEW maxLines, NEW lines \in Seq(L), NEW l \in L
  PROVE  ScanAll(Append(lines, l), kind, maxLines)
           = Scan(ScanAll(lines, kind, maxLines), l, kind, maxLines)
  <1> DEFINE more == Append(lines, l)
  <1>1. /\ more \in Seq(L) /\ Len(more) = Len(lines) + 1 /\ Len(lines) \in Nat
        /\ more[Len(lines) + 1] = l /\ \A n \in 1 .. Len(lines) : more[n] = lines[n]
    BY AppendProperties
  <1> HIDE DEF more
  <1>2. PICK h : /\ ScanAll(lines, kind, maxLines) = h[Len(lines)]
                 /\ Reads(h, lines, kind, maxLines)
    BY ScanSteps
  <1>3. PICK k : /\ ScanAll(more, kind, maxLines) = k[Len(more)]
                 /\ Reads(k, more, kind, maxLines)
    BY <1>1, ScanSteps
  <1>4. k[Len(lines)] = h[Len(lines)]
    <2>1. Len(lines) \in 0 .. Len(lines) /\ StartsWith(more, lines)
      BY <1>1 DEF StartsWith
    <2>2. Agree(h, k, lines, L)
      BY <1>1, <1>2, <1>3, <2>1, ReadingsAgree
    <2>3. QED
      BY <2>1, <2>2 DEF Agree
  <1>5. k[Len(more)] = Scan(k[Len(lines)], l, kind, maxLines)
    <2>1. Len(more) \in 1 .. Len(more) /\ Len(more) - 1 = Len(lines)
      BY <1>1
    <2>2. QED
      BY <1>1, <1>3, <2>1 DEF Reads
  <1>6. QED
    BY <1>2, <1>3, <1>4, <1>5 DEF more

-----------------------------------------------------------------------------
(* What a step of the tailer of f does to its own state, action by action. *)

Line(f) == <<f, pos[f] + 1>>

FileStep(f) ==
  TakeLine(f) \/ Tick(f) \/ SeeDone(f) \/ LinesClosed(f) \/ FlushStep(f) \/ SendStep(f)

LEMMA NextCases ==
  ASSUME [Next]_vars
  PROVE  Cancel \/ Consume \/ CloseCh \/ UNCHANGED vars \/ \E f \in Files : FileStep(f)
  BY DEF Next, FileStep, Ended

Same(f) ==
  /\ pos'[f] = pos[f] /\ pc'[f] = pc[f] /\ logBuffer'[f] = logBuffer[f]
  /\ lineCount'[f] = lineCount[f] /\ inHand'[f] = inHand[f] /\ sent'[f] = sent[f]
  /\ dropped'[f] = dropped[f]

Takes(f) ==
  /\ pc[f] = "select" /\ pos[f] < FileLen[f]
  /\ pos'[f] = pos[f] + 1 /\ sent'[f] = sent[f]

TakesInHand(f) ==
  /\ Takes(f)
  /\ pc'[f] = IF prefixMode THEN "flushStart" ELSE "send"
  /\ prefixMode => Line(f) \in HasPrefix /\ logBuffer[f] # <<>>
  /\ inHand'[f] = Line(f)
  /\ logBuffer'[f] = logBuffer[f] /\ lineCount'[f] = lineCount[f] /\ dropped'[f] = dropped[f]

Begins(f) ==
  /\ Takes(f) /\ prefixMode
  /\ Line(f) \in HasPrefix \/ (Line(f) \notin HasPrefix \cup IsEmpty /\ ~Full(f))
  /\ pc'[f] = "select" /\ inHand'[f] = inHand[f] /\ dropped'[f] = dropped[f]
  /\ logBuffer[f] = <<>> /\ logBuffer'[f] = <<Line(f)>> /\ lineCount'[f] = 1

Continues(f) ==
  /\ Takes(f) /\ prefixMode /\ Line(f) \notin HasPrefix /\ ~Full(f)
  /\ pc'[f] = "select" /\ inHand'[f] = inHand[f] /\ dropped'[f] = dropped[f]
  /\ logBuffer[f] # <<>> /\ logBuffer'[f] = Append(logBuffer[f], Line(f))
  /\ lineCount'[f] = lineCount[f] + 1

LeavesOut(f) ==
  /\ Takes(f) /\ prefixMode /\ Line(f) \notin HasPrefix
  /\ pc'[f] = "select" /\ inHand'[f] = inHand[f] /\ logBuffer'[f] = logBuffer[f]
  /\ dropped'[f] = dropped[f] \cup {Line(f)}
  /\ \/ Full(f) /\ lineCount'[f] = lineCount[f]
     \/ ~Full(f) /\ Line(f) \in IsEmpty /\ logBuffer[f] = <<>> /\ lineCount'[f] = 1

Flushes(f) ==
  /\ Flushing(f) /\ pc'[f] \in {"select", "done"}
  /\ pos'[f] = pos[f] /\ dropped'[f] = dropped[f] /\ inHand'[f] = NoLine
  /\ logBuffer'[f] = IF pc[f] = "flushStart" THEN <<inHand[f]>> ELSE <<>>
  /\ lineCount'[f] = IF pc[f] = "flushStart" THEN 1 ELSE 0
  /\ sent'[f] = Append(sent[f], logBuffer[f]) \/ (cancelled /\ sent'[f] = sent[f])

Sends(f) ==
  /\ pc[f] = "send" /\ pc'[f] \in {"select", "done"}
  /\ pos'[f] = pos[f] /\ dropped'[f] = dropped[f] /\ inHand'[f] = NoLine
  /\ logBuffer'[f] = logBuffer[f] /\ lineCount'[f] = lineCount[f]
  /\ sent'[f] = Append(sent[f], <<inHand[f]>>) \/ (cancelled /\ sent'[f] = sent[f])

Leaves(f) ==
  /\ pc[f] = "select" /\ pc'[f] \in {"flushLoop", "flushExit", "done"}
  /\ pc'[f] # "done" => logBuffer[f] # <<>>
  /\ pos'[f] = pos[f] /\ logBuffer'[f] = logBuffer[f] /\ lineCount'[f] = lineCount[f]
  /\ inHand'[f] = inHand[f] /\ sent'[f] = sent[f] /\ dropped'[f] = dropped[f]

LEMMA LineTyped ==
  ASSUME TypeOK, NEW f \in Files, pos[f] < FileLen[f]
  PROVE  /\ Line(f) \in AllLines /\ Line(f) # NoLine
         /\ pos[f] + 1 \in Nat /\ pos[f] + 1 <= FileLen[f]
  <1>1. pos[f] \in Nat /\ FileLen[f] \in Nat
    BY ReaderAssumption DEF TypeOK
  <1>2. pos[f] + 1 \in 1 .. FileLen[f]
    BY <1>1
  <1>3. Line(f) \in {f} \X (1 .. FileLen[f])
    BY <1>2 DEF Line
  <1>4. QED
    BY <1>1, <1>2, <1>3, ReaderAssumption DEF AllLines

LEMMA Effects ==
  ASSUME TypeOK, NEW f \in Files, FileStep(f)
  PROVE  /\ UNCHANGED <<inputs, cancelled, chClosed>>
         /\ \A g \in Files : g # f => Same(g)
         /\ \/ TakesInHand(f) \/ Begins(f) \/ Continues(f) \/ LeavesOut(f)
            \/ Flushes(f) \/ Sends(f) \/ Leaves(f)
  <1> USE DEF TypeOK, Same, CallFlush
  <1>1. CASE TakeLine(f)
    <2> USE DEF TakeLine, Takes, Line
    <2>0. /\ Line(f) \in HasPrefix <=> text[Line(f)] = "prefixed"
          /\ Line(f) \in IsEmpty <=> text[Line(f)] = "empty"
      <3>1. Line(f) \in AllLines
        BY <1>1, LineTyped DEF TakeLine
      <3>2. QED
        BY <3>1 DEF HasPrefix, IsEmpty
    <2>1. CASE TakeEntry(f, Line(f))
      BY <1>1, <2>1 DEF TakeEntry, TakesInHand
    <2>2. CASE TakeStart(f, Line(f))
      BY <1>1, <2>0, <2>2 DEF TakeStart, TakesInHand, Begins
    <2>3. CASE TakeContinuation(f, Line(f))
      <3>2. CASE logBuffer[f] # <<>>
        BY <1>1, <2>0, <2>3, <3>2 DEF TakeContinuation, Continues
      <3>3. CASE logBuffer[f] = <<>> /\ text[Line(f)] = "empty"
        BY <1>1, <2>0, <2>3, <3>3 DEF TakeContinuation, LeavesOut
      <3>4. CASE logBuffer[f] = <<>> /\ text[Line(f)] # "empty"
        <4>1. Append(logBuffer[f], Line(f)) = <<Line(f)>>
          BY <3>4
        <4>2. QED
          BY <1>1, <2>0, <2>3, <3>4, <4>1 DEF TakeContinuation, Begins
      <3>5. QED
        BY <3>2, <3>3, <3>4
    <2>4. CASE DropContinuation(f, Line(f))
      BY <1>1, <2>0, <2>4 DEF DropContinuation, LeavesOut
    <2>5. QED
      BY <1>1, <2>1, <2>2, <2>3, <2>4
  <1>2. CASE Tick(f) \/ SeeDone(f) \/ LinesClosed(f)
    BY <1>2 DEF Tick, SeeDone, LinesClosed, Leave, Leaves
  <1>3. CASE FlushStep(f)
    <2>1. AfterFlush(f) => /\ pc'[f] \in {"select", "done"} /\ inHand'[f] = NoLine
                           /\ logBuffer'[f] = IF pc[f] = "flushStart" THEN <<inHand[f]>> ELSE <<>>
                           /\ lineCount'[f] = IF pc[f] = "flushStart" THEN 1 ELSE 0
                           /\ \A g \in Files : g # f =>
                                /\ pc'[g] = pc[g] /\ inHand'[g] = inHand[g]
                                /\ logBuffer'[g] = logBuffer[g] /\ lineCount'[g] = lineCount[g]
      BY DEF AfterFlush
    <2>2. CASE FlushSends(f)
      <3>1. sent'[f] = Append(sent[f], logBuffer[f]) /\ \A g \in Files : g # f => sent'[g] = sent[g]
        BY <2>2 DEF FlushSends
      <3>2. /\ Flushing(f) /\ AfterFlush(f)
            /\ UNCHANGED <<inputs, cancelled, pos, dropped, chClosed>>
        BY <2>2 DEF FlushSends
      <3> HIDE DEF TypeOK
      <3>3. Flushes(f)
        BY <2>1, <3>1, <3>2 DEF Flushes
      <3>4. \A g \in Files : g # f => Same(g)
        BY <2>1, <3>1, <3>2
      <3>5. QED
        BY <3>2, <3>3, <3>4
    <2>3. CASE FlushGivesUp(f)
      BY <2>1, <2>3 DEF FlushGivesUp, Flushes
    <2>4. QED
      BY <1>3, <2>2, <2>3 DEF FlushStep
  <1>4. CASE SendStep(f)
    <2>1. CASE SendLine(f)
      <3>1. sent'[f] = Append(sent[f], <<inHand[f]>>) /\ \A g \in Files : g # f => sent'[g] = sent[g]
        BY <2>1 DEF SendLine
      <3>2. /\ pc[f] = "send"
            /\ UNCHANGED <<inputs, cancelled, pos, logBuffer, lineCount, dropped, chClosed>>
            /\ inHand'[f] = NoLine /\ pc'[f] = "select"
            /\ \A g \in Files : g # f => inHand'[g] = inHand[g] /\ pc'[g] = pc[g]
        BY <2>1 DEF SendLine
      <3> HIDE DEF TypeOK
      <3>3. Sends(f)
        BY <3>1, <3>2 DEF Sends
      <3>4. \A g \in Files : g # f => Same(g)
        BY <3>1, <3>2
      <3>5. QED
        BY <3>2, <3>3, <3>4
    <2>2. CASE SendGivesUp(f)
      BY <2>2 DEF SendGivesUp, Sends
    <2>3. QED
      BY <1>4, <2>1, <2>2 DEF SendStep
  <1>5. QED
    BY <1>1, <1>2, <1>3, <1>4 DEF FileStep

-----------------------------------------------------------------------------
(* Types.                                                                  *)

TailersTyped ==
  /\ pos \in [Files -> Nat] /\ \A f \in Files : pos[f] <= FileLen[f]
  /\ pc \in [Files -> {"select", "send", "flushLoop", "flushStart", "flushExit", "done"}]
  /\ logBuffer \in [Files -> Seq(AllLines)]
  /\ lineCount \in [Files -> Nat] /\ \A f \in Files : lineCount[f] <= pos[f]
  /\ inHand \in [Files -> AllLines \cup {NoLine}]
  /\ sent \in [Files -> Seq(Seq(AllLines))]
  /\ dropped \in [Files -> SUBSET AllLines]

LEMMA TakeTyped ==
  ASSUME TypeOK, NEW f \in Files, TakeLine(f)
  PROVE  TailersTyped'
  <1> USE DEF TypeOK, TailersTyped, CallFlush
  <1>1. /\ Line(f) \in AllLines /\ pos[f] + 1 \in Nat /\ pos[f] + 1 <= FileLen[f]
        /\ Line(f) = <<f, pos[f] + 1>>
        /\ pos' = [pos EXCEPT ![f] = @ + 1] /\ sent' = sent
    BY LineTyped DEF TakeLine, Line
  <1>2. /\ pos' \in [Files -> Nat] /\ \A g \in Files : pos'[g] <= FileLen[g]
        /\ pos'[f] = pos[f] + 1
        /\ \A g \in Files : lineCount[g] <= pos'[g]
    BY <1>1, ReaderAssumption
  <1>3. \/ lineCount' = lineCount
        \/ \E count \in Nat : count <= pos[f] + 1 /\ lineCount' = [lineCount EXCEPT ![f] = count]
    <2>1. /\ lineCount[f] + 1 \in Nat /\ lineCount[f] + 1 <= pos[f] + 1
          /\ 1 \in Nat /\ 1 <= pos[f] + 1
      OBVIOUS
    <2>2. CASE TakeEntry(f, Line(f)) \/ DropContinuation(f, Line(f))
      BY <2>1, <2>2 DEF TakeEntry, DropContinuation
    <2>3. CASE TakeStart(f, Line(f))
      BY <2>1, <2>3 DEF TakeStart
    <2>4. CASE TakeContinuation(f, Line(f))
      <3>1. lineCount' = [lineCount EXCEPT ![f] = IF logBuffer[f] = <<>> THEN 1
                                                  ELSE lineCount[f] + 1]
        BY <2>4 DEF TakeContinuation
      <3>2. QED
        BY <2>1, <3>1
    <2>5. QED
      BY <1>1, <2>2, <2>3, <2>4 DEF TakeLine
  <1>4. lineCount' \in [Files -> Nat] /\ \A g \in Files : lineCount'[g] <= pos'[g]
    BY <1>2, <1>3
  <1>5. \/ logBuffer' = logBuffer
        \/ \E b \in Seq(AllLines) : logBuffer' = [logBuffer EXCEPT ![f] = b]
    <2>1. Append(logBuffer[f], Line(f)) \in Seq(AllLines) /\ <<Line(f)>> \in Seq(AllLines)
      BY <1>1
    <2>2. CASE TakeEntry(f, Line(f)) \/ DropContinuation(f, Line(f))
      BY <2>1, <2>2 DEF TakeEntry, DropContinuation
    <2>3. CASE TakeStart(f, Line(f))
      BY <2>1, <2>3 DEF TakeStart
    <2>4. CASE TakeContinuation(f, Line(f))
      <3>1. \E b \in {logBuffer[f], Append(logBuffer[f], Line(f))} :
              logBuffer' = [logBuffer EXCEPT ![f] = b]
        BY <2>4 DEF TakeContinuation
      <3>2. QED
        BY <2>1, <3>1
    <2>5. QED
      BY <1>1, <2>2, <2>3, <2>4 DEF TakeLine
  <1>6. /\ pc' \in [Files -> {"select", "send", "flushLoop", "flushStart", "flushExit", "done"}]
        /\ inHand' \in [Files -> AllLines \cup {NoLine}]
        /\ dropped' \in [Files -> SUBSET AllLines]
    <2>1. CASE TakeEntry(f, Line(f))
      BY <1>1, <2>1 DEF TakeEntry
    <2>2. CASE TakeStart(f, Line(f))
      BY <1>1, <2>2 DEF TakeStart
    <2>3. CASE TakeContinuation(f, Line(f)) \/ DropContinuation(f, Line(f))
      <3>1. dropped' = dropped \/ dropped' = [dropped EXCEPT ![f] = @ \cup {Line(f)}]
        BY <2>3 DEF TakeContinuation, DropContinuation
      <3>2. dropped' \in [Files -> SUBSET AllLines]
        <4>1. dropped[f] \cup {Line(f)} \in SUBSET AllLines
          BY <1>1
        <4>2. QED
          BY <3>1, <4>1
      <3>3. QED
        BY <2>3, <3>2 DEF TakeContinuation, DropContinuation
    <2>4. QED
      BY <1>1, <2>1, <2>2, <2>3 DEF TakeLine
  <1>7. logBuffer' \in [Files -> Seq(AllLines)]
    BY <1>5
  <1>8. QED
    BY <1>1, <1>2, <1>4, <1>6, <1>7

LEMMA HandTyped ==
  ASSUME TypeOK, LastInHand, NEW f \in Files, pc[f] \in {"send", "flushStart"}
  PROVE  /\ inHand[f] = <<f, pos[f]>> /\ pos[f] > 0
         /\ inHand[f] \in AllLines /\ inHand[f] # NoLine
  <1>1. pos[f] \in Nat /\ FileLen[f] \in Nat /\ pos[f] <= FileLen[f]
    BY ReaderAssumption DEF TypeOK
  <1>2. inHand[f] = <<f, pos[f]>> /\ pos[f] > 0
    BY DEF LastInHand
  <1>3. inHand[f] \in {f} \X (1 .. FileLen[f])
    BY <1>1, <1>2
  <1>4. QED
    BY <1>2, <1>3, ReaderAssumption DEF AllLines

LEMMA FlushTyped ==
  ASSUME TypeOK, LastInHand, NEW f \in Files, FlushStep(f)
  PROVE  TailersTyped'
  <1> USE DEF TypeOK, TailersTyped
  <1>1. AfterFlush(f) /\ UNCHANGED <<pos, dropped>> /\ Flushing(f)
    BY DEF FlushStep, FlushSends, FlushGivesUp
  <1>2. pc[f] = "flushStart" => inHand[f] \in AllLines /\ pos[f] > 0
    BY HandTyped
  <1>3. logBuffer' \in [Files -> Seq(AllLines)]
    BY <1>1, <1>2 DEF AfterFlush
  <1>4. lineCount' \in [Files -> Nat] /\ \A g \in Files : lineCount'[g] <= pos'[g]
    BY <1>1, <1>2 DEF AfterFlush
  <1>5. /\ pc' \in [Files -> {"select", "send", "flushLoop", "flushStart", "flushExit", "done"}]
        /\ inHand' \in [Files -> AllLines \cup {NoLine}]
    BY <1>1 DEF AfterFlush
  <1>6. sent' \in [Files -> Seq(Seq(AllLines))]
    <2> DEFINE Entries == Seq(AllLines)
    <2>1. sent \in [Files -> Seq(Entries)] /\ logBuffer[f] \in Entries
      OBVIOUS
    <2>2. sent' = sent \/ sent' = [sent EXCEPT ![f] = Append(@, logBuffer[f])]
      BY DEF FlushStep, FlushSends, FlushGivesUp
    <2> HIDE DEF Entries, TypeOK, TailersTyped
    <2>3. Append(sent[f], logBuffer[f]) \in Seq(Entries)
      BY <2>1
    <2>4. sent' \in [Files -> Seq(Entries)]
      BY <2>1, <2>2, <2>3
    <2>5. QED
      BY <2>4 DEF Entries
  <1>7. QED
    BY <1>1, <1>3, <1>4, <1>5, <1>6

LEMMA SendTyped ==
  ASSUME TypeOK, LastInHand, NEW f \in Files, SendStep(f)
  PROVE  TailersTyped'
  <1> USE DEF TypeOK, TailersTyped
  <1>1. inHand[f] \in AllLines
    BY HandTyped DEF SendStep, SendLine, SendGivesUp
  <1>2. sent' \in [Files -> Seq(Seq(AllLines))]
    <2> DEFINE Entries == Seq(AllLines)
    <2>1. sent \in [Files -> Seq(Entries)] /\ <<inHand[f]>> \in Entries
      BY <1>1
    <2>2. sent' = sent \/ sent' = [sent EXCEPT ![f] = Append(@, <<inHand[f]>>)]
      BY DEF SendStep, SendLine, SendGivesUp
    <2> HIDE DEF Entries, TypeOK, TailersTyped
    <2>3. Append(sent[f], <<inHand[f]>>) \in Seq(Entries)
      BY <2>1
    <2>4. sent' \in [Files -> Seq(Entries)]
      BY <2>1, <2>2, <2>3
    <2>5. QED
      BY <2>4 DEF Entries
  <1>3. QED
    BY <1>2 DEF SendStep, SendLine, SendGivesUp

ChannelTyped == ch \in Seq(Seq(AllLines)) /\ Len(ch) <= ChanCap

LEMMA AppendChannel ==
  ASSUME ChannelTyped, NEW e \in Seq(AllLines), Len(ch) < ChanCap, ch' = Append(ch, e)
  PROVE  ChannelTyped'
  <1> DEFINE Entries == Seq(AllLines)
  <1>1. ch \in Seq(Entries) /\ e \in Entries
    BY DEF ChannelTyped
  <1> HIDE DEF Entries
  <1>2. Append(ch, e) \in Seq(Entries) /\ Len(Append(ch, e)) = Len(ch) + 1 /\ Len(ch) \in Nat
    BY <1>1
  <1>3. QED
    BY <1>2, ReaderAssumption DEF ChannelTyped, Entries

LEMMA ChannelKept ==
  ASSUME TypeOK, LastInHand, [Next]_vars
  PROVE  ChannelTyped'
  <1>1. ChannelTyped
    BY DEF TypeOK, ChannelTyped
  <1>2. CASE UNCHANGED ch
    BY <1>1, <1>2 DEF ChannelTyped
  <1>3. CASE Consume
    <2> DEFINE Entries == Seq(AllLines)
    <2>1. ch \in Seq(Entries) /\ ch # <<>> /\ ch' = Tail(ch) /\ Len(ch) <= ChanCap
      BY <1>1, <1>3 DEF ChannelTyped, Consume
    <2> HIDE DEF Entries
    <2>2. Tail(ch) \in Seq(Entries) /\ Len(Tail(ch)) = Len(ch) - 1 /\ Len(ch) \in Nat
      BY <2>1
    <2>3. QED
      BY <2>1, <2>2, ReaderAssumption DEF ChannelTyped, Entries
  <1>4. ASSUME NEW f \in Files, FlushSends(f) \/ SendLine(f)
        PROVE  ChannelTyped'
    <2>1. CASE FlushSends(f)
      BY <1>1, <2>1, AppendChannel DEF FlushSends, TypeOK
    <2>2. CASE SendLine(f)
      <3>1. <<inHand[f]>> \in Seq(AllLines)
        BY <2>2, HandTyped DEF SendLine
      <3>2. QED
        BY <1>1, <2>2, <3>1, AppendChannel DEF SendLine
    <2>3. QED
      BY <1>4, <2>1, <2>2
  <1>5. ASSUME NEW f \in Files, FileStep(f), ~FlushSends(f), ~SendLine(f)
        PROVE  UNCHANGED ch
    BY <1>5 DEF FileStep, TakeLine, Tick, SeeDone, LinesClosed, Leave, FlushStep,
       FlushGivesUp, SendStep, SendGivesUp
  <1>6. QED
    BY <1>2, <1>3, <1>4, <1>5, NextCases DEF Cancel, CloseCh, vars

LEMMA TypeKept ==
  ASSUME TypeOK, LastInHand, [Next]_vars
  PROVE  TypeOK'
  <1>1. ASSUME UNCHANGED tailerVars
        PROVE  TailersTyped'
    BY <1>1 DEF tailerVars, TypeOK, TailersTyped
  <1>2. ASSUME NEW f \in Files, FileStep(f)
        PROVE  TailersTyped'
    <2>1. CASE Tick(f) \/ SeeDone(f) \/ LinesClosed(f)
      BY <2>1 DEF Tick, SeeDone, LinesClosed, Leave, CallFlush, TypeOK, TailersTyped
    <2>2. QED
      BY <1>2, <2>1, TakeTyped, FlushTyped, SendTyped DEF FileStep
  <1>3. TailersTyped'
    BY <1>1, <1>2, NextCases DEF Cancel, Consume, CloseCh, vars
  <1>4. /\ UNCHANGED inputs
        /\ cancelled' \in BOOLEAN /\ chClosed' \in BOOLEAN
    <2>1. \A f \in Files : FileStep(f) => UNCHANGED <<inputs, cancelled, chClosed>>
      BY Effects
    <2>2. CASE \E f \in Files : FileStep(f)
      BY <2>1, <2>2 DEF TypeOK
    <2>3. CASE Cancel \/ Consume \/ CloseCh \/ UNCHANGED vars
      BY <2>3 DEF Cancel, Consume, CloseCh, vars, TypeOK
    <2>4. QED
      BY <2>2, <2>3, NextCases
  <1>5. ChannelTyped'
    BY ChannelKept
  <1>6. prefixMode' \in BOOLEAN /\ text' \in [AllLines -> {"prefixed", "empty", "other"}]
    BY <1>4 DEF inputs, TypeOK
  <1>7. QED
    BY <1>3, <1>4, <1>5, <1>6 DEF TypeOK, TailersTyped, ChannelTyped

-----------------------------------------------------------------------------
(* Lines in hand, and the end of the channel.                              *)

LEMMA LastInHandKept ==
  ASSUME TypeOK, LastInHand, [Next]_vars
  PROVE  LastInHand'
  <1>1. CASE UNCHANGED <<inputs, tailerVars>>
    BY <1>1 DEF inputs, tailerVars, LastInHand
  <1>2. ASSUME NEW f \in Files, FileStep(f)
        PROVE  LastInHand'
    <2>1. UNCHANGED prefixMode
      BY <1>2, Effects DEF inputs
    <2>2. pos[f] \in Nat
      BY DEF TypeOK
    <2>3. /\ inHand'[f] = IF pc'[f] \in {"send", "flushStart"} THEN <<f, pos'[f]>> ELSE NoLine
          /\ pc'[f] \in {"send", "flushStart"} => pos'[f] > 0
          /\ pc'[f] = "send" => ~prefixMode'
          /\ pc'[f] = "flushStart" => prefixMode'
          /\ ~prefixMode' => logBuffer'[f] = <<>>
      <3> USE <2>1, <2>2 DEF LastInHand
      <3>1. CASE TakesInHand(f)
        <4>1. /\ inHand'[f] = <<f, pos'[f]>> /\ pos'[f] > 0
              /\ logBuffer'[f] = logBuffer[f]
          BY <3>1 DEF TakesInHand, Takes, Line
        <4>2. CASE prefixMode
          BY <3>1, <4>1, <4>2 DEF TakesInHand
        <4>3. CASE ~prefixMode
          BY <3>1, <4>1, <4>3 DEF TakesInHand
        <4>4. QED
          BY <4>2, <4>3
      <3>2. CASE Begins(f) \/ Continues(f) \/ LeavesOut(f)
        BY <3>2 DEF Begins, Continues, LeavesOut, Takes
      <3>3. CASE Flushes(f) \/ Sends(f)
        <4>1. pc'[f] \notin {"send", "flushStart"} /\ inHand'[f] = NoLine
          BY <3>3 DEF Flushes, Sends
        <4>2. ~prefixMode => logBuffer'[f] = <<>>
          BY <3>3 DEF Flushes, Sends
        <4>3. QED
          BY <4>1, <4>2
      <3>4. CASE Leaves(f)
        BY <3>4 DEF Leaves
      <3>5. QED
        BY <1>2, <3>1, <3>2, <3>3, <3>4, Effects
    <2>4. \A g \in Files : g # f => Same(g)
      BY <1>2, Effects
    <2>5. QED
      BY <2>1, <2>3, <2>4 DEF LastInHand, Same
  <1>3. QED
    BY <1>1, <1>2, NextCases DEF Cancel, Consume, CloseCh, vars

LEMMA ClosedKept ==
  ASSUME TypeOK, LastInHand, ClosedAfterTailers, [Next]_vars
  PROVE  ClosedAfterTailers'
  <1>1. ASSUME NEW f \in Files, FileStep(f)
        PROVE  pc[f] # "done" /\ UNCHANGED chClosed
    BY <1>1, Effects DEF TakesInHand, Begins, Continues, LeavesOut, Takes, Flushes, Flushing,
       Sends, Leaves
  <1>2. CASE CloseCh
    BY <1>2 DEF CloseCh, tailerVars, LastInHand, ClosedAfterTailers
  <1>3. CASE UNCHANGED <<tailerVars, chClosed>>
    BY <1>3 DEF tailerVars, ClosedAfterTailers
  <1>4. CASE \E f \in Files : FileStep(f)
    BY <1>1, <1>4 DEF ClosedAfterTailers
  <1>5. QED
    BY <1>2, <1>3, <1>4, NextCases DEF Cancel, Consume, vars

-----------------------------------------------------------------------------
(* Entries.                                                                *)

LEMMA AppendElems ==
  ASSUME NEW X, NEW s \in Seq(X), NEW x \in X
  PROVE  Elems(Append(s, x)) = Elems(s) \cup {x}
  <1>1. /\ DOMAIN s = 1 .. Len(s) /\ Len(s) \in Nat
        /\ DOMAIN Append(s, x) = 1 .. (Len(s) + 1)
        /\ Append(s, x)[Len(s) + 1] = x
        /\ \A i \in 1 .. Len(s) : Append(s, x)[i] = s[i]
    BY AppendProperties
  <1>2. \A i \in 1 .. (Len(s) + 1) : i \in 1 .. Len(s) \/ i = Len(s) + 1
    BY <1>1
  <1>3. 1 .. Len(s) \subseteq 1 .. (Len(s) + 1) /\ Len(s) + 1 \in 1 .. (Len(s) + 1)
    BY <1>1
  <1>4. QED
    BY <1>1, <1>2, <1>3 DEF Elems

(* A step adds the empty entry, one of the last line, or the buffer with   *)
(* the next line at its end.                                               *)
LEMMA EntriesGrow ==
  ASSUME TypeOK, LastInHand, NEW f \in Files, FileStep(f),
         NEW e \in Elems(sent'[f]) \cup {logBuffer'[f]}
  PROVE  \/ e \in Elems(sent[f]) \cup {logBuffer[f]}
         \/ e = <<>>
         \/ e = <<<<f, pos'[f]>>>> /\ pos'[f] > 0
         \/ Continues(f) /\ e = Append(logBuffer[f], Line(f))
  <1> DEFINE Entries == Seq(AllLines)
  <1>1. sent[f] \in Seq(Entries) /\ logBuffer[f] \in Entries /\ pos[f] \in Nat
    BY DEF TypeOK
  <1> HIDE DEF Entries
  <1>2. CASE TakesInHand(f) \/ LeavesOut(f) \/ Leaves(f)
    BY <1>2 DEF TakesInHand, LeavesOut, Leaves, Takes
  <1>3. CASE Begins(f)
    BY <1>1, <1>3 DEF Begins, Takes, Line
  <1>4. CASE Continues(f)
    BY <1>4 DEF Continues, Takes
  <1>5. CASE Flushes(f)
    <2>1. logBuffer'[f] = <<>> \/ (logBuffer'[f] = <<<<f, pos'[f]>>>> /\ pos'[f] > 0)
      <3>1. CASE pc[f] = "flushStart"
        BY <1>5, <3>1, HandTyped DEF Flushes
      <3>2. CASE pc[f] # "flushStart"
        BY <1>5, <3>2 DEF Flushes
      <3>3. QED
        BY <3>1, <3>2
    <2>2. Elems(sent'[f]) \subseteq Elems(sent[f]) \cup {logBuffer[f]}
      <3>1. Elems(Append(sent[f], logBuffer[f])) = Elems(sent[f]) \cup {logBuffer[f]}
        BY <1>1, AppendElems
      <3>2. QED
        BY <1>5, <3>1 DEF Flushes
    <2>3. QED
      BY <2>1, <2>2
  <1>6. CASE Sends(f)
    <2>1. <<inHand[f]>> = <<<<f, pos'[f]>>>> /\ pos'[f] > 0 /\ <<inHand[f]>> \in Entries
      <3>1. inHand[f] = <<f, pos[f]>> /\ pos[f] > 0 /\ inHand[f] \in AllLines
        BY <1>6, HandTyped DEF Sends
      <3>2. QED
        BY <1>6, <3>1 DEF Sends, Entries
    <2>2. Elems(Append(sent[f], <<inHand[f]>>)) = Elems(sent[f]) \cup {<<inHand[f]>>}
      BY <1>1, <2>1, AppendElems
    <2>3. Elems(sent'[f]) \subseteq Elems(sent[f]) \cup {<<inHand[f]>>}
      BY <1>6, <2>2 DEF Sends
    <2>4. logBuffer'[f] = logBuffer[f]
      BY <1>6 DEF Sends
    <2>5. QED
      BY <2>1, <2>3, <2>4
  <1>7. QED
    BY <1>2, <1>3, <1>4, <1>5, <1>6, Effects

LEMMA PosGrows ==
  ASSUME TypeOK, NEW f \in Files, FileStep(f)
  PROVE  pos[f] \in Nat /\ pos'[f] \in Nat /\ pos[f] <= pos'[f]
  <1>1. pos'[f] = pos[f] \/ pos'[f] = pos[f] + 1
    BY Effects DEF TakesInHand, Begins, Continues, LeavesOut, Takes, Flushes, Sends, Leaves
  <1>2. pos[f] \in Nat
    BY DEF TypeOK
  <1>3. QED
    BY <1>1, <1>2

LEMMA OnlyTakenKept ==
  ASSUME TypeOK, LastInHand, OnlyTaken, [Next]_vars
  PROVE  OnlyTaken'
  <1>1. CASE UNCHANGED tailerVars
    BY <1>1 DEF tailerVars, OnlyTaken
  <1>2. ASSUME NEW f \in Files, FileStep(f)
        PROVE  OnlyTaken'
    <2>1. ASSUME NEW e \in Elems(sent'[f]) \cup {logBuffer'[f]}, NEW i \in DOMAIN e
          PROVE  e[i] \in {f} \X (1 .. pos'[f])
      <3>1. pos[f] \in Nat /\ pos'[f] \in Nat /\ pos[f] <= pos'[f]
        BY <1>2, PosGrows
      <3>2. CASE e \in Elems(sent[f]) \cup {logBuffer[f]}
        BY <3>1, <3>2 DEF OnlyTaken
      <3>3. CASE e = <<>>
        BY <3>3
      <3>4. CASE e = <<<<f, pos'[f]>>>> /\ pos'[f] > 0
        BY <3>1, <3>4
      <3>5. CASE Continues(f) /\ e = Append(logBuffer[f], Line(f))
        <4>1. logBuffer[f] \in Seq(AllLines) /\ Line(f) \in AllLines
          BY <3>5, LineTyped DEF TypeOK, Continues, Takes
        <4>2. i \in DOMAIN logBuffer[f] \/ e[i] = Line(f)
          BY <3>5, <4>1
        <4>3. i \in DOMAIN logBuffer[f] => e[i] = logBuffer[f][i]
          BY <3>5, <4>1
        <4>4. Line(f) = <<f, pos'[f]>> /\ pos'[f] > 0
          BY <3>1, <3>5 DEF Continues, Takes, Line
        <4>5. QED
          BY <3>1, <4>2, <4>3, <4>4 DEF OnlyTaken
      <3>6. QED
        BY <1>2, <3>2, <3>3, <3>4, <3>5, EntriesGrow
    <2>2. \A g \in Files : g # f => Same(g)
      BY <1>2, Effects
    <2>3. QED
      BY <2>1, <2>2 DEF OnlyTaken, Same
  <1>3. QED
    BY <1>1, <1>2, NextCases DEF Cancel, Consume, CloseCh, vars

LEMMA BufferCountedKept ==
  ASSUME TypeOK, LastInHand, BufferCounted, [Next]_vars
  PROVE  BufferCounted'
  <1>1. CASE UNCHANGED tailerVars
    BY <1>1 DEF tailerVars, BufferCounted, Full
  <1>2. ASSUME NEW f \in Files, FileStep(f)
        PROVE  BufferCounted'
    <2>1. /\ logBuffer[f] \in Seq(AllLines) /\ lineCount[f] \in Nat /\ pos[f] \in Nat
          /\ Len(logBuffer[f]) \in Nat /\ MaxLines \in Nat
      BY ReaderAssumption DEF TypeOK
    <2>2. /\ \/ lineCount'[f] = Len(logBuffer'[f])
             \/ logBuffer'[f] = <<>> /\ lineCount'[f] = 1
          /\ logBuffer'[f] # <<>> /\ inHand'[f] = NoLine
                /\ ~(MaxLines > 0 /\ lineCount'[f] >= MaxLines)
               => logBuffer'[f][Len(logBuffer'[f])] = <<f, pos'[f]>>
      <3> USE <2>1 DEF BufferCounted, Full
      <3>1. CASE TakesInHand(f)
        <4>1. inHand'[f] # NoLine
          BY <3>1, LineTyped DEF TakesInHand, Takes
        <4>2. QED
          BY <3>1, <4>1 DEF TakesInHand
      <3>2. CASE Begins(f)
        BY <3>2 DEF Begins, Takes, Line
      <3>3. CASE Continues(f)
        <4>1. Line(f) \in AllLines /\ Line(f) = <<f, pos'[f]>>
          BY <3>3, LineTyped DEF Continues, Takes, Line
        <4>2. /\ Len(Append(logBuffer[f], Line(f))) = Len(logBuffer[f]) + 1
              /\ Append(logBuffer[f], Line(f))[Len(logBuffer[f]) + 1] = Line(f)
          BY <4>1
        <4>3. QED
          BY <3>3, <4>1, <4>2 DEF Continues
      <3>4. CASE LeavesOut(f)
        BY <3>4 DEF LeavesOut
      <3>5. CASE Flushes(f)
        <4>1. CASE pc[f] = "flushStart"
          BY <3>5, <4>1, HandTyped DEF Flushes
        <4>2. CASE pc[f] # "flushStart"
          BY <3>5, <4>2 DEF Flushes
        <4>3. QED
          BY <4>1, <4>2
      <3>6. CASE Sends(f)
        <4>1. logBuffer[f] = <<>>
          BY <3>6 DEF Sends, LastInHand
        <4>2. QED
          BY <3>6, <4>1 DEF Sends
      <3>7. CASE Leaves(f)
        BY <3>7 DEF Leaves
      <3>8. QED
        BY <1>2, <3>1, <3>2, <3>3, <3>4, <3>5, <3>6, <3>7, Effects
    <2>3. \A g \in Files : g # f => Same(g)
      BY <1>2, Effects
    <2>4. QED
      BY <2>2, <2>3 DEF BufferCounted, Full, Same
  <1>3. QED
    BY <1>1, <1>2, NextCases DEF Cancel, Consume, CloseCh, vars

LEMMA BufferEnds ==
  ASSUME TypeOK, OnlyTaken, NEW f \in Files, logBuffer[f] # <<>>
  PROVE  /\ Len(logBuffer[f]) \in Nat \ {0} /\ Len(logBuffer[f]) \in DOMAIN logBuffer[f]
         /\ logBuffer[f][Len(logBuffer[f])] \in {f} \X (1 .. pos[f])
  <1>1. logBuffer[f] \in Seq(AllLines)
    BY DEF TypeOK
  <1>2. Len(logBuffer[f]) \in Nat \ {0} /\ Len(logBuffer[f]) \in DOMAIN logBuffer[f]
    BY <1>1
  <1>3. QED
    BY <1>2 DEF OnlyTaken

LEMMA RestDroppedKept ==
  ASSUME TypeOK, LastInHand, OnlyTaken, BufferCounted, RestDropped, [Next]_vars
  PROVE  RestDropped'
  <1>1. CASE UNCHANGED <<inputs, tailerVars>>
    BY <1>1 DEF inputs, tailerVars, RestDropped, IsEmpty
  <1>2. ASSUME NEW f \in Files, FileStep(f)
        PROVE  RestDropped'
    <2>1. IsEmpty' = IsEmpty
      BY <1>2, Effects DEF inputs, IsEmpty
    <2>2. /\ pos[f] \in Nat /\ MaxLines \in Nat /\ logBuffer[f] \in Seq(AllLines)
          /\ inHand[f] # NoLine => inHand[f] = <<f, pos[f]>>
      BY ReaderAssumption DEF TypeOK, LastInHand
    <2> DEFINE last == logBuffer[f][Len(logBuffer[f])][2]
    <2>3. /\ logBuffer[f] # <<>> =>
               last \in Nat /\ \A n \in last + 1 .. pos[f] : <<f, n>> \in dropped[f] \cup {inHand[f]}
          /\ MaxLines = 0 => dropped[f] \subseteq IsEmpty
      BY BufferEnds DEF RestDropped
    <2>4. /\ logBuffer'[f] # <<>> =>
               \A n \in logBuffer'[f][Len(logBuffer'[f])][2] + 1 .. pos'[f] :
                 <<f, n>> \in dropped'[f] \cup {inHand'[f]}
          /\ MaxLines = 0 => dropped'[f] \subseteq IsEmpty
      <3>1. CASE TakesInHand(f)
        <4>1. inHand[f] = NoLine
          BY <3>1 DEF TakesInHand, Takes, LastInHand
        <4>2. \A n \in last + 1 .. pos'[f] : n \in last + 1 .. pos[f] \/ <<f, n>> = inHand'[f]
          BY <2>2, <3>1 DEF TakesInHand, Takes, Line
        <4>3. \A n \in last + 1 .. pos[f] : last \in Nat => <<f, n>> # NoLine
          <5>1. \A n \in last + 1 .. pos[f] : last \in Nat => n \in 1 .. FileLen[f]
            BY <2>2, ReaderAssumption DEF TypeOK
          <5>2. QED
            BY <5>1, ReaderAssumption DEF AllLines
        <4>4. QED
          BY <3>1, <4>1, <4>2, <4>3, <2>3 DEF TakesInHand
      <3>2. CASE Begins(f) \/ Continues(f)
        <4>1. logBuffer'[f][Len(logBuffer'[f])] = <<f, pos[f] + 1>>
          <5>1. CASE Begins(f)
            BY <5>1 DEF Begins, Line
          <5>2. CASE Continues(f)
            <6>1. Line(f) \in AllLines
              BY <5>2, LineTyped DEF Continues, Takes
            <6>2. QED
              BY <2>2, <5>2, <6>1, AppendProperties DEF Continues, Line
          <5>3. QED
            BY <3>2, <5>1, <5>2
        <4>2. pos'[f] = pos[f] + 1 /\ dropped'[f] = dropped[f]
          BY <3>2 DEF Begins, Continues, Takes
        <4>3. \A n \in pos[f] + 1 + 1 .. pos[f] + 1 : FALSE
          BY <2>2
        <4>4. QED
          BY <2>3, <4>1, <4>2, <4>3
      <3>3. CASE LeavesOut(f)
        <4>1. inHand[f] = NoLine /\ inHand'[f] = NoLine
          BY <3>3 DEF LeavesOut, Takes, LastInHand
        <4>2. \A n \in last + 1 .. pos'[f] : n \in last + 1 .. pos[f] \/ <<f, n>> = Line(f)
          BY <2>2, <3>3 DEF LeavesOut, Takes, Line
        <4>3. MaxLines = 0 => Line(f) \in IsEmpty
          BY <3>3 DEF LeavesOut, Full
        <4>4. <<f, pos[f] + 1>> # NoLine /\ dropped'[f] = dropped[f] \cup {Line(f)}
              /\ logBuffer'[f] = logBuffer[f]
          BY <3>3, LineTyped DEF LeavesOut, Takes, Line
        <4>5. QED
          BY <4>1, <4>2, <4>3, <4>4, <2>3
      <3>4. CASE Flushes(f)
        <4>1. pos'[f] = pos[f] /\ dropped'[f] = dropped[f]
              /\ (logBuffer'[f] = <<>> \/ logBuffer'[f] = <<<<f, pos[f]>>>>)
          BY <3>4, HandTyped DEF Flushes
        <4>2. \A n \in pos[f] + 1 .. pos[f] : FALSE
          BY <2>2
        <4>3. QED
          BY <2>3, <4>1, <4>2
      <3>5. CASE Sends(f)
        <4>1. logBuffer'[f] = <<>> /\ dropped'[f] = dropped[f]
          BY <3>5 DEF Sends, LastInHand
        <4>2. QED
          BY <2>3, <4>1
      <3>6. CASE Leaves(f)
        BY <2>3, <3>6 DEF Leaves
      <3>7. QED
        BY <1>2, <3>1, <3>2, <3>3, <3>4, <3>5, <3>6, Effects
    <2>5. \A g \in Files : g # f => Same(g)
      BY <1>2, Effects
    <2>6. QED
      BY <2>1, <2>4, <2>5 DEF RestDropped, Same
  <1>3. QED
    BY <1>1, <1>2, NextCases DEF Cancel, Consume, CloseCh, vars

LEMMA EntriesWellFormedKept ==
  ASSUME TypeOK, LastInHand, BufferCounted, EntriesWellFormed, [Next]_vars
  PROVE  EntriesWellFormed'
  <1>1. CASE UNCHANGED <<inputs, tailerVars>>
    BY <1>1 DEF inputs, tailerVars, EntriesWellFormed, HasPrefix
  <1>2. ASSUME NEW f \in Files, FileStep(f)
        PROVE  EntriesWellFormed'
    <2>1. HasPrefix' = HasPrefix /\ prefixMode' = prefixMode
      BY <1>2, Effects DEF inputs, HasPrefix
    <2>2. ASSUME NEW e \in Elems(sent'[f]) \cup {logBuffer'[f]}
          PROVE  /\ MaxLines > 0 => Len(e) <= MaxLines
                 /\ \A i \in 2 .. Len(e) :
                      /\ e[i][2] = e[i - 1][2] + 1
                      /\ prefixMode => e[i] \notin HasPrefix
      <3>1. CASE e \in Elems(sent[f]) \cup {logBuffer[f]}
        BY <3>1 DEF EntriesWellFormed
      <3>2. CASE e = <<>> \/ e = <<<<f, pos'[f]>>>>
        <4> DEFINE n == Len(e)
        <4>1. n = 0 \/ n = 1
          BY <3>2
        <4> HIDE DEF n
        <4>2. MaxLines > 0 => n <= MaxLines
          <5>1. MaxLines \in Nat
            BY ReaderAssumption
          <5>2. QED
            BY <4>1, <5>1
        <4>3. \A i \in 2 .. n : FALSE
          BY <4>1
        <4>4. QED
          BY <4>2, <4>3 DEF n
      <3>3. CASE Continues(f) /\ e = Append(logBuffer[f], Line(f))
        <4> DEFINE b == logBuffer[f]
        <4>1. /\ b \in Seq(AllLines) /\ lineCount[f] \in Nat /\ pos[f] \in Nat
              /\ MaxLines \in Nat /\ Len(b) \in Nat /\ Line(f) \in AllLines
          BY <3>3, LineTyped, ReaderAssumption DEF TypeOK, Continues, Takes
        <4>2. /\ Len(e) = Len(b) + 1 /\ e[Len(b) + 1] = Line(f)
              /\ \A i \in 1 .. Len(b) : e[i] = b[i]
          BY <3>3, <4>1
        <4>3. Len(b) <= lineCount[f] /\ b[Len(b)] = <<f, pos[f]>> /\ b # <<>>
          <5>1. inHand[f] = NoLine
            BY <3>3 DEF Continues, Takes, LastInHand
          <5>2. QED
            BY <3>3, <5>1 DEF BufferCounted, Continues
        <4>4. MaxLines > 0 => Len(e) <= MaxLines
          BY <3>3, <4>1, <4>2, <4>3 DEF Continues, Full
        <4>5. Len(b) > 0
          BY <4>1, <4>3
        <4>6. ASSUME NEW i \in 2 .. Len(e)
              PROVE  /\ e[i][2] = e[i - 1][2] + 1
                     /\ prefixMode => e[i] \notin HasPrefix
          <5>1. CASE i \in 2 .. Len(b)
            <6>1. e[i] = b[i] /\ e[i - 1] = b[i - 1]
              BY <4>1, <4>2, <5>1
            <6>2. QED
              BY <5>1, <6>1 DEF EntriesWellFormed
          <5>2. CASE i = Len(b) + 1
            <6>1. e[i] = Line(f) /\ e[i - 1] = <<f, pos[f]>>
              BY <4>1, <4>2, <4>3, <4>5, <5>2
            <6>2. Line(f) = <<f, pos[f] + 1>> /\ Line(f) \notin HasPrefix
              BY <3>3 DEF Continues, Line
            <6>3. QED
              BY <6>1, <6>2
          <5>3. i \in 2 .. Len(b) \/ i = Len(b) + 1
            BY <4>1, <4>2
          <5>4. QED
            BY <5>1, <5>2, <5>3
        <4>7. QED
          BY <4>4, <4>6
      <3>4. QED
        BY <1>2, <3>1, <3>2, <3>3, EntriesGrow
    <2>3. \A g \in Files : g # f => Same(g)
      BY <1>2, Effects
    <2>4. QED
      BY <2>1, <2>2, <2>3 DEF EntriesWellFormed, Same
  <1>3. QED
    BY <1>1, <1>2, NextCases DEF Cancel, Consume, CloseCh, vars

-----------------------------------------------------------------------------
(* Losses.                                                                 *)

Kept(x, entries, buffer, hand, left) ==
  \/ \E e \in Elems(entries) : x \in Elems(e)
  \/ x \in Elems(buffer)
  \/ x \in Elems(hand)
  \/ x \in left

LEMMA KeptIs ==
  ASSUME NEW x, NEW entries, NEW buffer, NEW hand, NEW left
  PROVE  x \in LinesIn(Elems(entries) \cup {buffer, hand}) \cup left
           <=> Kept(x, entries, buffer, hand, left)
  BY DEF Kept, LinesIn

LEMMA ElemsSmall ==
  Elems(<<>>) = {} /\ \A l : Elems(<<l>>) = {l}
  BY DEF Elems

LEMMA KeptGrows ==
  ASSUME TypeOK, LastInHand, NEW f \in Files, FileStep(f), ~cancelled, NEW x,
         \/ Kept(x, sent[f], logBuffer[f], Hand(f), dropped[f])
         \/ pos'[f] # pos[f] /\ x = Line(f)
  PROVE  Kept(x, sent'[f], logBuffer'[f], Hand(f)', dropped'[f])
  <1> DEFINE Entries == Seq(AllLines)
             hand == Hand(f)
             hand2 == Hand(f)'
  <1>1. sent[f] \in Seq(Entries) /\ logBuffer[f] \in Entries
    BY DEF TypeOK
  <1>2. hand = IF pc[f] \in {"send", "flushStart"} THEN <<inHand[f]>> ELSE <<>>
    <2>1. CASE pc[f] \in {"send", "flushStart"}
      BY <2>1, HandTyped DEF Hand
    <2>2. CASE pc[f] \notin {"send", "flushStart"}
      BY <2>2 DEF LastInHand, Hand
    <2>3. QED
      BY <2>1, <2>2
  <1>3. hand2 = IF inHand'[f] = NoLine THEN <<>> ELSE <<inHand'[f]>>
    BY DEF Hand
  <1>4. /\ inHand'[f] = inHand[f] => hand2 = hand
        /\ \/ Kept(x, sent[f], logBuffer[f], hand, dropped[f])
           \/ pos'[f] # pos[f] /\ x = Line(f)
    BY DEF Hand
  <1> HIDE DEF Entries, hand, hand2
  <1>5. SUFFICES Kept(x, sent'[f], logBuffer'[f], hand2, dropped'[f])
    BY DEF hand2
  <1>6. CASE TakesInHand(f)
    <2>1. hand = <<>> /\ hand2 = <<Line(f)>>
      BY <1>2, <1>3, <1>6, LineTyped DEF TakesInHand, Takes
    <2>2. QED
      BY <1>4, <1>6, <2>1, ElemsSmall DEF TakesInHand, Takes, Kept
  <1>7. CASE Begins(f)
    BY <1>4, <1>7, ElemsSmall DEF Begins, Takes, Kept
  <1>8. CASE Continues(f)
    <2>1. Elems(logBuffer'[f]) = Elems(logBuffer[f]) \cup {Line(f)}
      <3>1. logBuffer[f] \in Seq(AllLines) /\ Line(f) \in AllLines
        BY <1>1, <1>8, LineTyped DEF Continues, Takes, Entries
      <3>2. QED
        BY <1>8, <3>1, AppendElems DEF Continues
    <2>2. QED
      BY <1>4, <1>8, <2>1 DEF Continues, Takes, Kept
  <1>9. CASE LeavesOut(f)
    BY <1>4, <1>9 DEF LeavesOut, Takes, Kept
  <1>10. CASE Flushes(f)
    <2>1. Elems(Append(sent[f], logBuffer[f])) = Elems(sent[f]) \cup {logBuffer[f]}
      BY <1>1, AppendElems
    <2>2. Elems(sent'[f]) = Elems(sent[f]) \cup {logBuffer[f]}
      BY <1>10, <2>1 DEF Flushes
    <2>3. logBuffer'[f] = hand /\ pos'[f] = pos[f] /\ dropped'[f] = dropped[f]
      BY <1>2, <1>10 DEF Flushes, Flushing
    <2>4. QED
      BY <1>4, <2>2, <2>3 DEF Kept
  <1>11. CASE Sends(f)
    <2>1. <<inHand[f]>> \in Entries /\ hand = <<inHand[f]>>
      BY <1>2, <1>11, HandTyped DEF Sends, Entries
    <2>2. Elems(Append(sent[f], hand)) = Elems(sent[f]) \cup {hand}
      BY <1>1, <2>1, AppendElems
    <2>3. Elems(sent'[f]) = Elems(sent[f]) \cup {hand}
      BY <1>11, <2>1, <2>2 DEF Sends
    <2>4. logBuffer'[f] = logBuffer[f] /\ pos'[f] = pos[f] /\ dropped'[f] = dropped[f]
      BY <1>11 DEF Sends
    <2>5. QED
      BY <1>4, <2>3, <2>4 DEF Kept
  <1>12. CASE Leaves(f)
    BY <1>4, <1>12 DEF Leaves, Kept
  <1>13. QED
    BY <1>6, <1>7, <1>8, <1>9, <1>10, <1>11, <1>12, Effects

LEMMA NothingLostKept ==
  ASSUME TypeOK, LastInHand, NothingLost, [Next]_vars
  PROVE  NothingLost'
  <1>1. CASE UNCHANGED <<cancelled, tailerVars>>
    BY <1>1 DEF tailerVars, NothingLost, Hand
  <1>2. ASSUME NEW f \in Files, FileStep(f), ~cancelled', NEW g \in Files,
               NEW n \in 1 .. pos'[g]
        PROVE  <<g, n>> \in LinesIn(Elems(sent'[g]) \cup {logBuffer'[g], Hand(g)'})
                              \cup dropped'[g]
    <2>1. ~cancelled
      BY <1>2, Effects
    <2>2. \A m \in 1 .. pos[g] :
            <<g, m>> \in LinesIn(Elems(sent[g]) \cup {logBuffer[g], Hand(g)}) \cup dropped[g]
      BY <2>1 DEF NothingLost
    <2>3. CASE g # f
      <3>1. Same(g)
        BY <1>2, <2>3, Effects
      <3>2. Hand(g)' = Hand(g)
        BY <3>1 DEF Same, Hand
      <3>3. QED
        BY <2>2, <3>1, <3>2 DEF Same
    <2>4. CASE g = f
      <3>1. pos[f] \in Nat /\ (pos'[f] = pos[f] \/ pos'[f] = pos[f] + 1)
        BY <1>2, Effects DEF TypeOK, TakesInHand, Begins, Continues, LeavesOut, Takes, Flushes,
           Sends, Leaves
      <3>2. n \in 1 .. pos[f] \/ (pos'[f] # pos[f] /\ n = pos[f] + 1)
        BY <1>2, <2>4, <3>1
      <3>3. \/ Kept(<<f, n>>, sent[f], logBuffer[f], Hand(f), dropped[f])
            \/ pos'[f] # pos[f] /\ <<f, n>> = Line(f)
        BY <2>2, <2>4, <3>2, KeptIs DEF Line
      <3>4. Kept(<<f, n>>, sent'[f], logBuffer'[f], Hand(f)', dropped'[f])
        BY <1>2, <2>1, <3>3, KeptGrows
      <3>5. QED
        BY <2>4, <3>4, KeptIs
    <2>5. QED
      BY <2>3, <2>4
  <1>3. CASE Cancel
    BY <1>3 DEF Cancel, NothingLost
  <1>4. CASE \E f \in Files : FileStep(f)
    BY <1>2, <1>4 DEF NothingLost
  <1>5. QED
    BY <1>1, <1>3, <1>4, NextCases DEF Consume, CloseCh, vars

-----------------------------------------------------------------------------
(* Order.                                                                  *)

LEMMA PiecesAt ==
  ASSUME NEW X, NEW S \in Seq(X), NEW b \in X, NEW h \in X
  PROVE  LET p == S \o <<b, h>> IN
           /\ Len(S) \in Nat
           /\ DOMAIN p = 1 .. (Len(S) + 2)
           /\ \A i \in 1 .. Len(S) : p[i] = S[i]
           /\ p[Len(S) + 1] = b /\ p[Len(S) + 2] = h
  BY ConcatProperties

LEMMA MorePiecesAt ==
  ASSUME NEW X, NEW S \in Seq(X), NEW e \in X, NEW b \in X, NEW h \in X
  PROVE  LET q == Append(S, e) \o <<b, h>> IN
           /\ Len(S) \in Nat
           /\ DOMAIN q = 1 .. (Len(S) + 3)
           /\ \A i \in 1 .. Len(S) : q[i] = S[i]
           /\ q[Len(S) + 1] = e /\ q[Len(S) + 2] = b /\ q[Len(S) + 3] = h
  <1>1. /\ Append(S, e) \in Seq(X) /\ Len(Append(S, e)) = Len(S) + 1 /\ Len(S) \in Nat
        /\ \A i \in 1 .. Len(S) : Append(S, e)[i] = S[i]
        /\ Append(S, e)[Len(S) + 1] = e
    BY AppendProperties
  <1> DEFINE T == Append(S, e)
  <1>2. /\ DOMAIN (T \o <<b, h>>) = 1 .. (Len(T) + 2)
        /\ \A i \in 1 .. Len(T) : (T \o <<b, h>>)[i] = T[i]
        /\ (T \o <<b, h>>)[Len(T) + 1] = b /\ (T \o <<b, h>>)[Len(T) + 2] = h
    BY <1>1, PiecesAt
  <1> HIDE DEF T
  <1>3. QED
    BY <1>1, <1>2 DEF T

(* Pieces stay ordered when some are left out and empty ones put in ...    *)
LEMMA OrderedSelection ==
  ASSUME NEW p, NEW q, Ordered(p), NEW m,
         \A i \in DOMAIN q : q[i] = <<>> \/ (m[i] \in DOMAIN p /\ q[i] = p[m[i]]),
         \A i, j \in DOMAIN q : i < j => m[i] < m[j]
  PROVE  Ordered(q)
  <1>1. ASSUME NEW i \in DOMAIN q, NEW j \in DOMAIN q, NEW a \in DOMAIN q[i],
               NEW b \in DOMAIN q[j], i < j \/ (i = j /\ a < b)
        PROVE  Before(q[i][a], q[j][b])
    <2>1. q[i] # <<>> /\ q[j] # <<>>
      OBVIOUS
    <2>2. /\ m[i] \in DOMAIN p /\ q[i] = p[m[i]]
          /\ m[j] \in DOMAIN p /\ q[j] = p[m[j]]
      BY <2>1
    <2>3. m[i] < m[j] \/ (m[i] = m[j] /\ a < b)
      BY <1>1
    <2>4. QED
      BY <2>2, <2>3 DEF Ordered
  <1>2. QED
    BY <1>1 DEF Ordered

(* ... and when the last one that is not empty gets a line after them all. *)
LEMMA OrderedExtension ==
  ASSUME NEW p \in Seq(Seq(AllLines)), NEW q, Ordered(p), NEW l \in AllLines,
         NEW k \in DOMAIN p, DOMAIN q = DOMAIN p, q[k] = Append(p[k], l),
         \A i \in DOMAIN p : (i # k => q[i] = p[i]) /\ (i > k => p[i] = <<>>),
         \A i \in DOMAIN p : \A a \in DOMAIN p[i] : Before(p[i][a], l)
  PROVE  Ordered(q)
  <1>1. p[k] \in Seq(AllLines) /\ Len(p[k]) \in Nat /\ DOMAIN p[k] = 1 .. Len(p[k])
    OBVIOUS
  <1>2. /\ DOMAIN q[k] = 1 .. (Len(p[k]) + 1) /\ q[k][Len(p[k]) + 1] = l
        /\ \A a \in DOMAIN p[k] : q[k][a] = p[k][a]
    BY <1>1, AppendProperties
  <1>3. k \in Nat /\ \A i \in DOMAIN p : i \in Nat
    OBVIOUS
  <1>4. ASSUME NEW x \in DOMAIN p, NEW c \in DOMAIN q[x], x # k \/ c # Len(p[k]) + 1
        PROVE  c \in DOMAIN p[x] /\ q[x][c] = p[x][c]
    <2>1. CASE x # k
      BY <2>1
    <2>2. CASE x = k
      <3>1. c \in 1 .. (Len(p[k]) + 1) /\ c # Len(p[k]) + 1
        BY <1>2, <1>4, <2>2
      <3>2. c \in DOMAIN p[k]
        BY <1>1, <3>1
      <3>3. QED
        BY <1>2, <2>2, <3>2
    <2>3. QED
      BY <2>1, <2>2
  <1>5. ASSUME NEW i \in DOMAIN q, NEW j \in DOMAIN q, NEW a \in DOMAIN q[i],
               NEW b \in DOMAIN q[j], i < j \/ (i = j /\ a < b)
        PROVE  Before(q[i][a], q[j][b])
    <2>1. i <= k /\ j <= k
      <3>1. \A x \in DOMAIN p : x > k => DOMAIN q[x] = {}
        <4>1. ASSUME NEW x \in DOMAIN p, x > k
              PROVE  q[x] = <<>>
          <5>1. x # k
            BY <1>3, <4>1
          <5>2. QED
            BY <4>1, <5>1
        <4>2. DOMAIN <<>> = {}
          OBVIOUS
        <4>3. QED
          BY <4>1, <4>2
      <3>2. ~(i > k) /\ ~(j > k)
        BY <3>1
      <3>3. QED
        BY <1>3, <3>2
    <2>2. CASE j = k /\ b = Len(p[k]) + 1
      <3>1. i = k => a \in DOMAIN p[k]
        BY <1>1, <1>2, <1>5, <2>2
      <3>2. a \in DOMAIN p[i] /\ q[i][a] = p[i][a]
        BY <1>2, <3>1
      <3>3. QED
        BY <1>2, <2>2, <3>2
    <2>3. CASE j # k \/ b # Len(p[k]) + 1
      <3>1. b \in DOMAIN p[j] /\ q[j][b] = p[j][b]
        BY <1>4, <1>5, <2>3
      <3>2. i # k \/ a # Len(p[k]) + 1
        BY <1>1, <1>2, <1>3, <1>5, <2>1, <2>3
      <3>3. a \in DOMAIN p[i] /\ q[i][a] = p[i][a]
        BY <1>4, <1>5, <3>2
      <3>4. QED
        BY <1>5, <3>1, <3>3 DEF Ordered
    <2>4. QED
      BY <2>2, <2>3
  <1>6. QED
    BY <1>5 DEF Ordered

LEMMA OrderKept ==
  ASSUME TypeOK, LastInHand, OnlyTaken, NEW f \in Files, FileStep(f),
         Ordered(sent[f] \o <<logBuffer[f], Hand(f)>>)
  PROVE  Ordered(sent'[f] \o <<logBuffer'[f], Hand(f)'>>)
  <1> DEFINE Entries == Seq(AllLines)
             S == sent[f]
             b == logBuffer[f]
             h == Hand(f)
             S2 == sent'[f]
             b2 == logBuffer'[f]
             h2 == Hand(f)'
             p == S \o <<b, h>>
             q == S2 \o <<b2, h2>>
             n == Len(S)
  <1>1. S \in Seq(Entries) /\ b \in Entries /\ pos[f] \in Nat
    BY DEF TypeOK
  <1>2. h = IF pc[f] \in {"send", "flushStart"} THEN <<inHand[f]>> ELSE <<>>
    <2>1. CASE pc[f] \in {"send", "flushStart"}
      BY <2>1, HandTyped DEF Hand
    <2>2. CASE pc[f] \notin {"send", "flushStart"}
      BY <2>2 DEF LastInHand, Hand
    <2>3. QED
      BY <2>1, <2>2
  <1>3. /\ h2 = IF inHand'[f] = NoLine THEN <<>> ELSE <<inHand'[f]>>
        /\ inHand'[f] = inHand[f] => h2 = h
    BY DEF Hand
  <1>4. h \in Entries /\ <<>> \in Entries
    BY <1>2, HandTyped
  <1>5. /\ n \in Nat /\ DOMAIN p = 1 .. (n + 2)
        /\ \A i \in 1 .. n : p[i] = S[i]
        /\ p[n + 1] = b /\ p[n + 2] = h
    <2> HIDE DEF Entries, S, b, h
    <2>1. QED
      BY <1>1, <1>4, PiecesAt
  <1>6. Ordered(p)
    OBVIOUS
  <1>7. SUFFICES Ordered(q)
    OBVIOUS
  <1>8. ASSUME Takes(f), h = <<>>, S2 = S,
               \/ b2 = b /\ h2 = Append(h, Line(f))
               \/ b2 = Append(b, Line(f)) /\ h2 = h
        PROVE  Ordered(q)
    <2>1. Line(f) \in AllLines /\ Line(f)[2] = pos[f] + 1
      BY <1>8, LineTyped DEF Takes, Line
    <2>2. \A i \in DOMAIN p : \A a \in DOMAIN p[i] : Before(p[i][a], Line(f))
      <3>1. ASSUME NEW i \in DOMAIN p, NEW a \in DOMAIN p[i]
            PROVE  p[i][a] \in {f} \X (1 .. pos[f])
        <4>1. i \in 1 .. n \/ i = n + 1 \/ i = n + 2
          BY <1>5
        <4>2. CASE i \in 1 .. n
          <5>1. p[i] = S[i] /\ S[i] \in Elems(S)
            BY <1>1, <1>5, <4>2 DEF Elems
          <5>2. QED
            BY <5>1 DEF OnlyTaken
        <4>3. CASE i = n + 1
          BY <1>5, <4>3 DEF OnlyTaken
        <4>4. CASE i = n + 2
          BY <1>5, <1>8, <4>4
        <4>5. QED
          BY <4>1, <4>2, <4>3, <4>4
      <3>2. \A v \in {f} \X (1 .. pos[f]) : v[2] < pos[f] + 1
        BY <1>1
      <3>3. QED
        BY <2>1, <3>1, <3>2 DEF Before
    <2>3. b2 \in Entries /\ h2 \in Entries
      <3>1. \A s \in Seq(AllLines) : Append(s, Line(f)) \in Seq(AllLines)
        BY <2>1
      <3>2. b \in Seq(AllLines) /\ h \in Seq(AllLines)
        BY <1>1, <1>4
      <3>3. QED
        BY <1>8, <3>1, <3>2
    <2> HIDE DEF Entries, S, b, h, S2, b2, h2
    <2>4. /\ DOMAIN q = 1 .. (n + 2)
          /\ \A i \in 1 .. n : q[i] = S[i]
          /\ q[n + 1] = b2 /\ q[n + 2] = h2
      BY <1>1, <1>8, <2>3, PiecesAt
    <2>5. p \in Seq(Entries)
      BY <1>1, <1>4
    <2> HIDE DEF p, q, n
    <2>6. CASE b2 = b /\ h2 = Append(h, Line(f))
      <3> DEFINE k == n + 2
      <3>1. /\ k \in DOMAIN p /\ DOMAIN q = DOMAIN p /\ q[k] = Append(p[k], Line(f))
            /\ \A i \in DOMAIN p : (i # k => q[i] = p[i]) /\ (i > k => p[i] = <<>>)
        BY <1>5, <2>4, <2>6
      <3> HIDE DEF k
      <3>2. QED
        BY <1>6, <2>1, <2>2, <2>5, <3>1, OrderedExtension DEF Entries
    <2>7. CASE b2 = Append(b, Line(f)) /\ h2 = h
      <3> DEFINE k == n + 1
      <3>1. /\ k \in DOMAIN p /\ DOMAIN q = DOMAIN p /\ q[k] = Append(p[k], Line(f))
            /\ \A i \in DOMAIN p : (i # k => q[i] = p[i]) /\ (i > k => p[i] = <<>>)
        <4>1. k \in DOMAIN p /\ DOMAIN q = DOMAIN p
          BY <1>5, <2>4
        <4>2. \A i \in DOMAIN p : i \in 1 .. n \/ i = k \/ (i = k + 1 /\ i = n + 2)
          BY <1>5
        <4>3. q[k] = Append(p[k], Line(f)) /\ q[n + 2] = p[n + 2] /\ p[n + 2] = <<>>
          BY <1>5, <1>8, <2>4, <2>7
        <4>4. \A i \in 1 .. n : q[i] = p[i] /\ ~(i > k)
          BY <1>5, <2>4
        <4>5. ~(k > k)
          BY <1>5
        <4> HIDE DEF k
        <4>6. ASSUME NEW i \in DOMAIN p
              PROVE  (i # k => q[i] = p[i]) /\ (i > k => p[i] = <<>>)
          <5>1. CASE i \in 1 .. n
            BY <4>4, <5>1
          <5>2. CASE i = k
            BY <4>5, <5>2
          <5>3. CASE i = n + 2
            BY <4>3, <5>3
          <5>4. QED
            BY <4>2, <5>1, <5>2, <5>3
        <4>7. QED
          BY <4>1, <4>3, <4>6
      <3> HIDE DEF k
      <3>2. QED
        BY <1>6, <2>1, <2>2, <2>5, <3>1, OrderedExtension DEF Entries
    <2>8. QED
      BY <1>8, <2>6, <2>7
  <1>9. ASSUME S2 = S, b2 = h, h2 = <<>>
        PROVE  Ordered(q)
    <2> HIDE DEF Entries, S, b, h, S2, b2, h2
    <2>1. /\ DOMAIN q = 1 .. (n + 2)
          /\ \A i \in 1 .. n : q[i] = S[i]
          /\ q[n + 1] = h /\ q[n + 2] = <<>>
      BY <1>1, <1>4, <1>9, PiecesAt
    <2> HIDE DEF p, q, n
    <2> DEFINE m == [i \in Nat |-> IF i <= n THEN i ELSE i + 1]
    <2>2. \A i \in DOMAIN q : q[i] = <<>> \/ (m[i] \in DOMAIN p /\ q[i] = p[m[i]])
      <3>1. \A i \in DOMAIN q : i \in 1 .. n \/ i = n + 1 \/ i = n + 2
        BY <1>5, <2>1
      <3>2. \A i \in 1 .. n : m[i] = i /\ i \in DOMAIN p
        BY <1>5
      <3>3. m[n + 1] = n + 2 /\ n + 2 \in DOMAIN p
        BY <1>5
      <3> HIDE DEF m
      <3>4. QED
        BY <1>5, <2>1, <3>1, <3>2, <3>3
    <2>3. \A i, j \in DOMAIN q : i < j => m[i] < m[j]
      <3>1. n \in Nat /\ DOMAIN q = 1 .. (n + 2)
        BY <1>5, <2>1
      <3>2. QED
        BY <3>1
    <2> HIDE DEF m
    <2>4. QED
      BY <1>6, <2>2, <2>3, OrderedSelection
  <1>10. ASSUME NEW x \in {b, h}, S2 = Append(S, x),
                \/ x = b /\ b2 = h /\ h2 = <<>>
                \/ x = h /\ b = <<>> /\ b2 = <<>> /\ h2 = <<>>
         PROVE  Ordered(q)
    <2> HIDE DEF Entries, S, b, h, S2, b2, h2
    <2>1. /\ DOMAIN q = 1 .. (n + 3)
          /\ \A i \in 1 .. n : q[i] = S[i]
          /\ q[n + 1] = x /\ q[n + 2] = b2 /\ q[n + 3] = h2
      <3>1. x \in Entries /\ b2 \in Entries /\ h2 \in Entries
        BY <1>1, <1>4, <1>10
      <3>2. QED
        BY <1>1, <1>10, <3>1, MorePiecesAt
    <2> HIDE DEF p, q, n
    <2>2. CASE x = b /\ b2 = h /\ h2 = <<>>
      <3> DEFINE m == [i \in Nat |-> i]
      <3>1. \A i \in DOMAIN q : q[i] = <<>> \/ (m[i] \in DOMAIN p /\ q[i] = p[m[i]])
        BY <1>5, <2>1, <2>2
      <3>2. \A i, j \in DOMAIN q : i < j => m[i] < m[j]
        BY <1>5, <2>1
      <3> HIDE DEF m
      <3>3. QED
        BY <1>6, <3>1, <3>2, OrderedSelection
    <2>3. CASE x = h /\ b2 = <<>> /\ h2 = <<>>
      <3> DEFINE m == [i \in Nat |-> IF i <= n THEN i ELSE i + 1]
      <3>1. \A i \in DOMAIN q : q[i] = <<>> \/ (m[i] \in DOMAIN p /\ q[i] = p[m[i]])
        <4>1. \A i \in DOMAIN q : i \in 1 .. n \/ i = n + 1 \/ i = n + 2 \/ i = n + 3
          BY <1>5, <2>1
        <4>2. \A i \in 1 .. n : m[i] = i /\ i \in DOMAIN p
          BY <1>5
        <4>3. m[n + 1] = n + 2 /\ n + 2 \in DOMAIN p
          BY <1>5
        <4> HIDE DEF m
        <4>4. QED
          BY <1>5, <2>1, <2>3, <4>1, <4>2, <4>3
      <3>2. \A i, j \in DOMAIN q : i < j => m[i] < m[j]
        BY <1>5, <2>1
      <3> HIDE DEF m
      <3>3. QED
        BY <1>6, <3>1, <3>2, OrderedSelection
    <2>4. QED
      BY <1>10, <2>2, <2>3
  <1>11. CASE TakesInHand(f)
    <2>1. h = <<>> /\ h2 = <<Line(f)>>
      BY <1>2, <1>3, <1>11, LineTyped DEF TakesInHand, Takes
    <2>2. h2 = Append(h, Line(f))
      BY <2>1
    <2>3. QED
      BY <1>8, <1>11, <2>1, <2>2 DEF TakesInHand, Takes
  <1>12. CASE Begins(f) \/ Continues(f)
    <2>1. h = <<>> /\ h2 = h
      BY <1>2, <1>3, <1>12 DEF Begins, Continues, Takes
    <2>2. b2 = Append(b, Line(f))
      <3>1. Append(<<>>, Line(f)) = <<Line(f)>>
        OBVIOUS
      <3>2. QED
        BY <1>12, <3>1 DEF Begins, Continues
    <2>3. QED
      BY <1>8, <1>12, <2>1, <2>2 DEF Begins, Continues, Takes
  <1>13. CASE LeavesOut(f) \/ Leaves(f)
    BY <1>3, <1>6, <1>13 DEF LeavesOut, Leaves, Takes
  <1>14. CASE Flushes(f)
    <2>1. b2 = h /\ h2 = <<>>
      BY <1>2, <1>3, <1>14 DEF Flushes, Flushing
    <2>2. S2 = Append(S, b) \/ S2 = S
      BY <1>14 DEF Flushes
    <2>3. QED
      BY <1>9, <1>10, <2>1, <2>2
  <1>15. CASE Sends(f)
    <2>1. b = <<>> /\ b2 = <<>> /\ h2 = <<>> /\ h = <<inHand[f]>>
      BY <1>2, <1>3, <1>15 DEF Sends, LastInHand
    <2>2. S2 = Append(S, h) \/ S2 = S
      BY <1>15, <2>1 DEF Sends
    <2>3. CASE S2 = S
      <3> HIDE DEF Entries, S, b, h, S2, b2, h2
      <3>1. /\ DOMAIN q = 1 .. (n + 2)
            /\ \A i \in 1 .. n : q[i] = S[i]
            /\ q[n + 1] = <<>> /\ q[n + 2] = <<>>
        BY <1>1, <1>4, <2>1, <2>3, PiecesAt
      <3> HIDE DEF p, q, n
      <3> DEFINE m == [i \in Nat |-> i]
      <3>2. \A i \in DOMAIN q : q[i] = <<>> \/ (m[i] \in DOMAIN p /\ q[i] = p[m[i]])
        BY <1>5, <3>1
      <3>3. \A i, j \in DOMAIN q : i < j => m[i] < m[j]
        BY <1>5, <3>1
      <3> HIDE DEF m
      <3>4. QED
        BY <1>6, <3>2, <3>3, OrderedSelection
    <2>4. QED
      BY <1>10, <2>1, <2>2, <2>3
  <1>16. QED
    BY <1>11, <1>12, <1>13, <1>14, <1>15, Effects

LEMMA PerFileOrderKept ==
  ASSUME TypeOK, LastInHand, OnlyTaken, PerFileOrder, [Next]_vars
  PROVE  PerFileOrder'
  <1>1. CASE UNCHANGED tailerVars
    BY <1>1 DEF tailerVars, PerFileOrder, Hand
  <1>2. ASSUME NEW f \in Files, FileStep(f), NEW g \in Files
        PROVE  Ordered(sent'[g] \o <<logBuffer'[g], Hand(g)'>>)
    <2>1. CASE g # f
      <3>1. Same(g)
        BY <1>2, <2>1, Effects
      <3>2. Hand(g)' = Hand(g)
        BY <3>1 DEF Same, Hand
      <3>3. QED
        BY <3>1, <3>2 DEF Same, PerFileOrder
    <2>2. CASE g = f
      BY <1>2, <2>2, OrderKept DEF PerFileOrder
    <2>3. QED
      BY <2>1, <2>2
  <1>3. CASE \E f \in Files : FileStep(f)
    BY <1>2, <1>3 DEF PerFileOrder
  <1>4. QED
    BY <1>1, <1>3, NextCases DEF Cancel, Consume, CloseCh, vars

-----------------------------------------------------------------------------
(* Lines left out.                                                         *)

(* d comes right after entry e, as long as it can be, and the lines in     *)
(* left.                                                                   *)
Overflows(f, e, d, left) ==
  /\ Len(e) = MaxLines
  /\ \A i \in DOMAIN e : Before(e[i], d)
  /\ \A n \in e[Len(e)][2] + 1 .. d[2] : <<f, n>> \in left

LEMMA OverflowKept ==
  ASSUME MaxLines # 1, TypeOK, LastInHand, OnlyTaken, BufferCounted, RestDropped,
         EntriesWellFormed, DropsOnlyOverflow, [Next]_vars
  PROVE  DropsOnlyOverflow'
  <1>1. CASE UNCHANGED <<inputs, cancelled, tailerVars>>
    BY <1>1 DEF inputs, tailerVars, DropsOnlyOverflow, IsEmpty
  <1>2. ASSUME NEW f \in Files, FileStep(f), ~cancelled'
        PROVE  DropsOnlyOverflow'
    <2>1. IsEmpty' = IsEmpty /\ ~cancelled
      BY <1>2, Effects DEF inputs, IsEmpty
    <2>2. \A d \in dropped[f] \ IsEmpty :
            \E e \in Elems(sent[f]) \cup {logBuffer[f]} : Overflows(f, e, d, dropped[f])
      BY <2>1 DEF DropsOnlyOverflow, Overflows
    <2>3. /\ pos[f] \in Nat /\ MaxLines \in Nat /\ logBuffer[f] \in Seq(AllLines)
          /\ lineCount[f] \in Nat /\ dropped[f] \subseteq AllLines
      BY ReaderAssumption DEF TypeOK
    <2>4. /\ dropped[f] \subseteq dropped'[f]
          /\ \A d \in dropped'[f] \ dropped[f] : LeavesOut(f) /\ d = Line(f)
      BY <1>2, Effects DEF TakesInHand, Begins, Continues, LeavesOut, Takes, Flushes, Sends, Leaves
    <2>5. \A e, d : Overflows(f, e, d, dropped[f]) => Overflows(f, e, d, dropped'[f])
      BY <2>4 DEF Overflows
    <2>6. ASSUME NEW e \in Elems(sent[f]) \cup {logBuffer[f]}, NEW d \in dropped[f] \ IsEmpty,
                 Overflows(f, e, d, dropped[f])
          PROVE  e \in Elems(sent'[f]) \cup {logBuffer'[f]}
      <3>1. MaxLines > 1 /\ Len(e) = MaxLines
        <4>1. MaxLines # 0
          BY <2>3 DEF RestDropped
        <4>2. QED
          BY <2>3, <2>6, <4>1 DEF Overflows
      <3>2. sent[f] \in Seq(Seq(AllLines))
        BY DEF TypeOK
      <3>3. Elems(sent[f]) \subseteq Elems(sent'[f])
        <4> DEFINE Entries == Seq(AllLines)
        <4>1. sent'[f] = sent[f] \/ \E x \in Entries : sent'[f] = Append(sent[f], x)
          <5>1. CASE Flushes(f)
            BY <2>1, <2>3, <5>1 DEF Flushes
          <5>2. CASE Sends(f)
            <6>1. <<inHand[f]>> \in Entries
              BY <5>2, HandTyped DEF Sends
            <6>2. QED
              BY <5>2, <6>1 DEF Sends
          <5>3. QED
            BY <1>2, <5>1, <5>2, Effects DEF TakesInHand, Begins, Continues, LeavesOut, Takes, Leaves
        <4> HIDE DEF Entries
        <4>2. \A x \in Entries : Elems(Append(sent[f], x)) = Elems(sent[f]) \cup {x}
          BY <3>2, AppendElems DEF Entries
        <4>3. QED
          BY <4>1, <4>2
      <3>4. CASE e = logBuffer[f]
        <4>1. logBuffer[f] # <<>> /\ Full(f)
          BY <2>3, <3>1, <3>4 DEF BufferCounted, Full
        <4>2. CASE Flushes(f)
          <5> DEFINE Entries == Seq(AllLines)
          <5>1. sent[f] \in Seq(Entries) /\ logBuffer[f] \in Entries
            BY <2>3, <3>2
          <5> HIDE DEF Entries
          <5>2. Elems(Append(sent[f], logBuffer[f])) = Elems(sent[f]) \cup {logBuffer[f]}
            BY <5>1, AppendElems
          <5>3. QED
            BY <2>1, <3>4, <4>2, <5>2 DEF Flushes
        <4>3. CASE ~Flushes(f)
          BY <1>2, <3>4, <4>1, <4>3, Effects
             DEF TakesInHand, Begins, Continues, LeavesOut, Sends, Leaves
        <4>4. QED
          BY <4>2, <4>3
      <3>5. QED
        BY <2>6, <3>3, <3>4
    <2>7. ASSUME LeavesOut(f), Line(f) \notin IsEmpty
          PROVE  Overflows(f, logBuffer'[f], Line(f), dropped'[f])
      <3>1. /\ Full(f) /\ logBuffer'[f] = logBuffer[f] /\ dropped'[f] = dropped[f] \cup {Line(f)}
            /\ inHand[f] = NoLine
        BY <2>7 DEF LeavesOut, Takes, LastInHand
      <3>2. MaxLines > 1 /\ lineCount[f] >= MaxLines
        BY <2>3, <3>1 DEF Full
      <3>3. logBuffer[f] # <<>> /\ lineCount[f] = Len(logBuffer[f])
        BY <2>3, <3>2 DEF BufferCounted
      <3>4. Len(logBuffer[f]) = MaxLines
        BY <2>3, <3>2, <3>3 DEF EntriesWellFormed
      <3> DEFINE last == logBuffer[f][Len(logBuffer[f])][2]
      <3>5. last \in Nat /\ \A n \in last + 1 .. pos[f] : <<f, n>> \in dropped[f]
        <4>1. last \in Nat /\ \A n \in last + 1 .. pos[f] : <<f, n>> \in dropped[f] \cup {NoLine}
          BY <2>3, <3>1, <3>3, BufferEnds DEF RestDropped
        <4>2. \A n \in last + 1 .. pos[f] : <<f, n>> # NoLine
          <5>1. \A n \in last + 1 .. pos[f] : n \in 1 .. FileLen[f]
            BY <2>3, <4>1, ReaderAssumption DEF TypeOK
          <5>2. QED
            BY <5>1, ReaderAssumption DEF AllLines
        <4>3. QED
          BY <4>1, <4>2
      <3>6. \A n \in last + 1 .. Line(f)[2] : <<f, n>> \in dropped'[f]
        <4>1. \A n \in last + 1 .. Line(f)[2] : n \in last + 1 .. pos[f] \/ <<f, n>> = Line(f)
          BY <2>3, <3>5 DEF Line
        <4>2. QED
          BY <3>1, <3>5, <4>1
      <3>7. \A i \in DOMAIN logBuffer[f] : Before(logBuffer[f][i], Line(f))
        <4>1. \A i \in DOMAIN logBuffer[f] : logBuffer[f][i] \in {f} \X (1 .. pos[f])
          BY DEF OnlyTaken
        <4>2. \A v \in {f} \X (1 .. pos[f]) : v[2] < pos[f] + 1
          BY <2>3
        <4>3. QED
          BY <4>1, <4>2 DEF Before, Line
      <3>8. QED
        BY <3>1, <3>4, <3>6, <3>7 DEF Overflows
    <2>8. \A d \in dropped'[f] \ IsEmpty :
            \E e \in Elems(sent'[f]) \cup {logBuffer'[f]} : Overflows(f, e, d, dropped'[f])
      <3>1. ASSUME NEW d \in dropped'[f] \ IsEmpty
            PROVE  \E e \in Elems(sent'[f]) \cup {logBuffer'[f]} : Overflows(f, e, d, dropped'[f])
        <4>1. CASE d \in dropped[f]
          BY <2>2, <2>5, <2>6, <3>1, <4>1
        <4>2. CASE d \notin dropped[f]
          BY <2>4, <2>7, <3>1, <4>2
        <4>3. QED
          BY <4>1, <4>2
      <3>2. QED
        BY <3>1
    <2>9. \A g \in Files : g # f => Same(g)
      BY <1>2, Effects
    <2>10. QED
      <3>1. ASSUME NEW g \in Files, NEW d \in dropped'[g] \ IsEmpty
            PROVE  \E e \in Elems(sent'[g]) \cup {logBuffer'[g]} : Overflows(g, e, d, dropped'[g])
        <4>1. CASE g = f
          BY <2>8, <3>1, <4>1
        <4>2. CASE g # f
          BY <2>1, <2>9, <3>1, <4>2 DEF DropsOnlyOverflow, Overflows, Same
        <4>3. QED
          BY <4>1, <4>2
      <3>2. QED
        BY <2>1, <3>1 DEF DropsOnlyOverflow, Overflows
  <1>3. CASE Cancel
    BY <1>3 DEF Cancel, DropsOnlyOverflow
  <1>4. CASE \E f \in Files : FileStep(f)
    BY <1>2, <1>4 DEF DropsOnlyOverflow
  <1>5. QED
    BY <1>1, <1>3, <1>4, NextCases DEF Consume, CloseCh, vars

-----------------------------------------------------------------------------
(* Entries that are alike.                                                 *)

Entries == Seq(AllLines)

LEMMA ButEmptyItself ==
  ASSUME NEW e \in Entries
  PROVE  ButEmptyLines(e, e)
  BY DEF ButEmptyLines, Entries

LEMMA AlikeItself ==
  ASSUME NEW x \in Seq(Entries)
  PROVE  Alike(x, x)
  BY ButEmptyItself DEF Alike

(* Two more entries at the ends.                                           *)
LEMMA AlikeAppend ==
  ASSUME NEW x \in Seq(Entries), NEW y \in Seq(Entries), NEW e \in Entries, NEW w \in Entries
  PROVE  Alike(Append(x, e), Append(y, w)) <=> Alike(x, y) /\ ButEmptyLines(e, w)
  <1> DEFINE x2 == Append(x, e)
             y2 == Append(y, w)
  <1>1. /\ Len(x) \in Nat /\ Len(y) \in Nat /\ Len(x2) = Len(x) + 1 /\ Len(y2) = Len(y) + 1
        /\ x2[Len(x) + 1] = e /\ y2[Len(y) + 1] = w
        /\ \A i \in 1 .. Len(x) : x2[i] = x[i]
        /\ \A i \in 1 .. Len(y) : y2[i] = y[i]
    BY AppendProperties
  <1> HIDE DEF x2, y2
  <1>2. \A i \in 1 .. Len(x) + 1 : i \in 1 .. Len(x) \/ i = Len(x) + 1
    BY <1>1
  <1>3. 1 .. Len(x) \subseteq 1 .. Len(x) + 1 /\ Len(x) + 1 \in 1 .. Len(x) + 1
    BY <1>1
  <1>4. Len(x) + 1 = Len(y) + 1 <=> Len(x) = Len(y)
    BY <1>1
  <1>5. QED
    BY <1>1, <1>2, <1>3, <1>4 DEF Alike, x2, y2

LEMMA ButEmptyGrows ==
  ASSUME NEW e \in Entries, NEW w \in Entries, NEW l \in IsEmpty, ButEmptyLines(e, w)
  PROVE  ButEmptyLines(e, Append(w, l))
  <1>1. /\ Len(w) \in Nat /\ Len(e) \in Nat /\ Len(Append(w, l)) = Len(w) + 1 /\ l \in AllLines
        /\ Append(w, l)[Len(w) + 1] = l
        /\ \A i \in 1 .. Len(w) : Append(w, l)[i] = w[i]
    <2>1. l \in AllLines /\ w \in Seq(AllLines) /\ e \in Seq(AllLines)
      BY DEF IsEmpty, Entries
    <2>2. QED
      BY <2>1, AppendProperties
  <1>2. \A i \in 1 .. Len(w) + 1 : i \in 1 .. Len(w) \/ i = Len(w) + 1
    BY <1>1
  <1>3. QED
    BY <1>1, <1>2 DEF ButEmptyLines

(* An empty line more at the end of the last entry.                        *)
LEMMA AlikeGrows ==
  ASSUME NEW x \in Seq(Entries), NEW y \in Seq(Entries), NEW w \in Entries, NEW l \in IsEmpty,
         Alike(x, Append(y, w))
  PROVE  Alike(x, Append(y, Append(w, l)))
  <1> DEFINE w2 == Append(w, l)
             y1 == Append(y, w)
             y2 == Append(y, w2)
  <1>1. w2 \in Entries
    BY DEF IsEmpty, Entries
  <1> HIDE DEF w2
  <1>2. /\ Len(y) \in Nat /\ Len(y1) = Len(y) + 1 /\ Len(y2) = Len(y) + 1
        /\ y1[Len(y) + 1] = w /\ y2[Len(y) + 1] = w2
        /\ \A i \in 1 .. Len(y) : y1[i] = y[i] /\ y2[i] = y[i]
    BY <1>1, AppendProperties
  <1> HIDE DEF y1, y2
  <1>3. Len(x) = Len(y) + 1 /\ x[Len(y) + 1] \in Entries /\ ButEmptyLines(x[Len(y) + 1], w)
    <2>1. Len(x) = Len(y) + 1
      BY <1>2 DEF Alike, y1
    <2>2. Len(y) + 1 \in 1 .. Len(x)
      BY <1>2, <2>1
    <2>3. QED
      BY <1>2, <2>1, <2>2 DEF Alike, y1
  <1>4. ButEmptyLines(x[Len(y) + 1], w2)
    BY <1>3, ButEmptyGrows DEF w2
  <1>5. \A i \in 1 .. Len(x) : i \in 1 .. Len(y) \/ i = Len(y) + 1
    BY <1>2, <1>3
  <1>6. \A i \in 1 .. Len(x) : ButEmptyLines(x[i], y1[i])
    BY DEF Alike, y1
  <1>7. QED
    BY <1>2, <1>3, <1>4, <1>5, <1>6 DEF Alike, w2, y2

-----------------------------------------------------------------------------
(* What a step does to the entries found.                                  *)

LEMMA FoundTyped ==
  ASSUME TypeOK, LastInHand, NEW f \in Files
  PROVE  /\ Found(f) \in Seq(Entries)
         /\ sent[f] \in Seq(Entries) /\ logBuffer[f] \in Entries /\ Hand(f) \in Entries
         /\ Hand(f) = IF inHand[f] = NoLine THEN <<>> ELSE <<inHand[f]>>
  <1>1. sent[f] \in Seq(Entries) /\ logBuffer[f] \in Entries
    BY DEF TypeOK, Entries
  <1>2. Hand(f) \in Entries
    BY DEF TypeOK, Entries, Hand
  <1>3. \A s \in Seq(Entries), e \in Entries : AndEntry(s, e) \in Seq(Entries)
    <2>1. \A s \in Seq(Entries), e \in Entries : Append(s, e) \in Seq(Entries)
      OBVIOUS
    <2>2. QED
      BY <2>1 DEF AndEntry
  <1>4. AndEntry(sent[f], logBuffer[f]) \in Seq(Entries)
    BY <1>1, <1>3
  <1>5. QED
    BY <1>1, <1>2, <1>3, <1>4 DEF Found, Hand

FindsNew(f) == Found(f)' = Append(Found(f), <<Line(f)>>)

FindsMore(f) ==
  /\ Found(f) = Append(sent[f], logBuffer[f])
  /\ Found(f)' = Append(sent[f], Append(logBuffer[f], Line(f)))

LEMMA FoundStep ==
  ASSUME TypeOK, LastInHand, FlushesSomething, ~cancelled, NEW f \in Files, FileStep(f)
  PROVE  /\ TakesInHand(f) \/ Begins(f) => FindsNew(f)
         /\ Continues(f) => FindsMore(f)
         /\ LeavesOut(f) \/ Flushes(f) \/ Sends(f) \/ Leaves(f) => Found(f)' = Found(f)
  <1> DEFINE With(s, e) == AndEntry(s, e)
             inHandAs(h) == IF h = NoLine THEN <<>> ELSE <<h>>
  <1>1. /\ \A s : With(s, <<>>) = s
        /\ \A s, e : e # <<>> => With(s, e) = Append(s, e)
    BY DEF AndEntry
  <1>2. /\ Found(f) = With(With(sent[f], logBuffer[f]), inHandAs(inHand[f]))
        /\ Found(f)' = With(With(sent'[f], logBuffer'[f]), inHandAs(inHand'[f]))
    BY DEF Found, Hand
  <1>3. /\ inHandAs(NoLine) = <<>>
        /\ \A h : h # NoLine => inHandAs(h) = <<h>> /\ inHandAs(h) # <<>>
    <2>1. \A h : <<h>> # <<>>
      OBVIOUS
    <2>2. QED
      BY <2>1
  <1>4. ~cancelled /\ logBuffer[f] \in Seq(AllLines)
    BY DEF TypeOK
  <1> HIDE DEF With, inHandAs
  <1>5. Takes(f) => Line(f) # NoLine /\ inHand[f] = NoLine /\ <<Line(f)>> # <<>>
                    /\ Append(logBuffer[f], Line(f)) # <<>>
    <2>1. Takes(f) => Line(f) \in AllLines /\ Line(f) # NoLine
      BY LineTyped DEF Takes
    <2>2. Line(f) \in AllLines => Append(logBuffer[f], Line(f)) # <<>>
      BY <1>4
    <2>3. QED
      BY <2>1, <2>2 DEF Takes, LastInHand
  <1>6. TakesInHand(f) => FindsNew(f)
    BY <1>1, <1>2, <1>3, <1>5 DEF TakesInHand, Takes, FindsNew
  <1>7. ASSUME Begins(f)
        PROVE  FindsNew(f)
    <2>1. /\ sent'[f] = sent[f] /\ logBuffer[f] = <<>> /\ logBuffer'[f] = <<Line(f)>>
          /\ inHand[f] = NoLine /\ inHand'[f] = NoLine /\ <<Line(f)>> # <<>>
      BY <1>5, <1>7 DEF Begins, Takes
    <2>2. Found(f) = With(sent[f], <<>>) /\ Found(f)' = With(sent[f], <<Line(f)>>)
      BY <1>1, <1>2, <1>3, <2>1
    <2>3. QED
      BY <1>1, <2>1, <2>2 DEF FindsNew
  <1>8. Continues(f) => FindsMore(f)
    BY <1>1, <1>2, <1>3, <1>5 DEF Continues, Takes, FindsMore
  <1>9. LeavesOut(f) \/ Leaves(f) => Found(f)' = Found(f)
    BY <1>2 DEF LeavesOut, Leaves, Takes
  <1>10. ASSUME Flushes(f)
         PROVE  Found(f)' = Found(f)
    <2>1. logBuffer[f] # <<>> /\ sent'[f] = Append(sent[f], logBuffer[f]) /\ inHand'[f] = NoLine
      BY <1>4, <1>10 DEF Flushes, FlushesSomething
    <2>2. logBuffer'[f] = inHandAs(inHand[f])
      <3>1. CASE pc[f] = "flushStart"
        BY <1>3, <1>10, <3>1, HandTyped DEF Flushes
      <3>2. CASE pc[f] # "flushStart"
        BY <1>3, <1>10, <3>2 DEF Flushes, Flushing, LastInHand
      <3>3. QED
        BY <3>1, <3>2
    <2>3. QED
      BY <1>1, <1>2, <1>3, <2>1, <2>2
  <1>11. ASSUME Sends(f)
         PROVE  Found(f)' = Found(f)
    <2>1. /\ logBuffer[f] = <<>> /\ logBuffer'[f] = <<>> /\ inHand'[f] = NoLine
          /\ inHand[f] # NoLine /\ sent'[f] = Append(sent[f], <<inHand[f]>>)
      BY <1>4, <1>11, HandTyped DEF Sends, LastInHand
    <2>2. Found(f) = With(With(sent[f], <<>>), <<inHand[f]>>)
      BY <1>2, <1>3, <2>1
    <2>3. Found(f)' = With(With(Append(sent[f], <<inHand[f]>>), <<>>), <<>>)
      BY <1>2, <1>3, <2>1
    <2>4. Found(f) = With(sent[f], <<inHand[f]>>)
      BY <1>1, <2>2, Zenon
    <2>5. Found(f)' = Append(sent[f], <<inHand[f]>>)
      BY <1>1, <2>3, Zenon
    <2>6. <<inHand[f]>> # <<>>
      OBVIOUS
    <2>7. With(sent[f], <<inHand[f]>>) = Append(sent[f], <<inHand[f]>>)
      BY <1>1, <2>6, Zenon
    <2>8. QED
      BY <2>4, <2>5, <2>7, Zenon
  <1>12. QED
    BY <1>6, <1>7, <1>8, <1>9, <1>10, <1>11

(* An entry that was cut stays cut, and the next one starts with a prefix  *)
(* if it is not.                                                           *)
LEMMA UncutBefore ==
  ASSUME TypeOK, LastInHand, FlushesSomething, ~cancelled, NEW f \in Files, FileStep(f), Uncut(f)'
  PROVE  /\ Uncut(f)
         /\ FindsNew(f) /\ Found(f) # <<>> => Line(f) \in HasPrefix
  <1>1. HasPrefix' = HasPrefix
    BY Effects DEF inputs, HasPrefix
  <1> DEFINE F == Found(f)
             F2 == Found(f)'
  <1>2. \A i \in 2 .. Len(F2) : Head(F2[i]) \in HasPrefix
    BY <1>1 DEF Uncut
  <1>3. F \in Seq(Entries) /\ Len(F) \in Nat
    BY FoundTyped
  <1> HIDE DEF F, F2
  <1>5. CASE F2 = F
    <2>1. Uncut(f)
      BY <1>2, <1>5 DEF Uncut, F
    <2>2. ~FindsNew(f)
      <3>1. \A e : Append(F, e) # F
        BY <1>3
      <3>2. QED
        BY <1>5, <3>1 DEF FindsNew, F, F2
    <2>3. QED
      BY <2>1, <2>2
  <1>6. CASE FindsNew(f) /\ Line(f) \in AllLines
    <2>1. /\ Len(F2) = Len(F) + 1 /\ F2[Len(F) + 1] = <<Line(f)>>
          /\ \A i \in 1 .. Len(F) : F2[i] = F[i]
      <3>1. <<Line(f)>> \in Entries
        BY <1>6 DEF Entries
      <3>2. F2 = Append(F, <<Line(f)>>)
        BY <1>6 DEF FindsNew, F, F2
      <3>3. QED
        BY <1>3, <3>1, <3>2, AppendProperties
    <2>2. \A i \in 2 .. Len(F) : i \in 2 .. Len(F2) /\ F2[i] = F[i]
      BY <1>3, <2>1
    <2>3. Uncut(f)
      BY <1>2, <2>2 DEF Uncut, F
    <2>4. F # <<>> => Line(f) \in HasPrefix
      <3>1. F # <<>> => Len(F) + 1 \in 2 .. Len(F2)
        BY <1>3, <2>1
      <3>2. Head(<<Line(f)>>) = Line(f)
        OBVIOUS
      <3>3. QED
        BY <1>2, <2>1, <3>1, <3>2
    <2>5. QED
      BY <2>3, <2>4 DEF F
  <1>7. CASE FindsMore(f) /\ Line(f) \in AllLines /\ logBuffer[f] # <<>>
    <2> DEFINE S == sent[f]
               b == logBuffer[f]
               b2 == Append(b, Line(f))
    <2>1. S \in Seq(Entries) /\ b \in Entries /\ b2 \in Entries
      BY <1>7, FoundTyped DEF Entries
    <2>2. b # <<>> /\ Head(b2) = Head(b)
      BY <1>7, <2>1 DEF Entries
    <2> HIDE DEF S, b, b2
    <2>3. F = Append(S, b) /\ F2 = Append(S, b2)
      BY <1>7 DEF FindsMore, F, F2, S, b, b2
    <2>4. Len(F) = Len(F2) /\ \A i \in 1 .. Len(F) : Head(F[i]) = Head(F2[i])
      <3>1. /\ Len(F) = Len(S) + 1 /\ F[Len(S) + 1] = b /\ \A i \in 1 .. Len(S) : F[i] = S[i]
            /\ Len(F2) = Len(S) + 1 /\ F2[Len(S) + 1] = b2 /\ \A i \in 1 .. Len(S) : F2[i] = S[i]
            /\ Len(S) \in Nat
        BY <2>1, <2>3, AppendProperties
      <3>2. \A i \in 1 .. Len(F) : i \in 1 .. Len(S) \/ i = Len(S) + 1
        BY <3>1
      <3>3. QED
        BY <2>2, <3>1, <3>2
    <2>5. Uncut(f)
      BY <1>2, <1>3, <2>4 DEF Uncut, F
    <2>6. FindsNew(f) => FALSE
      <3>1. <<Line(f)>> \in Entries
        BY <1>7 DEF Entries
      <3>2. FindsNew(f) => F2 = Append(F, <<Line(f)>>)
        BY DEF FindsNew, F, F2
      <3>3. Len(Append(F, <<Line(f)>>)) = Len(F) + 1
        BY <1>3, <3>1
      <3>4. QED
        BY <1>3, <2>4, <3>2, <3>3
    <2>7. QED
      BY <2>5, <2>6
  <1>8. QED
    <2>1. CASE TakesInHand(f) \/ Begins(f)
      BY <1>6, <2>1, LineTyped, FoundStep DEF TakesInHand, Begins, Takes
    <2>2. CASE Continues(f)
      BY <1>7, <2>2, LineTyped, FoundStep DEF Continues, Takes
    <2>3. CASE LeavesOut(f) \/ Flushes(f) \/ Sends(f) \/ Leaves(f)
      BY <1>5, <2>3, FoundStep DEF F, F2
    <2>4. QED
      BY <2>1, <2>2, <2>3, Effects

-----------------------------------------------------------------------------
(* The tailer and the static reader in step.                               *)

Reader(f) == ScanAll(Taken(f), text, MaxLines)

ScanFull(r) == MaxLines > 0 /\ r.count >= MaxLines

LEMMA ScanIs ==
  ASSUME TypeOK, NEW r \in Readings(AllLines), NEW l \in AllLines,
         NEW r2, r2 = Scan(r, l, text, MaxLines)
  PROVE  /\ l \in HasPrefix =>
              /\ r2.sent = IF r.buffer = <<>> THEN r.sent ELSE Append(r.sent, r.buffer)
              /\ r2.buffer = <<l>> /\ r2.count = 1
         /\ l \notin HasPrefix /\ ScanFull(r) => r2 = r
         /\ l \notin HasPrefix /\ ~ScanFull(r) =>
              /\ r2.sent = r.sent
              /\ r2.buffer = IF r.buffer = <<>> /\ l \in IsEmpty THEN <<>> ELSE Append(r.buffer, l)
              /\ r2.count = IF r.buffer = <<>> THEN 1 ELSE r.count + 1
  <1>1. /\ l \in HasPrefix <=> text[l] = "prefixed"
        /\ l \in IsEmpty <=> text[l] = "empty"
    BY DEF HasPrefix, IsEmpty
  <1>2. QED
    BY <1>1 DEF Scan, Flush, ScanFull

LEMMA ReaderSteps ==
  ASSUME TypeOK, NEW f \in Files, FileStep(f)
  PROVE  /\ Reader(f) \in Readings(AllLines)
         /\ Takes(f) => Reader(f)' = Scan(Reader(f), Line(f), text, MaxLines)
         /\ pos'[f] = pos[f] => Reader(f)' = Reader(f)
  <1>1. text' = text
    BY Effects DEF inputs
  <1>2. pos[f] \in Nat /\ FileLen[f] \in Nat /\ pos[f] <= FileLen[f]
    BY ReaderAssumption DEF TypeOK
  <1>3. Taken(f) \in Seq(AllLines) /\ Len(Taken(f)) = pos[f]
    <2>1. \A n \in 1 .. pos[f] : <<f, n>> \in {f} \X (1 .. FileLen[f])
      BY <1>2
    <2>2. \A n \in 1 .. pos[f] : <<f, n>> \in AllLines
      BY <2>1 DEF AllLines
    <2>3. QED
      BY <1>2, <2>2 DEF Taken
  <1>4. ASSUME Takes(f)
        PROVE  Taken(f)' = Append(Taken(f), Line(f))
    <2>1. Line(f) \in AllLines /\ pos'[f] = pos[f] + 1 /\ Line(f) = <<f, pos[f] + 1>>
      BY <1>4, LineTyped DEF Takes, Line
    <2>2. Taken(f)' = [n \in 1 .. pos[f] + 1 |-> <<f, n>>]
      BY <2>1 DEF Taken
    <2> DEFINE T == Taken(f)
               A == Append(T, Line(f))
    <2>3. /\ A \in Seq(AllLines) /\ Len(A) = pos[f] + 1 /\ A[pos[f] + 1] = Line(f)
          /\ \A n \in 1 .. pos[f] : A[n] = T[n]
      BY <1>3, <2>1, AppendProperties
    <2>4. \A n \in 1 .. pos[f] : T[n] = <<f, n>>
      BY DEF Taken
    <2> HIDE DEF A, T
    <2>5. DOMAIN A = 1 .. pos[f] + 1 /\ A = [n \in 1 .. pos[f] + 1 |-> A[n]]
      BY <2>3
    <2>6. \A n \in 1 .. pos[f] + 1 : A[n] = <<f, n>>
      BY <1>2, <2>1, <2>3, <2>4
    <2>7. QED
      BY <2>2, <2>5, <2>6 DEF A, T
  <1>5. ASSUME pos'[f] = pos[f]
        PROVE  Taken(f)' = Taken(f)
    BY <1>5 DEF Taken
  <1>6. Reader(f) \in Readings(AllLines)
    BY <1>3, ScanAllType DEF Reader
  <1>7. Reader(f)' = ScanAll(Taken(f)', text, MaxLines)
    BY <1>1 DEF Reader
  <1>8. ASSUME Takes(f)
        PROVE  Reader(f)' = Scan(Reader(f), Line(f), text, MaxLines)
    <2>1. Line(f) \in AllLines
      BY <1>8, LineTyped DEF Takes
    <2> DEFINE T == Taken(f)
    <2>2. T \in Seq(AllLines)
      BY <1>3
    <2> HIDE DEF T
    <2>3. ScanAll(Append(T, Line(f)), text, MaxLines)
            = Scan(ScanAll(T, text, MaxLines), Line(f), text, MaxLines)
      BY <2>1, <2>2, ScanAllAppend
    <2>4. Reader(f)' = ScanAll(Append(T, Line(f)), text, MaxLines)
      BY <1>4, <1>7, <1>8 DEF T
    <2>5. QED
      BY <2>3, <2>4 DEF T, Reader
  <1>9. QED
    BY <1>5, <1>6, <1>7, <1>8 DEF Reader

LEMMA AppendNotEmpty ==
  ASSUME NEW b \in Entries, NEW l \in AllLines
  PROVE  Append(b, l) # <<>> /\ Append(b, l) \in Entries /\ <<l>> # <<>> /\ <<l>> \in Entries
  <1>1. b \in Seq(AllLines)
    BY DEF Entries
  <1> HIDE DEF AllLines
  <1>2. Append(b, l) # <<>> /\ Append(b, l) \in Seq(AllLines)
    BY <1>1, AppendProperties
  <1>3. <<l>> # <<>> /\ <<l>> \in Seq(AllLines)
    OBVIOUS
  <1>4. QED
    BY <1>2, <1>3 DEF Entries

LEMMA FirstAlike ==
  ASSUME NEW e \in Entries
  PROVE  Alike(Append(<<>>, e), Append(<<>>, e))
  <1>1. <<>> \in Seq(Entries) /\ Append(<<>>, e) \in Seq(Entries)
    OBVIOUS
  <1>2. QED
    BY <1>1, AlikeItself

LEMMA NothingFound ==
  ASSUME NEW y \in Seq(Entries), NEW w \in Entries
  PROVE  ~Alike(<<>>, Append(y, w))
  <1>1. Len(Append(y, w)) = Len(y) + 1 /\ Len(y) \in Nat /\ Len(<<>>) = 0
    OBVIOUS
  <1>2. QED
    BY <1>1 DEF Alike

(* Together in the next state, as its parts say it.                        *)
ThenTogether(f, r) ==
  /\ r.buffer = <<>> => r.sent = <<>> /\ Found(f)' = <<>> /\ lineCount'[f] = r.count
  /\ r.buffer # <<>> => r.count > 0 /\ Alike(Found(f)', Append(r.sent, r.buffer))
  /\ logBuffer'[f] # <<>> /\ inHand'[f] = NoLine
       => r.buffer = logBuffer'[f] /\ r.count = lineCount'[f]
  /\ inHand'[f] # NoLine => r.buffer = <<inHand'[f]>> /\ r.count = 1

LEMMA TogetherThen ==
  ASSUME TypeOK, NEW f \in Files, IsEmpty' = IsEmpty, ThenTogether(f, Reader(f)')
  PROVE  Together(f, Reader(f))'
  <1> DEFINE r == Reader(f)
  <1>1. ThenTogether(f, r')
    OBVIOUS
  <1> HIDE DEF r
  <1>2. Alike(Found(f), Append(r.sent, r.buffer))' <=> Alike(Found(f)', Append(r'.sent, r'.buffer))
    BY DEF Alike, ButEmptyLines
  <1>3. Together(f, r)'
    BY <1>1, <1>2 DEF Together, ThenTogether
  <1>4. QED
    BY <1>3 DEF r

(* One line more, the reader before it and after it.                       *)
LEMMA TogetherTaken ==
  ASSUME TypeOK, LastInHand, BufferCounted, FlushesSomething, ~cancelled, prefixMode,
         NEW f \in Files, FileStep(f), Uncut(f)', Takes(f),
         NEW r \in Readings(AllLines), NEW r2 \in Readings(AllLines), Together(f, r),
         r2 = Scan(r, Line(f), text, MaxLines)
  PROVE  ThenTogether(f, r2)
  <1> DEFINE F == Found(f)
             F2 == Found(f)'
             l == Line(f)
             one == <<l>>
             longer == Append(r.buffer, l)
  <1>1. /\ l \in AllLines /\ l # NoLine /\ inHand[f] = NoLine
        /\ one # <<>> /\ one \in Entries /\ longer # <<>> /\ longer \in Entries
        /\ r.sent \in Seq(Entries) /\ r.buffer \in Entries /\ r.count \in Nat
        /\ F \in Seq(Entries) /\ sent[f] \in Seq(Entries) /\ logBuffer[f] \in Entries
        /\ lineCount[f] \in Nat /\ MaxLines \in Nat
    <2>1. l \in AllLines /\ l # NoLine
      BY LineTyped DEF Takes
    <2>2. r.sent \in Seq(Entries) /\ r.buffer \in Entries /\ r.count \in Nat
      BY DEF Readings, Entries
    <2>3. one # <<>> /\ one \in Entries /\ longer # <<>> /\ longer \in Entries
      BY <2>1, <2>2, AppendNotEmpty
    <2>4. inHand[f] = NoLine
      BY DEF Takes, LastInHand
    <2>5. lineCount[f] \in Nat /\ MaxLines \in Nat
      BY ReaderAssumption DEF TypeOK
    <2>6. QED
      BY <2>1, <2>2, <2>3, <2>4, <2>5, FoundTyped
  <1>2. /\ l \in HasPrefix =>
              /\ r2.sent = IF r.buffer = <<>> THEN r.sent ELSE Append(r.sent, r.buffer)
              /\ r2.buffer = one /\ r2.count = 1
        /\ l \notin HasPrefix /\ ScanFull(r) => r2 = r
        /\ l \notin HasPrefix /\ ~ScanFull(r) =>
              /\ r2.sent = r.sent
              /\ r2.buffer = IF r.buffer = <<>> /\ l \in IsEmpty THEN <<>> ELSE longer
              /\ r2.count = IF r.buffer = <<>> THEN 1 ELSE r.count + 1
    BY <1>1, ScanIs
  <1>3. /\ r.buffer = <<>> => r.sent = <<>> /\ F = <<>> /\ lineCount[f] = r.count
        /\ r.buffer # <<>> => r.count > 0 /\ Alike(F, Append(r.sent, r.buffer))
        /\ logBuffer[f] # <<>> => r.buffer = logBuffer[f] /\ r.count = lineCount[f]
    BY <1>1 DEF Together
  <1>4. SUFFICES /\ r2.buffer = <<>> => r2.sent = <<>> /\ F2 = <<>> /\ lineCount'[f] = r2.count
                 /\ r2.buffer # <<>> => r2.count > 0 /\ Alike(F2, Append(r2.sent, r2.buffer))
                 /\ logBuffer'[f] # <<>> /\ inHand'[f] = NoLine
                      => r2.buffer = logBuffer'[f] /\ r2.count = lineCount'[f]
                 /\ inHand'[f] # NoLine => r2.buffer = <<inHand'[f]>> /\ r2.count = 1
    BY DEF ThenTogether
  <1>5. F # <<>> /\ FindsNew(f) => l \in HasPrefix
    BY UncutBefore
  <1>6. \A b \in Entries : Append(<<>>, b) \in Seq(Entries)
    OBVIOUS
  <1>7. Append(r.sent, r.buffer) \in Seq(Entries)
    BY <1>1
  <1> HIDE DEF F, F2, l, one, longer
  (* A line that is prefixed: the reader flushes and starts again.         *)
  <1>8. ASSUME l \in HasPrefix, F2 = Append(F, one)
        PROVE  r2.buffer = one /\ r2.count = 1 /\ Alike(F2, Append(r2.sent, r2.buffer))
    <2>1. CASE r.buffer = <<>>
      <3>1. F = <<>> /\ r2.sent = <<>> /\ r2.buffer = one
        BY <1>2, <1>3, <1>8, <2>1
      <3>2. Alike(Append(<<>>, one), Append(<<>>, one))
        BY <1>1, FirstAlike
      <3>3. QED
        BY <1>2, <1>8, <3>1, <3>2
    <2>2. CASE r.buffer # <<>>
      <3>1. r2.sent = Append(r.sent, r.buffer) /\ Alike(F, Append(r.sent, r.buffer))
        BY <1>2, <1>3, <1>8, <2>2
      <3>2. ButEmptyLines(one, one)
        BY <1>1, ButEmptyItself
      <3>3. Alike(Append(F, one), Append(Append(r.sent, r.buffer), one))
        BY <1>1, <1>7, <3>1, <3>2, AlikeAppend
      <3>4. QED
        BY <1>2, <1>8, <3>1, <3>3
    <2>3. QED
      BY <2>1, <2>2
  <1>9. CASE TakesInHand(f)
    <2>1. /\ l \in HasPrefix /\ F2 = Append(F, one) /\ inHand'[f] = l
          /\ <<inHand'[f]>> = one
      BY <1>9, FoundStep DEF TakesInHand, FindsNew, F, F2, l, one
    <2>2. QED
      BY <1>1, <1>8, <2>1
  <1>10. CASE Begins(f)
    <2>1. F2 = Append(F, one) /\ FindsNew(f)
      BY <1>10, FoundStep DEF FindsNew, F, F2, l, one
    <2>2. inHand'[f] = NoLine /\ logBuffer'[f] = one /\ lineCount'[f] = 1
      BY <1>1, <1>10 DEF Begins, one, l
    <2>3. CASE l \in HasPrefix
      BY <1>1, <1>8, <2>1, <2>2, <2>3
    <2>4. CASE l \notin HasPrefix
      <3>1. F = <<>> /\ r.buffer = <<>>
        <4>1. F = <<>>
          BY <1>5, <2>1, <2>4
        <4>2. QED
          BY <1>1, <1>3, <4>1, NothingFound
      <3>2. l \notin IsEmpty /\ ~Full(f)
        BY <1>10, <2>4 DEF Begins, l
      <3>3. ~ScanFull(r)
        BY <1>3, <3>1, <3>2 DEF Full, ScanFull
      <3>4. longer = one
        BY <1>1, <3>1 DEF longer, one
      <3>5. r2.sent = <<>> /\ r2.buffer = one /\ r2.count = 1
        BY <1>2, <1>3, <2>4, <3>1, <3>2, <3>3, <3>4
      <3>6. Alike(Append(<<>>, one), Append(<<>>, one))
        BY <1>1, FirstAlike
      <3>7. QED
        BY <1>1, <2>1, <2>2, <3>1, <3>5, <3>6
    <2>5. QED
      BY <2>3, <2>4
  <1>11. CASE Continues(f)
    <2>1. /\ l \notin HasPrefix /\ ~Full(f) /\ logBuffer[f] # <<>>
          /\ inHand'[f] = NoLine /\ lineCount'[f] = lineCount[f] + 1
      BY <1>1, <1>11 DEF Continues, l
    <2>2. r.buffer = logBuffer[f] /\ r.count = lineCount[f] /\ r.buffer # <<>>
      BY <1>3, <2>1
    <2>3. F = Append(sent[f], r.buffer) /\ F2 = Append(sent[f], longer) /\ logBuffer'[f] = longer
      BY <1>11, <2>2, FoundStep DEF Continues, FindsMore, F, F2, longer, l
    <2>4. r2.sent = r.sent /\ r2.buffer = longer /\ r2.count = r.count + 1
      BY <1>2, <2>1, <2>2 DEF Full, ScanFull
    <2>5. Alike(sent[f], r.sent)
      BY <1>1, <1>3, <2>2, <2>3, AlikeAppend
    <2>6. Alike(F2, Append(r2.sent, r2.buffer))
      <3>1. ButEmptyLines(longer, longer)
        BY <1>1, ButEmptyItself
      <3>2. Alike(Append(sent[f], longer), Append(r.sent, longer))
        BY <1>1, <2>5, <3>1, AlikeAppend
      <3>3. QED
        BY <2>3, <2>4, <3>2
    <2>7. r2.count > 0
      BY <1>1, <2>4
    <2>8. QED
      BY <1>1, <2>1, <2>2, <2>3, <2>4, <2>6, <2>7
  <1>12. CASE LeavesOut(f)
    <2>1. /\ l \notin HasPrefix /\ logBuffer'[f] = logBuffer[f] /\ inHand'[f] = NoLine
          /\ F2 = F
          /\ \/ Full(f) /\ lineCount'[f] = lineCount[f]
             \/ ~Full(f) /\ l \in IsEmpty /\ logBuffer[f] = <<>> /\ lineCount'[f] = 1
      BY <1>1, <1>12, FoundStep DEF LeavesOut, F, F2, l
    <2>2. CASE Full(f) /\ lineCount'[f] = lineCount[f]
      <3>1. ScanFull(r)
        <4>1. CASE r.buffer = <<>> \/ logBuffer[f] # <<>>
          BY <1>3, <2>2, <4>1 DEF Full, ScanFull
        <4>2. CASE r.buffer # <<>> /\ logBuffer[f] = <<>>
          <5>1. lineCount[f] = 0 \/ lineCount[f] = 1
            <6>1. Len(<<>>) = 0
              OBVIOUS
            <6>2. QED
              BY <4>2, <6>1 DEF BufferCounted
          <5>2. QED
            BY <1>1, <1>3, <2>2, <4>2, <5>1 DEF Full, ScanFull
        <4>3. QED
          BY <4>1, <4>2
      <3>2. r2 = r
        BY <1>2, <2>1, <3>1
      <3>3. QED
        BY <1>3, <2>1, <2>2, <3>2
    <2>3. CASE ~Full(f) /\ l \in IsEmpty /\ logBuffer[f] = <<>> /\ lineCount'[f] = 1
      <3>1. CASE ScanFull(r)
        <4>1. r2 = r
          BY <1>2, <2>1, <3>1
        <4>2. r.buffer # <<>>
          BY <1>3, <2>3, <3>1 DEF Full, ScanFull
        <4>3. QED
          BY <1>3, <2>1, <2>3, <4>1, <4>2
      <3>2. CASE ~ScanFull(r) /\ r.buffer = <<>>
        <4>1. r2.sent = r.sent /\ r2.buffer = <<>> /\ r2.count = 1
          BY <1>2, <2>1, <2>3, <3>2
        <4>2. QED
          BY <1>3, <2>1, <2>3, <3>2, <4>1
      <3>3. CASE ~ScanFull(r) /\ r.buffer # <<>>
        <4>1. r2.sent = r.sent /\ r2.buffer = longer /\ r2.count = r.count + 1
          BY <1>2, <2>1, <3>3
        <4>2. Alike(F, Append(r.sent, longer))
          BY <1>1, <1>3, <2>3, <3>3, AlikeGrows DEF longer
        <4>3. r2.count > 0
          BY <1>1, <4>1
        <4>4. QED
          BY <1>1, <2>1, <2>3, <4>1, <4>2, <4>3
      <3>4. QED
        BY <3>1, <3>2, <3>3
    <2>4. QED
      BY <2>1, <2>2, <2>3
  <1>13. ~Flushes(f) /\ ~Sends(f) /\ ~Leaves(f)
    <2>1. pos[f] \in Nat
      BY DEF TypeOK
    <2>2. QED
      BY <2>1 DEF Takes, Flushes, Flushing, Sends, Leaves
  <1>14. QED
    BY <1>9, <1>10, <1>11, <1>12, <1>13, Effects

InStepAt(f) ==
  /\ ~prefixMode => Found(f) = [n \in 1 .. pos[f] |-> <<<<f, n>>>>]
  /\ prefixMode /\ Uncut(f) => Together(f, Reader(f))

LEMMA StillTogether ==
  ASSUME NEW f \in Files, Same(f), UNCHANGED inputs, InStepAt(f)
  PROVE  InStepAt(f)'
  <1>1. HasPrefix' = HasPrefix /\ IsEmpty' = IsEmpty /\ text' = text /\ prefixMode' = prefixMode
    BY DEF inputs, HasPrefix, IsEmpty
  <1>2. Hand(f)' = Hand(f) /\ Taken(f)' = Taken(f)
    BY DEF Same, Hand, Taken
  <1>3. Found(f)' = Found(f)
    BY <1>2 DEF Same, Found, AndEntry
  <1>4. Uncut(f)' <=> Uncut(f)
    BY <1>1, <1>3 DEF Uncut
  <1>5. Reader(f)' = Reader(f)
    BY <1>1, <1>2 DEF Reader
  <1>6. prefixMode /\ Uncut(f)' => Together(f, Reader(f))'
    <2> DEFINE r == Reader(f)
    <2>1. prefixMode /\ Uncut(f)' => Together(f, r)
      BY <1>4 DEF InStepAt
    <2>2. r' = r
      BY <1>5
    <2> HIDE DEF r
    <2>3. Together(f, r)' <=> Together(f, r)
      <3>1. Alike(Found(f), Append(r.sent, r.buffer))' <=> Alike(Found(f), Append(r.sent, r.buffer))
        BY <1>1, <1>3, <2>2 DEF Alike, ButEmptyLines
      <3>2. QED
        BY <1>3, <2>2, <3>1 DEF Together, Same
    <2>4. QED
      BY <2>1, <2>3 DEF r
  <1>7. QED
    BY <1>1, <1>3, <1>6 DEF InStepAt, Same

LEMMA InStepMoves ==
  ASSUME TypeOK, LastInHand, BufferCounted, FlushesSomething, ~cancelled,
         NEW f \in Files, FileStep(f), InStepAt(f)
  PROVE  InStepAt(f)'
  <1>1. text' = text /\ prefixMode' = prefixMode /\ IsEmpty' = IsEmpty
    BY Effects DEF inputs, IsEmpty
  <1>2. ASSUME ~prefixMode
        PROVE  Found(f)' = [n \in 1 .. pos'[f] |-> <<<<f, n>>>>]
    <2>1. Found(f) = [n \in 1 .. pos[f] |-> <<<<f, n>>>>] /\ pos[f] \in Nat
      BY <1>2 DEF InStepAt, TypeOK
    <2>2. CASE TakesInHand(f)
      <3>1. pos'[f] = pos[f] + 1 /\ Found(f)' = Append(Found(f), <<<<f, pos[f] + 1>>>>)
        BY <2>2, FoundStep DEF TakesInHand, Takes, FindsNew, Line
      <3>2. Line(f) \in AllLines
        BY <2>2, LineTyped DEF TakesInHand, Takes
      <3> DEFINE F == Found(f)
                 F2 == Append(F, <<<<f, pos[f] + 1>>>>)
      <3>3. F \in Seq(Entries) /\ Len(F) = pos[f]
        <4>1. F \in Seq(Entries)
          BY FoundTyped
        <4>2. DOMAIN F = 1 .. pos[f]
          BY <2>1
        <4> HIDE DEF F
        <4>3. QED
          BY <2>1, <4>1, <4>2
      <3>4. /\ F2 \in Seq(Entries) /\ Len(F2) = pos[f] + 1 /\ F2[pos[f] + 1] = <<<<f, pos[f] + 1>>>>
            /\ \A n \in 1 .. pos[f] : F2[n] = F[n]
        <4>1. <<<<f, pos[f] + 1>>>> \in Entries
          BY <3>2 DEF Line, Entries
        <4> HIDE DEF F
        <4>2. QED
          BY <3>3, <4>1, AppendProperties
      <3>5. \A n \in 1 .. pos[f] : F[n] = <<<<f, n>>>>
        BY <2>1
      <3> HIDE DEF F, F2
      <3>6. F2 = [n \in 1 .. pos[f] + 1 |-> F2[n]]
        BY <3>4
      <3>7. \A n \in 1 .. pos[f] + 1 : F2[n] = <<<<f, n>>>>
        BY <2>1, <3>4, <3>5
      <3>8. QED
        BY <3>1, <3>6, <3>7 DEF F, F2
    <2>3. CASE Flushes(f) \/ Sends(f) \/ Leaves(f)
      BY <2>1, <2>3, FoundStep DEF Flushes, Sends, Leaves
    <2>4. QED
      BY <1>2, <2>2, <2>3, Effects DEF Begins, Continues, LeavesOut
  <1>3. ASSUME prefixMode, Uncut(f)'
        PROVE  Together(f, Reader(f))'
    <2> DEFINE r == Reader(f)
               r2 == Reader(f)'
    <2>1. Together(f, r)
      BY <1>3, UncutBefore DEF InStepAt
    <2>2. r \in Readings(AllLines)
      BY ReaderSteps
    <2>3. CASE Takes(f)
      <3>1. r2 = Scan(r, Line(f), text, MaxLines)
        BY <2>3, ReaderSteps
      <3>2. Line(f) \in AllLines
        BY <2>3, LineTyped DEF Takes
      <3> HIDE DEF r, r2
      <3>3. r2 \in Readings(AllLines)
        BY <2>2, <3>1, <3>2, ScanType
      <3>4. ThenTogether(f, r2)
        BY <1>3, <2>1, <2>2, <2>3, <3>1, <3>3, TogetherTaken
      <3>5. QED
        BY <1>1, <3>4, TogetherThen DEF r2
    <2>4. CASE Flushes(f) \/ Leaves(f)
      <3>1. r2 = r /\ Found(f)' = Found(f)
        BY <2>4, ReaderSteps, FoundStep DEF Flushes, Leaves
      <3> HIDE DEF r, r2
      <3>2. ThenTogether(f, r)
        <4>1. CASE Leaves(f)
          BY <2>1, <3>1, <4>1 DEF Leaves, Together, ThenTogether
        <4>2. CASE Flushes(f)
          <5>1. r.buffer # <<>>
            <6>1. CASE inHand[f] = NoLine
              BY <2>1, <4>2, <6>1 DEF Together, Flushes, FlushesSomething
            <6>2. CASE inHand[f] # NoLine
              <7>1. <<inHand[f]>> # <<>>
                OBVIOUS
              <7>2. QED
                BY <2>1, <6>2, <7>1 DEF Together
            <6>3. QED
              BY <6>1, <6>2
          <5>2. inHand'[f] = NoLine
                /\ (logBuffer'[f] # <<>> =>
                      inHand[f] # NoLine /\ logBuffer'[f] = <<inHand[f]>> /\ lineCount'[f] = 1)
            <6>1. CASE pc[f] = "flushStart"
              BY <4>2, <6>1, HandTyped DEF Flushes
            <6>2. CASE pc[f] # "flushStart"
              BY <4>2, <6>2 DEF Flushes
            <6>3. QED
              BY <6>1, <6>2
          <5>3. QED
            BY <2>1, <3>1, <5>1, <5>2 DEF Together, ThenTogether
        <4>3. QED
          BY <2>4, <4>1, <4>2
      <3>3. QED
        BY <1>1, <3>1, <3>2, TogetherThen DEF r2
    <2>5. CASE Sends(f)
      BY <1>3, <2>5 DEF Sends, LastInHand
    <2>6. QED
      BY <2>3, <2>4, <2>5, Effects DEF TakesInHand, Begins, Continues, LeavesOut
  <1>4. QED
    BY <1>1, <1>2, <1>3 DEF InStepAt

LEMMA InStepIs ==
  InStep <=> (~cancelled => \A f \in Files : InStepAt(f))
  BY DEF InStep, InStepAt, Reader

LEMMA InStepKept ==
  ASSUME TypeOK, LastInHand, BufferCounted, FlushesSomething, InStep, [Next]_vars
  PROVE  InStep'
  <1>1. InStep' <=> (~cancelled' => \A f \in Files : InStepAt(f)')
    BY DEF InStep, InStepAt, Reader
  <1>2. CASE UNCHANGED <<inputs, cancelled, tailerVars>>
    <2>1. \A f \in Files : Same(f)
      BY <1>2 DEF tailerVars, Same
    <2>2. QED
      BY <1>1, <1>2, <2>1, InStepIs, StillTogether
  <1>3. ASSUME NEW f \in Files, FileStep(f), ~cancelled', NEW g \in Files
        PROVE  InStepAt(g)'
    <2>1. ~cancelled /\ UNCHANGED inputs /\ (g # f => Same(g))
      BY <1>3, Effects
    <2>2. QED
      BY <1>3, <2>1, InStepIs, StillTogether, InStepMoves
  <1>4. CASE Cancel
    BY <1>1, <1>4 DEF Cancel
  <1>5. CASE \E f \in Files : FileStep(f)
    BY <1>1, <1>3, <1>5
  <1>6. QED
    BY <1>2, <1>4, <1>5, NextCases DEF Consume, CloseCh, vars

LEMMA FlushesSomethingKept ==
  ASSUME TypeOK, LastInHand, FlushesSomething, [Next]_vars
  PROVE  FlushesSomething'
  <1>1. CASE UNCHANGED tailerVars
    BY <1>1 DEF tailerVars, FlushesSomething, Flushing
  <1>2. ASSUME NEW f \in Files, FileStep(f)
        PROVE  FlushesSomething'
    <2>1. pc'[f] \in {"flushLoop", "flushStart", "flushExit"} => logBuffer'[f] # <<>>
      <3>1. CASE Leaves(f)
        BY <3>1 DEF Leaves
      <3>2. CASE TakesInHand(f)
        BY <3>2 DEF TakesInHand
      <3>3. QED
        BY <1>2, <3>1, <3>2, Effects DEF Begins, Continues, LeavesOut, Flushes, Sends
    <2>2. \A g \in Files : g # f => Same(g)
      BY <1>2, Effects
    <2>3. QED
      BY <2>1, <2>2 DEF FlushesSomething, Flushing, Same
  <1>3. QED
    BY <1>1, <1>2, NextCases DEF Cancel, Consume, CloseCh, vars

LEMMA InStepAtFirst ==
  ASSUME Init
  PROVE  InStep
  <1>1. SUFFICES ASSUME NEW f \in Files
                 PROVE  InStepAt(f)
    BY InStepIs
  <1>2. Found(f) = <<>> /\ pos[f] = 0 /\ logBuffer[f] = <<>> /\ inHand[f] = NoLine
        /\ lineCount[f] = 0
    BY DEF Init, Found, AndEntry, Hand
  <1>3. [n \in 1 .. pos[f] |-> <<<<f, n>>>>] = <<>> /\ Taken(f) = <<>>
    BY <1>2 DEF Taken
  <1>4. Reader(f) = NothingRead
    BY <1>3, ScanAllEmpty DEF Reader
  <1>5. Together(f, NothingRead)
    BY <1>2 DEF Together, NothingRead
  <1>6. QED
    BY <1>2, <1>3, <1>4, <1>5 DEF InStepAt

LEMMA InStepSame ==
  ASSUME TypeOK, LastInHand, InStep
  PROVE  SameEntries
  <1>1. SUFFICES ASSUME ~cancelled, NEW f \in Files, prefixMode => Uncut(f)
                 PROVE  Alike(Found(f), ReadStaticLogs(Taken(f), prefixMode, text, MaxLines))
    BY DEF SameEntries
  <1>2. InStepAt(f)
    BY <1>1, InStepIs
  <1>3. Found(f) \in Seq(Entries)
    BY FoundTyped
  <1>4. CASE ~prefixMode
    <2>1. Found(f) = [n \in 1 .. pos[f] |-> <<<<f, n>>>>]
      BY <1>2, <1>4 DEF InStepAt
    <2>2. ReadStaticLogs(Taken(f), prefixMode, text, MaxLines)
            = [n \in 1 .. pos[f] |-> <<<<f, n>>>>]
      BY <1>4 DEF ReadStaticLogs, Taken
    <2>3. QED
      BY <1>3, <2>1, <2>2, AlikeItself
  <1>5. CASE prefixMode
    <2> DEFINE r == Reader(f)
    <2>1. Together(f, r)
      BY <1>1, <1>2, <1>5 DEF InStepAt
    <2>2. ReadStaticLogs(Taken(f), prefixMode, text, MaxLines) = Flush(r).sent
      BY <1>5 DEF ReadStaticLogs, Reader
    <2> HIDE DEF r
    <2>3. CASE r.buffer = <<>>
      <3>1. Found(f) = <<>> /\ Flush(r).sent = <<>>
        BY <2>1, <2>3 DEF Together, Flush
      <3>2. QED
        BY <1>3, <2>2, <3>1, AlikeItself
    <2>4. CASE r.buffer # <<>>
      BY <2>1, <2>2, <2>4 DEF Together, Flush
    <2>5. QED
      BY <2>3, <2>4
  <1>6. QED
    BY <1>4, <1>5

-----------------------------------------------------------------------------
(* The theorems.                                                           *)

LEMMA InitInv ==
  ASSUME Init
  PROVE  IInv
  <1> USE DEF Init
  <1>1. TypeOK
    <2>1. <<>> \in Entries
      BY DEF Entries
    <2>2. <<>> \in Seq(Entries) /\ Len(<<>>) = 0
      OBVIOUS
    <2>3. logBuffer \in [Files -> Entries] /\ sent \in [Files -> Seq(Entries)]
      BY <2>1, <2>2
    <2>4. ch \in Seq(Entries) /\ Len(ch) <= ChanCap
      BY <2>2, ReaderAssumption
    <2>5. /\ prefixMode \in BOOLEAN /\ cancelled \in BOOLEAN /\ chClosed \in BOOLEAN
          /\ text \in [AllLines -> {"prefixed", "empty", "other"}]
      OBVIOUS
    <2>6. /\ pos \in [Files -> Nat] /\ \A f \in Files : pos[f] <= FileLen[f]
          /\ lineCount \in [Files -> Nat] /\ \A f \in Files : lineCount[f] <= pos[f]
      BY ReaderAssumption
    <2>7. /\ pc \in [Files -> {"select", "send", "flushLoop", "flushStart", "flushExit", "done"}]
          /\ inHand \in [Files -> AllLines \cup {NoLine}]
          /\ dropped \in [Files -> SUBSET AllLines]
      OBVIOUS
    <2> HIDE DEF Init
    <2>8. QED
      BY <2>3, <2>4, <2>5, <2>6, <2>7 DEF TypeOK, Entries
  <1>2. LastInHand /\ ClosedAfterTailers
    BY DEF LastInHand, ClosedAfterTailers
  <1>3. \A f \in Files : /\ Elems(sent[f]) \cup {logBuffer[f]} = {<<>>}
                         /\ Hand(f) = <<>>
    BY ElemsSmall DEF Hand
  <1>4. OnlyTaken /\ BufferCounted /\ RestDropped
    BY <1>3 DEF OnlyTaken, BufferCounted, RestDropped
  <1>5. FlushesSomething /\ InStep
    BY InStepAtFirst DEF FlushesSomething, Flushing
  <1>6. EntriesWellFormed
    <2>1. Len(<<>>) = 0 /\ 2 .. 0 = {} /\ MaxLines \in Nat
      BY ReaderAssumption
    <2>2. QED
      BY <1>3, <2>1 DEF EntriesWellFormed
  <1>7. NothingLost
    BY DEF NothingLost
  <1>8. PerFileOrder
    <2>1. ASSUME NEW f \in Files
          PROVE  Ordered(sent[f] \o <<logBuffer[f], Hand(f)>>)
      <3>1. sent[f] \o <<logBuffer[f], Hand(f)>> = <<<<>>, <<>>>>
        BY <1>3
      <3>2. QED
        BY <3>1 DEF Ordered
    <2>2. QED
      BY <2>1 DEF PerFileOrder
  <1>9. QED
    BY <1>1, <1>2, <1>4, <1>5, <1>6, <1>7, <1>8 DEF IInv

(* The line in hand is the last one taken, and an entry that may grow ends *)
(* with it: what the other parts of the invariant rest on.                 *)
THEOREM Invariance == Spec => []IInv
  <1>1. IInv /\ [Next]_vars => IInv'
    BY TypeKept, LastInHandKept, OnlyTakenKept, BufferCountedKept, RestDroppedKept,
       FlushesSomethingKept, InStepKept,
       EntriesWellFormedKept,
       NothingLostKept, PerFileOrderKept, ClosedKept DEF IInv
  <1>2. QED
    BY InitInv, <1>1, PTL DEF Spec

(* Positions stay within the files, the channel within its capacity.       *)
THEOREM TypeCorrect == Spec => []TypeOK
  <1>1. IInv => TypeOK
    BY DEF IInv
  <1>2. QED
    BY <1>1, Invariance, PTL

(* The entries of a file leave in file order, no line twice.               *)
THEOREM EntriesInFileOrder == Spec => []PerFileOrder
  <1>1. IInv => PerFileOrder
    BY DEF IInv
  <1>2. QED
    BY <1>1, Invariance, PTL

(* An entry is a run of consecutive lines within the limit that starts at  *)
(* the prefix, whenever the ticker cuts it.                                *)
THEOREM EntriesAreRuns == Spec => []EntriesWellFormed
  <1>1. IInv => EntriesWellFormed
    BY DEF IInv
  <1>2. QED
    BY <1>1, Invariance, PTL

(* Until the signal, no line is lost between the tail and the channel.     *)
THEOREM LinesAreKept == Spec => []NothingLost
  <1>1. IInv => NothingLost
    BY DEF IInv
  <1>2. QED
    BY <1>1, Invariance, PTL

(* Until the signal, the entries of a file are those training would have   *)
(* made of the lines read so far, whatever they are and however the limit  *)
(* cuts them, but for empty lines at their ends, unless the ticker has cut *)
(* one in two.                                                             *)
THEOREM DetectionCutsAsTraining == Spec => []SameEntries
  <1>1. IInv => SameEntries
    BY InStepSame DEF IInv
  <1>2. QED
    BY <1>1, Invariance, PTL

(* The channel is closed when no tailer can send any more.                 *)
THEOREM SendsEndBeforeClose == Spec => []ClosedAfterTailers
  <1>1. IInv => ClosedAfterTailers
    BY DEF IInv
  <1>2. QED
    BY <1>1, Invariance, PTL

(* A line with text is left out only behind a full entry, whatever the     *)
(* limit, except 1: the counter an empty line leaves at 1 then counts as a *)
(* full entry, and the lines with text behind that line are dropped with   *)
(* no entry to belong to (robust_tail.go:123-135).                         *)
THEOREM DropsFollowFullEntries ==
  ASSUME MaxLines # 1
  PROVE  Spec => []DropsOnlyOverflow
  <1>1. Init => DropsOnlyOverflow
    BY DEF Init, DropsOnlyOverflow
  <1>2. IInv /\ DropsOnlyOverflow /\ [Next]_vars => DropsOnlyOverflow'
    BY OverflowKept DEF IInv
  <1>3. QED
    BY <1>1, <1>2, Invariance, PTL DEF Spec
=============================================================================
