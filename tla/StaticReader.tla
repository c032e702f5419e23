----------------------------- MODULE StaticReader -----------------------------
(***************************************************************************)
(* ReadStaticLogs (internal/infrastructure/logreader/native_tail.go), the  *)
(* reader of training: the entries it makes of the lines of a file, as a   *)
(* fold over them.  Its goroutine and its channel change nothing about     *)
(* them: there is one consumer, which takes all.  The lines are those      *)
(* before the first one of 64 KiB, at which bufio.Scanner stops.           *)
(*                                                                         *)
(* text says what a line is: "prefixed", "empty" or "other"; r holds what  *)
(* was sent, logBuffer, and lineCount.                                     *)
(***************************************************************************)
EXTENDS SequencesExt

(* flushBuffer.                                                            *)
Flush(r) ==
  IF r.buffer = <<>> THEN r
  ELSE [sent |-> Append(r.sent, r.buffer), buffer |-> <<>>, count |-> 0]

(* Mutant of Scan: an entry ends as soon as it is full.                    *)
ScanEndsFull(r, line, text, maxLines) ==
  CASE text[line] = "prefixed" -> [sent |-> Flush(r).sent, buffer |-> <<line>>, count |-> 1]
    [] text[line] # "prefixed" /\ maxLines > 0 /\ r.count >= maxLines ->
         [sent |-> Flush(r).sent, buffer |-> <<line>>, count |-> 1]
    [] OTHER -> [sent   |-> r.sent,
                  buffer |-> IF r.buffer = <<>> /\ text[line] = "empty" THEN <<>>
                             ELSE Append(r.buffer, line),
                  count  |-> IF r.buffer = <<>> THEN 1 ELSE r.count + 1]

(* The loop body for one line: it starts an entry, or is one too many, or  *)
(* continues the entry; an empty text in an empty buffer leaves no trace.  *)
Scan(r, line, text, maxLines) ==
  CASE text[line] = "prefixed" -> [sent |-> Flush(r).sent, buffer |-> <<line>>, count |-> 1]
    [] text[line] # "prefixed" /\ maxLines > 0 /\ r.count >= maxLines -> r
    [] OTHER -> [sent   |-> r.sent,
                  buffer |-> IF r.buffer = <<>> /\ text[line] = "empty" THEN <<>>
                             ELSE Append(r.buffer, line),
                  count  |-> IF r.buffer = <<>> THEN 1 ELSE r.count + 1]

(* All lines so far.                                                       *)
ScanAll(lines, text, maxLines) ==
  FoldLeft(LAMBDA r, line : Scan(r, line, text, maxLines),
           [sent |-> <<>>, buffer |-> <<>>, count |-> 0], lines)

ReadStaticLogs(lines, prefixMode, text, maxLines) ==
  IF ~prefixMode THEN [i \in DOMAIN lines |-> <<lines[i]>>]
                 ELSE Flush(ScanAll(lines, text, maxLines)).sent
=============================================================================
