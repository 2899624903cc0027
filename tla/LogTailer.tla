----------------------------- MODULE LogTailer -----------------------------
(***************************************************************************)
(* Following VRChat's newest output_log_*.txt                              *)
(* (src/src/core/LogTailer.cpp): a thread that every second looks for the  *)
(* newest log, reads what was appended and delivers one line at a time,    *)
(* while VRChat flushes half lines, starts a new log at each launch and    *)
(* sometimes rewrites the one it has.                                      *)
(*                                                                         *)
(* A log is a sequence of chunks.  A line has two, so that a flush, a read *)
(* or the start of the following can fall inside it; the second one holds  *)
(* the newline.  The cap of 1 MiB on the carry-over is left out.           *)
(***************************************************************************)
EXTENDS Naturals, Sequences, SequencesExt

CONSTANTS
  MaxLogs,      \* bound: launches of VRChat
  MaxLines,     \* bound: lines VRChat writes, over all logs
  MaxRewrites,  \* bound: logs VRChat writes anew
  MaxStarts,    \* bound: times the tailer is started
  MaxFaults,    \* bound: opens that fail, exceptions while reading
  ReadSize,     \* kReadBufferSize, in chunks
  ScanSize,     \* kBackfillScanBytes, in chunks
  KeepLines     \* kBackfillLines

ASSUME LogTailerAssumption ==
  /\ MaxLogs \in Nat /\ MaxLines \in Nat /\ MaxRewrites \in Nat
  /\ MaxStarts \in Nat /\ MaxFaults \in Nat
  /\ ReadSize \in Nat \ {0} /\ ScanSize \in Nat \ {0} /\ KeepLines \in Nat

VARIABLES
  logs,       \* the logs, one per launch: the last one is the newest
  lines,      \* lines VRChat has begun
  pc,         \* where the thread is, "off" while there is none
  file,       \* m_currentFile: the number of a log, 0 for none
  offset,     \* m_offset
  carry,      \* m_carryover
  attached,   \* m_attachedOnce
  pending,    \* m_pendingBackfill
  size,       \* the size ReadNewBytes works with
  out,        \* what the callback has been given since the start
  liveFrom,   \* history: where the live reading of this file began
  base,       \* history: Len(out) when it began
  rewritten,  \* history: the file was rewritten since, under our offset
  rewrites, started, faults

vrchat  == <<logs, lines, rewrites>>
cursor  == <<file, offset, carry>>
flags   == <<attached, pending>>
history == <<liveFrom, base, rewritten>>
tailerVars == <<vrchat, pc, cursor, flags, size, out, history, started, faults>>

Chunk(n, part) == [line |-> n, part |-> part]
Chunks == [line : 1..MaxLines, part : {1, 2}]
Newest == Len(logs)
Smaller(a, b) == IF a < b THEN a ELSE b

\* Cut s at the newlines: the whole pieces, and what follows the last one.
Cut(s) ==
  FoldLeft(LAMBDA acc, chunk :
             IF chunk.part = 2
             THEN [pieces |-> Append(acc.pieces, Append(acc.rest, chunk)), rest |-> <<>>]
             ELSE [acc EXCEPT !.rest = Append(@, chunk)],
           [pieces |-> <<>>, rest |-> <<>>], s)

\* EmitLine, for each piece.
Line(piece, backfill) == [text |-> piece, backfill |-> backfill]
Deliver(pieces, backfill) ==
  out' = out \o [i \in 1..Len(pieces) |-> Line(pieces[i], backfill)]

TailerInit ==
        /\ logs = <<>> /\ lines = 0 /\ rewrites = 0
        /\ pc = "off" /\ file = 0 /\ offset = 0 /\ carry = <<>>
        /\ attached = FALSE /\ pending = FALSE /\ size = 0 /\ out = <<>>
        /\ liveFrom = 0 /\ base = 0 /\ rewritten = FALSE
        /\ started = 0 /\ faults = 0

-----------------------------------------------------------------------------
(* VRChat                                                                  *)

Idle == UNCHANGED <<pc, cursor, flags, size, out, liveFrom, base, started, faults>>

Launch ==
  /\ Newest < MaxLogs
  /\ logs' = Append(logs, <<>>)
  /\ UNCHANGED <<lines, rewrites, rewritten>> /\ Idle

HalfWritten == logs[Newest] # <<>> /\ Last(logs[Newest]).part = 1

\* A flush ends at the end of a line or in the middle of one.
Flush ==
  /\ Newest > 0
  /\ \/ /\ HalfWritten
        /\ logs' = [logs EXCEPT ![Newest] = Append(@, Chunk(lines, 2))]
        /\ UNCHANGED lines
     \/ /\ ~HalfWritten /\ lines < MaxLines
        /\ lines' = lines + 1
        /\ \E whole \in BOOLEAN :
             logs' = [logs EXCEPT ![Newest] = @ \o
                         IF whole THEN <<Chunk(lines + 1, 1), Chunk(lines + 1, 2)>>
                         ELSE <<Chunk(lines + 1, 1)>>]
  /\ UNCHANGED <<rewrites, rewritten>> /\ Idle

Rewrite ==
  /\ Newest > 0 /\ logs[Newest] # <<>> /\ rewrites < MaxRewrites
  /\ logs' = [logs EXCEPT ![Newest] = <<>>]
  /\ rewrites' = rewrites + 1
  /\ rewritten' = (rewritten \/ (file = Newest /\ offset > 0))
  /\ UNCHANGED lines /\ Idle

-----------------------------------------------------------------------------
(* The tailer                                                              *)

StartTailer ==
        /\ pc = "off" /\ started < MaxStarts
        /\ pc' = "pick" /\ started' = started + 1 /\ out' = <<>>
        /\ UNCHANGED <<vrchat, cursor, flags, size, history, faults>>

\* Stop joins the thread at one of its checks of m_stop, and clears all.
StopTailer ==
        /\ pc # "off"
        /\ pc' = "off"
        /\ file' = 0 /\ offset' = 0 /\ carry' = <<>>
        /\ attached' = FALSE /\ pending' = FALSE
        /\ liveFrom' = 0 /\ base' = 0 /\ rewritten' = FALSE
        /\ size' = 0 /\ out' = <<>>
        /\ UNCHANGED <<vrchat, started, faults>>

\* The reading of a file begins at position n.
BeginsAt(n) == /\ offset' = n /\ liveFrom' = n /\ base' = Len(out)
               /\ carry' = <<>> /\ rewritten' = FALSE

\* A tick that finds no log, or the log it has.
PickSame ==
  /\ pc = "pick" /\ Newest > 0 /\ file = Newest
  /\ pc' = "measure"
  /\ UNCHANGED <<vrchat, cursor, flags, size, out, history, started, faults>>

\* OnFileSwitched, the first time: whatever is there is history.
FirstAttach ==
  /\ pc = "pick" /\ Newest > 0 /\ file # Newest /\ ~attached
  /\ file' = Newest /\ attached' = TRUE
  /\ \/ BeginsAt(Len(logs[Newest])) /\ pending' = TRUE /\ pc' = "backfill"
        /\ UNCHANGED faults
     \/ BeginsAt(0) /\ pending' = pending /\ pc' = "measure"
        /\ faults < MaxFaults /\ faults' = faults + 1
  /\ UNCHANGED <<vrchat, size, out, started>>

\* OnFileSwitched: a newer log is read from its beginning.
Switch ==
  /\ pc = "pick" /\ Newest > 0 /\ file # Newest /\ attached
  /\ file' = Newest /\ BeginsAt(0)
  /\ pc' = "measure"
  /\ UNCHANGED <<vrchat, flags, size, out, started, faults>>

\* Without the piece the window starts in.
FromWholeLine(window) ==
  LET firstNewline == CHOOSE i \in 1..Len(window) : /\ window[i].part = 2
                                                    /\ \A j \in 1..(i-1) : window[j].part = 1
  IN IF \E i \in 1..Len(window) : window[i].part = 2
     THEN SubSeq(window, firstNewline + 1, Len(window)) ELSE <<>>

\* Mutant: the live reading starts over the lines just replayed.
BackfillRewinds ==
  /\ pc = "backfill"
  /\ pending' = FALSE /\ pc' = "measure"
  /\ LET pieces == Cut(SubSeq(logs[file], 1, Smaller(offset, Len(logs[file])))).pieces
     IN Deliver(pieces, TRUE) /\ base' = Len(out')
  /\ offset' = 0 /\ liveFrom' = 0
  /\ UNCHANGED <<vrchat, file, carry, attached, size, rewritten, started, faults>>

\* BackfillTail: the last lines of a window that ends at m_offset.
Backfill ==
  LET start  == IF offset > ScanSize THEN offset - ScanSize ELSE 0
      window == SubSeq(logs[file], start + 1, Smaller(offset, Len(logs[file])))
      pieces == Cut(IF start > 0 THEN FromWholeLine(window) ELSE window).pieces
      kept   == SubSeq(pieces, IF Len(pieces) > KeepLines
                               THEN Len(pieces) - KeepLines + 1 ELSE 1, Len(pieces))
  IN
  /\ pc = "backfill"
  /\ \/ Deliver(kept, TRUE) /\ UNCHANGED faults
     \/ UNCHANGED out /\ faults < MaxFaults /\ faults' = faults + 1
  /\ base' = Len(out')
  /\ pending' = FALSE /\ pc' = "measure"
  /\ UNCHANGED <<vrchat, cursor, attached, size, liveFrom, rewritten, started>>

\* Mutant: a file shorter than the offset is left for later.
MeasureNoReset ==
  /\ pc = "measure"
  /\ size' = Len(logs[file])
  /\ pc' = IF size' <= offset THEN "pick" ELSE "read"
  /\ UNCHANGED <<vrchat, cursor, flags, out, history, started, faults>>

\* ReadNewBytes: a file shorter than the offset was rewritten.
Measure ==
  /\ pc = "measure"
  /\ size' = Len(logs[file])
  /\ \/ size' < offset /\ BeginsAt(0)
     \/ size' >= offset /\ UNCHANGED <<offset, carry, history>>
  /\ pc' = IF size' = offset' THEN "pick" ELSE "read"
  /\ UNCHANGED <<vrchat, file, flags, out, started, faults>>

\* ReadNewBytes cannot open the file: the next tick tries again.
MeasureFails ==
  /\ pc = "measure" /\ faults < MaxFaults
  /\ faults' = faults + 1 /\ pc' = "pick"
  /\ UNCHANGED <<vrchat, cursor, flags, size, out, history, started>>

\* What ReadFile returns: no more than was measured, nor than there is.
Bytes == SubSeq(logs[file], offset + 1,
                Smaller(Smaller(offset + ReadSize, size), Len(logs[file])))

\* Mutant: the half line is lost.
ReadWithoutCarry ==
  /\ pc = "read"
  /\ Deliver(Cut(Bytes).pieces, FALSE)
  /\ carry' = Cut(Bytes).rest
  /\ offset' = offset + Len(Bytes)
  /\ pc' = IF Bytes # <<>> /\ offset' < size THEN "read" ELSE "pick"
  /\ UNCHANGED <<vrchat, file, flags, size, history, started, faults>>

Read ==
  /\ pc = "read"
  /\ Deliver(Cut(carry \o Bytes).pieces, FALSE)
  /\ carry' = Cut(carry \o Bytes).rest
  /\ offset' = offset + Len(Bytes)
  /\ pc' = IF Bytes # <<>> /\ offset' < size THEN "read" ELSE "pick"
  /\ UNCHANGED <<vrchat, file, flags, size, history, started, faults>>

\* The catch in Run: some of the lines were delivered, the cursor is dropped.
Hiccup ==
  /\ pc = "read" /\ faults < MaxFaults /\ faults' = faults + 1
  /\ LET pieces == Cut(carry \o Bytes).pieces
     IN \E n \in 0..Len(pieces) : Deliver(SubSeq(pieces, 1, n), FALSE)
  /\ file' = 0 /\ offset' = 0 /\ carry' = <<>>
  /\ liveFrom' = 0 /\ base' = Len(out') /\ rewritten' = FALSE
  /\ pc' = "pick"
  /\ UNCHANGED <<vrchat, flags, size, started>>

-----------------------------------------------------------------------------
Tick == PickSame \/ FirstAttach \/ Switch \/ Backfill \/ Measure \/ Read

TailerNext == Launch \/ Flush \/ Rewrite \/ StartTailer \/ StopTailer \/ Tick \/ MeasureFails \/ Hiccup

TailerSpec == TailerInit /\ [][TailerNext]_tailerVars

\* The thread polls once a second for as long as it lives.
FairSpec == TailerSpec /\ WF_tailerVars(Tick)

-----------------------------------------------------------------------------
\* Every variable keeps its type, and the cursor lies inside its file as long
\* as that is the file it was set in (m_offset, LogTailer.cpp).
TailerTypeOK ==
        /\ logs \in Seq(Seq(Chunks)) /\ Len(logs) <= MaxLogs
        /\ lines \in 0..MaxLines
        /\ pc \in {"off", "pick", "backfill", "measure", "read"}
        /\ file \in 0..Newest /\ offset \in 0..(2 * MaxLines) /\ carry \in Seq(Chunks)
        /\ attached \in BOOLEAN /\ pending \in BOOLEAN /\ rewritten \in BOOLEAN
        /\ size \in 0..(2 * MaxLines)
        /\ out \in Seq([text : Seq(Chunks), backfill : BOOLEAN])
        /\ file # 0 /\ ~rewritten => offset <= Len(logs[file])
        /\ liveFrom \in 0..offset /\ base \in 0..Len(out)
        /\ rewrites \in 0..MaxRewrites /\ started \in 0..MaxStarts /\ faults \in 0..MaxFaults

\* One newline, at the end.
IsPiece(text) == /\ text # <<>> /\ Last(text).part = 2
                 /\ \A i \in 1..(Len(text) - 1) : text[i].part = 1

Live == SubSeq(out, base + 1, Len(out))

(***************************************************************************)
(* What was delivered live and what is carried over are together exactly   *)
(* the bytes of the file from where its reading began to m_offset, cut at  *)
(* its newlines: nothing is lost, repeated or out of order, however reads  *)
(* and flushes fall.  The exception is a rewrite that had regrown to       *)
(* m_offset before the next tick.                                          *)
(***************************************************************************)
LiveIsExact ==
  file # 0 /\ ~rewritten =>
    /\ FlattenSeq([i \in 1..Len(Live) |-> Live[i].text]) \o carry
         = SubSeq(logs[file], liveFrom + 1, offset)
    /\ \A i \in 1..Len(Live) : ~Live[i].backfill /\ IsPiece(Live[i].text)
    /\ \A i \in 1..Len(carry) : carry[i].part = 1

(***************************************************************************)
(* No line is delivered live twice, and none that was replayed follows     *)
(* live: neither a switch to a newer log nor a rewrite goes back.  There   *)
(* are two exceptions: an exception while reading, and a rewrite that      *)
(* falls between the first attach and its replay.                          *)
(***************************************************************************)
NoLineTwice ==
  faults = 0 =>
    \A i, j \in 1..Len(out) :
      /\ i # j /\ Last(out[i].text) = Last(out[j].text)
      => rewrites > 0 /\ out[i].backfill # out[j].backfill

(***************************************************************************)
(* While it lives, the tailer catches up with the newest log, after a new  *)
(* launch, a rewrite or an exception too.                                  *)
(***************************************************************************)
CatchesUp == <>[](pc # "off" /\ Newest > 0 => file = Newest /\ offset = Len(logs[Newest]))

(***************************************************************************)
(* "We only replay complete lines ... so we never emit a fragment", and    *)
(* the fragment after the last newline "isn't lost" (LogTailer.cpp).       *)
(***************************************************************************)
NeverAFragment ==
  \A i \in 1..Len(out) : \E n \in 1..MaxLines : out[i].text = <<Chunk(n, 1), Chunk(n, 2)>>
=============================================================================
