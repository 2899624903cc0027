----------------------------- MODULE LogStream -----------------------------
(***************************************************************************)
(* logs.stream.start and logs.stream.stop of LogsBridge.cpp: the pages     *)
(* that share one tailer count themselves in and out, the first start      *)
(* parses the logs and begins a tailer, and the tailer classifies the      *)
(* lines behind its first attach into events that carry the instance the   *)
(* host believes VRChat to be in.  The handlers run on pool threads.       *)
(*                                                                         *)
(* The log is a sequence of the lines that say something about the room.   *)
(* An instance is named by the line that enters it, so the same one is     *)
(* never entered twice.  What LogTailer does with bytes and files is left  *)
(* to that module.                                                         *)
(***************************************************************************)
EXTENDS Naturals, Sequences, FiniteSets, SequencesExt, FiniteSetsExt

CONSTANTS
    Players,  \* display names
    Pages,    \* subscribers: each starts once and stops once
    MaxLog    \* bound: lines

ASSUME LogStreamAssumption == MaxLog \in Nat

VARIABLES
    log,      \* what VRChat has flushed
    dir,      \* VRChat's folder exists
    tailer,   \* m_logTailer: "none", "fresh" or "attached"
    pos,      \* the lines the tailer has read
    from,     \* the lines that were there when it attached
    parsed,   \* the lines that the parse of the last first start has seen
    world,    \* m_currentInstanceId, or None
    refs,     \* m_logTailerRefCount
    starts,   \* the start call of each page
    stops,    \* the stop call of each page
    recorded  \* lines whose events are in the database

hostVars == <<log, dir, tailer, pos, from, parsed, world, refs, starts, stops, recorded>>

None == 0
Lines == [kind : {"world", "joined", "left", "avatar"}, who : Players]

\* Where VRChat was after the first n lines: the line that entered the room.
LastWorld(n) == Max({i \in 1..n : log[i].kind = "world"} \cup {None})
\* Who was in that room.
InRoom(n) ==
    {p \in Players :
        LET mine == {i \in (LastWorld(n) + 1)..n : log[i].who = p /\ log[i].kind \in {"joined", "left"}}
        IN  mine # {} /\ log[Max(mine)].kind = "joined"}

HostTypeOK ==
    /\ log \in Seq(Lines) /\ Len(log) <= MaxLog
    /\ dir \in BOOLEAN
    /\ tailer \in {"none", "fresh", "attached"}
    /\ pos \in 0..Len(log) /\ from \in 0..pos /\ parsed \in 0..Len(log)
    /\ world \in 0..Len(log)
    /\ refs \in 0..Cardinality(Pages)
    /\ starts \in [Pages -> {"not", "sent", "parsed", "done"}]
    /\ stops \in [Pages -> {"not", "sent", "last", "done"}]
    /\ recorded \subseteq 1..Len(log)

HostInit ==
    /\ log = <<>>
    /\ dir = FALSE
    /\ tailer = "none"
    /\ pos = 0 /\ from = 0 /\ parsed = 0
    /\ world = None
    /\ refs = 0
    /\ starts = [p \in Pages |-> "not"]
    /\ stops = [p \in Pages |-> "not"]
    /\ recorded = {}

-----------------------------------------------------------------------------
\* VRChat writes a line.  It switches the avatar of somebody who is in the room.
Write(line) ==
    /\ Len(log) < MaxLog
    /\ line.kind = "avatar" => line.who \in InRoom(Len(log))
    /\ log' = Append(log, line)
    /\ dir' = TRUE
    /\ UNCHANGED <<tailer, pos, from, parsed, world, refs, starts, stops, recorded>>

\* The first start holds the mutex from its parse to its tailer.
MutexFree == \A p \in Pages : starts[p] # "parsed"

SendStart(p) ==
    /\ starts[p] = "not"
    /\ starts' = [starts EXCEPT ![p] = "sent"]
    /\ UNCHANGED <<log, dir, tailer, pos, from, parsed, world, refs, stops, recorded>>

\* A start with a tailer there is only counted; without VRChat's folder it
\* answers and is not; else it parses what is there into the database and
\* takes the current instance from it, and goes on if the parse throws.
Start(p) ==
    /\ starts[p] = "sent" /\ MutexFree
    /\ \/ /\ tailer # "none"
          /\ starts' = [starts EXCEPT ![p] = "done"]
          /\ refs' = refs + 1
          /\ UNCHANGED <<parsed, world, recorded>>
       \/ /\ tailer = "none" /\ ~dir
          /\ starts' = [starts EXCEPT ![p] = "done"]
          /\ UNCHANGED <<refs, parsed, world, recorded>>
       \/ /\ tailer = "none" /\ dir
          /\ starts' = [starts EXCEPT ![p] = "parsed"]
          /\ parsed' \in {0, Len(log)}
          /\ world' = IF LastWorld(parsed') = None THEN world ELSE LastWorld(parsed')
          /\ recorded' = recorded \cup 1..parsed'
          /\ UNCHANGED refs
    /\ UNCHANGED <<log, dir, tailer, pos, from, stops>>

\* The rest of the first start: the tailer begins.
Begin(p) ==
    /\ starts[p] = "parsed"
    /\ starts' = [starts EXCEPT ![p] = "done"]
    /\ tailer' = "fresh"
    /\ refs' = refs + 1
    /\ UNCHANGED <<log, dir, pos, from, parsed, world, stops, recorded>>

\* The tailer finds a log.  The lines that are there already go out as raw
\* lines only.
Attach ==
    /\ tailer = "fresh" /\ log # <<>>
    /\ tailer' = "attached"
    /\ pos' = Len(log) /\ from' = Len(log)
    /\ UNCHANGED <<log, dir, parsed, world, refs, starts, stops, recorded>>

\* The event of the next line, with the instance the host believes in.
Event == [line |-> pos + 1, at |-> IF log[pos + 1].kind = "world" THEN None ELSE world]

\* The callback of the tailer for the next line: the event goes out before the
\* instance changes.
Emit ==
    /\ tailer = "attached" /\ pos < Len(log)
    /\ pos' = pos + 1
    /\ world' = IF log[pos'].kind = "world" THEN pos' ELSE world
    /\ recorded' = recorded \cup {pos'}
    /\ UNCHANGED <<log, dir, tailer, from, parsed, refs, starts, stops>>

SendStop(p) ==
    /\ starts[p] # "not" /\ stops[p] = "not"
    /\ stops' = [stops EXCEPT ![p] = "sent"]
    /\ UNCHANGED <<log, dir, tailer, pos, from, parsed, world, refs, starts, recorded>>

Stop(p) ==
    /\ stops[p] = "sent" /\ MutexFree
    /\ refs' = IF refs > 0 THEN refs - 1 ELSE 0
    /\ stops' = [stops EXCEPT ![p] = IF refs' = 0 /\ tailer # "none" THEN "last" ELSE "done"]
    /\ UNCHANGED <<log, dir, tailer, pos, from, parsed, world, starts, recorded>>

\* The last stop ends the tailer once it holds the mutex no more.  (A second
\* last stop would call through an empty pointer and end the process, of which
\* no property speaks.)
TearDown(p) ==
    /\ stops[p] = "last"
    /\ stops' = [stops EXCEPT ![p] = "done"]
    /\ tailer' = "none" /\ pos' = 0 /\ from' = 0
    /\ UNCHANGED <<log, dir, parsed, world, refs, starts, recorded>>
=============================================================================
