------------------------------- MODULE Radar -------------------------------
(***************************************************************************)
(* The radar (RadarEngine.tsx) on top of LogStream: the page asks for a    *)
(* scan of the logs and for the live events at once, queues the events     *)
(* until the scan has answered, and applies them to what it shows.  React  *)
(* runs the functions handed to setActivePlayers when it renders, so       *)
(* activePlayersRef, which they also write, may be behind what the next    *)
(* event is judged by.                                                     *)
(***************************************************************************)
EXTENDS LogStream

CONSTANT radar  \* the page, one of Pages

ASSUME RadarAssumption == radar \in Pages

VARIABLES
    scan,     \* the scan: "not", "sent", "read", "done", "failed"
    scanned,  \* the lines it has read
    inbox,    \* events on their way to the page
    queue,    \* hydrationQueue
    cur,      \* currentWorldRef: the line that entered it, or None
    shown,    \* activePlayers as React last rendered it
    updates,  \* what setActivePlayers has been handed since
    ref,      \* activePlayersRef
    cut       \* history: a tailer ended while the page was there

pageVars == <<scan, scanned, inbox, queue, cur, shown, updates, ref, cut>>
vars == <<hostVars, pageVars>>

Mounted == starts[radar] # "not" /\ stops[radar] = "not"

\* A "ghost" has an avatar and no name.
States == {"out", "in", "ghost"}
Room == [Players -> States]
Empty == [p \in Players |-> "out"]
RoomOf(S) == [p \in Players |-> IF p \in S THEN "in" ELSE "out"]
Events == [line : 1..MaxLog, at : 0..MaxLog]
Updates == [op : {"set"}, room : Room] \cup [op : {"joined", "left", "avatar"}, who : Players]

TypeOK ==
    /\ HostTypeOK
    /\ scan \in {"not", "sent", "read", "done", "failed"}
    /\ scanned \in 0..Len(log)
    /\ inbox \in Seq(Events) /\ queue \in Seq(Events)
    /\ cur \in 0..Len(log)
    /\ shown \in Room /\ ref \in Room
    /\ updates \in Seq(Updates)
    /\ cut \in BOOLEAN

Init ==
    /\ HostInit
    /\ scan = "not" /\ scanned = 0
    /\ inbox = <<>> /\ queue = <<>>
    /\ cur = None
    /\ shown = Empty /\ ref = Empty
    /\ updates = <<>>
    /\ cut = FALSE

-----------------------------------------------------------------------------
(* What the page shows: the records below hold cur, updates and ref *)

Ran(room, u) ==
    CASE u.op = "set"    -> u.room
      [] u.op = "joined" -> [room EXCEPT ![u.who] = "in"]
      [] u.op = "left"   -> [room EXCEPT ![u.who] = "out"]
      [] u.op = "avatar" -> [room EXCEPT ![u.who] = IF @ = "out" THEN "ghost" ELSE @]

View == [cur |-> cur, updates |-> updates, ref |-> ref]

\* setActivePlayers with a function: React may run it at once if nothing is
\* waiting for a render.
Handed(v, u, eager) ==
    [v EXCEPT !.updates = Append(@, u),
              !.ref = IF eager /\ v.updates = <<>> THEN Ran(shown, u) ELSE @]
\* setActivePlayers with a value, and the ref beside it.
Replaced(v, room) ==
    [v EXCEPT !.updates = Append(@, [op |-> "set", room |-> room]), !.ref = room]

\* processLiveEvent.  An event of another instance is dropped if both sides
\* know theirs, and a switch of somebody the ref does not hold.
Processed(v, e, eager) ==
    LET line == log[e.line]
    IN  CASE line.kind = "world" -> [Replaced(v, Empty) EXCEPT !.cur = e.line]
          [] \/ line.kind # "world" /\ v.cur # None /\ e.at # None /\ e.at # v.cur
             \/ line.kind = "avatar" /\ v.ref[line.who] = "out" -> v
          [] OTHER -> Handed(v, [op |-> line.kind, who |-> line.who], eager)

Show(v) == cur' = v.cur /\ updates' = v.updates /\ ref' = v.ref

-----------------------------------------------------------------------------
\* The effect: the scan, the stream and the listener.
Mount ==
    /\ SendStart(radar)
    /\ scan' = "sent"
    /\ UNCHANGED <<scanned, inbox, queue, cur, shown, updates, ref, cut>>

\* The page goes: the listener first, then its count.
Unmount ==
    /\ SendStop(radar)
    /\ inbox' = <<>>
    /\ UNCHANGED <<scan, scanned, queue, cur, shown, updates, ref, cut>>

ScanReads ==
    /\ scan = "sent"
    /\ scan' = "read" /\ scanned' = Len(log)
    /\ UNCHANGED <<hostVars, inbox, queue, cur, shown, updates, ref, cut>>

\* Mutant: the queue is dropped.
ScanAnswersAlone ==
    /\ scan = "read" /\ Mounted
    /\ scan' = "done"
    /\ queue' = <<>>
    /\ Show([Replaced(View, RoomOf(InRoom(scanned)))
                EXCEPT !.cur = IF LastWorld(scanned) = None THEN cur ELSE LastWorld(scanned)])
    /\ UNCHANGED <<hostVars, scanned, inbox, shown, cut>>

\* The scan answers: the room as the logs have it, then the queue.
ScanAnswers ==
    /\ scan = "read" /\ Mounted
    /\ scan' = "done"
    /\ queue' = <<>>
    /\ LET first == [Replaced(View, RoomOf(InRoom(scanned)))
                        EXCEPT !.cur = IF LastWorld(scanned) = None THEN cur ELSE LastWorld(scanned)]
       IN  Show(FoldLeft(LAMBDA v, e : Processed(v, e, FALSE), first, queue))
    /\ UNCHANGED <<hostVars, scanned, inbox, shown, cut>>

\* A failed scan ends the hydration, and the queue stays where it is.
ScanFails ==
    /\ scan \in {"sent", "read"} /\ Mounted
    /\ scan' = "failed"
    /\ UNCHANGED <<hostVars, scanned, inbox, queue, cur, shown, updates, ref, cut>>

\* The page hears an event.
Hear ==
    /\ Mounted /\ inbox # <<>>
    /\ inbox' = Tail(inbox)
    /\ IF scan \in {"sent", "read"}
       THEN queue' = Append(queue, Head(inbox)) /\ UNCHANGED <<cur, updates, ref>>
       ELSE /\ \E eager \in BOOLEAN : Show(Processed(View, Head(inbox), eager))
            /\ UNCHANGED queue
    /\ UNCHANGED <<hostVars, scan, scanned, shown, cut>>

\* React renders: the functions run in order, and leave their result in the ref.
Render ==
    /\ updates # <<>>
    /\ updates' = <<>>
    /\ LET Step(v, u) == [room |-> Ran(v.room, u),
                          ref |-> IF u.op = "set" THEN v.ref ELSE Ran(v.room, u)]
           end == FoldLeft(Step, [room |-> shown, ref |-> ref], updates)
       IN  shown' = end.room /\ ref' = end.ref
    /\ UNCHANGED <<hostVars, scan, scanned, inbox, queue, cur, cut>>

-----------------------------------------------------------------------------
Host ==
    \/ \E line \in Lines : Write(line)
    \/ \E p \in Pages \ {radar} : SendStart(p) \/ SendStop(p)
    \/ \E p \in Pages : Start(p) \/ Begin(p) \/ Stop(p)
    \/ Attach

Next ==
    \/ Host /\ UNCHANGED pageVars
    \/ /\ \E p \in Pages : TearDown(p)
       /\ cut' = (cut \/ Mounted)
       /\ UNCHANGED <<scan, scanned, inbox, queue, cur, shown, updates, ref>>
    \/ /\ Emit
       /\ inbox' = IF Mounted THEN Append(inbox, Event) ELSE inbox
       /\ UNCHANGED <<scan, scanned, queue, cur, shown, updates, ref, cut>>
    \/ Mount \/ Unmount \/ ScanReads \/ ScanAnswers \/ ScanFails \/ Hear \/ Render

Spec == Init /\ [][Next]_vars

-----------------------------------------------------------------------------
(* Properties *)

\* Everything there is to read, hear and render has been.
Settled ==
    /\ Mounted /\ tailer = "attached" /\ pos = Len(log)
    /\ scan \in {"done", "failed"} /\ inbox = <<>> /\ updates = <<>>

\* One tailer served the page, and no line fell between the parses and its
\* attach: one that changed the room behind the scan, or one that changed the
\* instance behind the first start.
NothingBetween ==
    /\ ~cut
    /\ \A i \in (scanned + 1)..from : log[i].kind = "avatar"
    /\ \A i \in (parsed + 1)..from : log[i].kind # "world"

\* Once the log is quiet the radar shows the room VRChat is in and who is in it,
\* whatever the scan and the stream told it twice, late or in another order: if
\* nothing fell between the scan and the attach, and in any case from the next
\* instance on, also after a scan that failed.
RadarIsTrue ==
    Settled /\ (cur > from \/ (scan = "done" /\ NothingBetween)) =>
        /\ cur = LastWorld(Len(log))
        /\ {p \in Players : shown[p] = "in"} = InRoom(Len(log))

\* "live panels hydrate from scan": the same without the condition, which does
\* not hold.
RadarAlwaysTrue ==
    Settled => {p \in Players : shown[p] = "in"} = InRoom(Len(log))

\* A player on the radar has a name.
NoGhost == \A p \in Players : shown[p] # "ghost"

\* The database has the event of every line that the tailer is past, which does
\* not hold for the lines between the parse and the attach.
EverythingRecorded == tailer = "attached" => 1..pos \subseteq recorded
=============================================================================
