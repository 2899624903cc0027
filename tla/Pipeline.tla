------------------------------ MODULE Pipeline ------------------------------
(***************************************************************************)
(* The client of VRChat's push socket: Start, Stop and the worker thread   *)
(* of src/src/core/Pipeline.cpp, the two handlers that call them on the    *)
(* IPC pool (src/src/host/bridges/PipelineBridge.cpp), and the effect of   *)
(* the page that makes the socket follow the session                       *)
(* (src/web/src/lib/auth-context.tsx).                                     *)
(*                                                                         *)
(* Callers and workers interleave between any two accesses to what they    *)
(* share: m_pipeline, m_running, m_worker, m_wakeFlag and m_activeSocket.  *)
(***************************************************************************)
EXTENDS Naturals, Sequences, FiniteSets

CONSTANTS
  Callers,     \* threads of the IPC pool
  Workers,     \* bound: worker threads ever started
  Sockets,     \* bound: connections ever opened, one WebSocket handle each
  None,        \* no thread, no socket
  MaxToggles,  \* bound: times the page sees the session come or go
  MaxEvents    \* bound: pipeline.state events on their way to the page

ASSUME PipelineAssumption ==
  /\ None \notin Workers \cup Sockets
  /\ MaxToggles \in Nat /\ MaxEvents \in Nat \ {0}

VARIABLES
  running,     \* m_running
  thread,      \* m_worker: the thread object is joinable while not None
  wakeFlag,    \* m_wakeFlag
  socket,      \* m_activeSocket
  handle,      \* each handle: "unused", "open", "closed", or "closed twice"
  caller,      \* where each pool thread is, and the socket Stop took
  worker,      \* where each worker thread is
  resume,      \* where it goes on after its wait
  mine,        \* ownedSocket of each worker
  process,     \* "runs", or how it ended: "terminated", "undefined"
  created,     \* m_pipeline is not null
  met,         \* history: two workers have been alive at once
  calls,       \* pipeline.start and pipeline.stop, queued in the pool
  events,      \* pipeline.state events on their way to the page
  authed,      \* status.authed of the page
  shown,       \* pipelineRef: what the page believes
  toggles

shared     == <<running, thread, wakeFlag, socket, handle>>
workerVars == <<worker, resume, mine>>
whole      == <<process, created, met>>
pageVars   == <<calls, authed, shown, toggles>>
vars == <<shared, caller, workerVars, whole, events, pageVars>>

CallerPlaces == {"idle", "make", "start", "spawn", "assign",
                 "stop", "wake", "grab", "close", "join", "gone"}
Places == {"none", "top", "token", "upgrade", "store", "check", "receive",
           "reclaim", "after", "wait", "asleep", "gone"}
Alive  == {w \in Workers : worker[w] \notin {"none", "gone"}}
Idle   == [at |-> "idle", took |-> None, made |-> None]
Gone   == [at |-> "gone", took |-> None, made |-> None]

\* The workers a Start has created and not yet stored in m_worker.
Fresh == {caller[c].made : c \in Callers} \ {None}

Init ==
  /\ running = FALSE /\ thread = None /\ wakeFlag = FALSE /\ socket = None
  /\ handle = [s \in Sockets |-> "unused"]
  /\ caller = [c \in Callers |-> Idle]
  /\ worker = [w \in Workers |-> "none"]
  /\ resume = [w \in Workers |-> "top"]
  /\ mine = [w \in Workers |-> None]
  /\ process = "runs" /\ created = FALSE /\ met = FALSE
  /\ calls = <<>> /\ events = <<>>
  /\ authed = FALSE /\ shown = "stopped" /\ toggles = 0

\* WinHttpCloseHandle.
Closed(s) == IF s = None THEN handle
             ELSE [handle EXCEPT ![s] = IF @ = "open" THEN "closed"
                                        ELSE "closed twice"]

\* m_onState posts an event; the page tells "stopped" from anything else.
SetState(state) == /\ Len(events) < MaxEvents
                   /\ events' = Append(events, state)

-----------------------------------------------------------------------------
(* The page                                                                *)

SignIn ==
  /\ process = "runs" /\ ~authed /\ toggles < MaxToggles
  /\ authed' = TRUE /\ toggles' = toggles + 1
  /\ calls' = Append(calls, "start")
  /\ UNCHANGED <<shared, caller, workerVars, whole, events, shown>>

\* pipelineStop is called only if the page has heard of a connection.
SignOut ==
  /\ process = "runs" /\ authed /\ toggles < MaxToggles
  /\ authed' = FALSE /\ toggles' = toggles + 1
  /\ shown' = "stopped"
  /\ calls' = IF shown = "stopped" THEN calls ELSE Append(calls, "stop")
  /\ UNCHANGED <<shared, caller, workerVars, whole, events>>

HearState ==
  /\ process = "runs" /\ events # <<>>
  /\ shown' = Head(events) /\ events' = Tail(events)
  /\ UNCHANGED <<shared, caller, workerVars, whole, calls, authed, toggles>>

-----------------------------------------------------------------------------
(* Start and Stop, on a thread of the pool                                 *)

CallerGoes(c, place) == caller' = [caller EXCEPT ![c].at = place]

\* The process ends, and every thread with it.
Ends(how) ==
  /\ process' = how
  /\ worker' = [w \in Workers |-> "gone"]
  /\ caller' = [d \in Callers |-> Gone]
  /\ handle' = [s \in Sockets |-> "closed"]
  /\ UNCHANGED <<running, thread, wakeFlag, socket, resume, mine, created, met,
                 events, pageVars>>

\* Of two starts at once both may find m_pipeline null.  A stop that finds it
\* null returns, as Stop does on a pipeline that does not run.
Take(c) ==
  /\ caller[c].at = "idle" /\ calls # <<>>
  /\ calls' = Tail(calls)
  /\ CallerGoes(c, IF Head(calls) = "start" /\ ~created THEN "make" ELSE Head(calls))
  /\ UNCHANGED <<shared, workerVars, whole, events, authed, shown, toggles>>

\* m_pipeline = make_unique(...), which nothing synchronises: a second one
\* destroys the first.  If that one was never used the new one takes its place;
\* otherwise a call, or a worker, goes on inside an object that is gone.
Make(c) ==
  /\ caller[c].at = "make" /\ ~created
  /\ created' = TRUE
  /\ CallerGoes(c, "start")
  /\ UNCHANGED <<shared, workerVars, process, met, events, pageVars>>

Replace(c) ==
  /\ caller[c].at = "make" /\ created
  /\ ~running /\ thread = None
  /\ \A d \in Callers : caller[d].at \in {"idle", "make", "start"}
  /\ wakeFlag' = FALSE
  /\ CallerGoes(c, "start")
  /\ UNCHANGED <<running, thread, socket, handle, workerVars, whole, events, pageVars>>

ReplaceUsed(c) ==
  /\ caller[c].at = "make" /\ created
  /\ Ends("undefined")

\* HandlePipelineStart and Start: m_running.exchange(true), as long as the bound
\* on the workers leaves one for this Start.
Start(c) ==
  /\ caller[c].at = "start"
  /\ \/ running
     \/ Cardinality({w \in Workers : worker[w] = "none"})
          > Cardinality({d \in Callers : caller[d].at = "spawn"})
  /\ running' = TRUE
  /\ CallerGoes(c, IF running THEN "idle" ELSE "spawn")
  /\ UNCHANGED <<thread, wakeFlag, socket, handle, workerVars, whole,
                 events, pageVars>>

\* m_worker = std::thread(...): first the new thread is created, and runs,
Spawn(c) ==
  /\ caller[c].at = "spawn"
  /\ \E w \in Workers :
       /\ worker[w] = "none"
       /\ worker' = [worker EXCEPT ![w] = "top"]
       /\ caller' = [caller EXCEPT ![c].at = "assign", ![c].made = w]
  /\ met' = (met \/ Alive # {})
  /\ UNCHANGED <<shared, resume, mine, process, created, events, pageVars>>

\* and then it is moved into m_worker, if that is not joinable;
Assign(c) ==
  /\ caller[c].at = "assign" /\ thread = None
  /\ thread' = caller[c].made
  /\ caller' = [caller EXCEPT ![c] = Idle]
  /\ UNCHANGED <<running, wakeFlag, socket, handle, workerVars, whole,
                 events, pageVars>>

\* over a joinable thread the assignment calls std::terminate.
Terminate(c) ==
  /\ caller[c].at = "assign" /\ thread # None
  /\ Ends("terminated")

\* Stop: m_running.exchange(false).
Stop(c) ==
  /\ caller[c].at = "stop"
  /\ running' = FALSE
  /\ CallerGoes(c, IF running THEN "wake" ELSE "idle")
  /\ UNCHANGED <<thread, wakeFlag, socket, handle, workerVars, whole,
                 events, pageVars>>

\* m_wakeFlag is set under m_wakeMutex, then notify_all.
Wake(c) ==
  /\ caller[c].at = "wake"
  /\ wakeFlag' = TRUE
  /\ worker' = [w \in Workers |-> IF worker[w] = "asleep" THEN "wait" ELSE worker[w]]
  /\ CallerGoes(c, "grab")
  /\ UNCHANGED <<running, thread, socket, handle, resume, mine, whole,
                 events, pageVars>>

\* Mutant of Grab: the socket stays in m_activeSocket.
GrabKeeps(c) ==
  /\ caller[c].at = "grab"
  /\ caller' = [caller EXCEPT ![c].at = "close", ![c].took = socket]
  /\ UNCHANGED <<shared, workerVars, whole, events, pageVars>>

\* m_activeSocket is taken out under its mutex.
Grab(c) ==
  /\ caller[c].at = "grab"
  /\ socket' = None
  /\ caller' = [caller EXCEPT ![c].at = "close", ![c].took = socket]
  /\ UNCHANGED <<running, thread, wakeFlag, handle, workerVars, whole,
                 events, pageVars>>

CloseTaken(c) ==
  /\ caller[c].at = "close"
  /\ handle' = Closed(caller[c].took)
  /\ caller' = [caller EXCEPT ![c].at = "join", ![c].took = None]
  /\ UNCHANGED <<running, thread, wakeFlag, socket, workerVars, whole,
                 events, pageVars>>

\* Mutants of Join: no join at all, and detach in its place.
JoinMissing(c) ==
  /\ caller[c].at = "join" /\ SetState("stopped") /\ CallerGoes(c, "idle")
  /\ UNCHANGED <<shared, workerVars, whole, pageVars>>
JoinDetaches(c) ==
  /\ caller[c].at = "join" /\ thread' = None
  /\ SetState("stopped") /\ CallerGoes(c, "idle")
  /\ UNCHANGED <<running, wakeFlag, socket, handle, workerVars, whole, pageVars>>

\* join waits for the thread that m_worker holds; with none it returns at once,
\* a Start that has not assigned yet or no.
Join(c) ==
  /\ caller[c].at = "join"
  /\ thread # None => worker[thread] = "gone"
  /\ thread' = None
  /\ SetState("stopped")
  /\ CallerGoes(c, "idle")
  /\ UNCHANGED <<running, wakeFlag, socket, handle, workerVars, whole, pageVars>>

CallerStep(c) == Take(c) \/ Make(c) \/ Replace(c) \/ ReplaceUsed(c) \/ Start(c)
                 \/ Spawn(c) \/ Assign(c) \/ Terminate(c) \/ Stop(c) \/ Wake(c)
                 \/ Grab(c) \/ CloseTaken(c) \/ Join(c)

-----------------------------------------------------------------------------
(* WorkerLoop and RunOneConnection, on the worker's own thread             *)

WorkerFrame == UNCHANGED <<running, thread, caller, whole, pageVars>>
WorkerGoes(w, place) == worker' = [worker EXCEPT ![w] = place]

\* SetState and then a wait, after which the worker goes on at "place".
Pause(w, place) ==
  /\ SetState("active")
  /\ WorkerGoes(w, "wait")
  /\ resume' = [resume EXCEPT ![w] = place]
  /\ UNCHANGED mine

\* Without a session the worker waits 30 s and looks again.
LoopTop(w) ==
  /\ worker[w] = "top"
  /\ \/ ~running /\ WorkerGoes(w, "gone") /\ UNCHANGED <<resume, mine, events>>
     \/ running /\ WorkerGoes(w, "token") /\ UNCHANGED <<resume, mine, events>>
     \/ running /\ Pause(w, "top")
  /\ UNCHANGED <<wakeFlag, socket, handle>> /\ WorkerFrame

FetchToken(w) ==
  /\ worker[w] = "token"
  /\ \/ Pause(w, "top")
     \/ SetState("active") /\ WorkerGoes(w, "upgrade") /\ UNCHANGED <<resume, mine>>
  /\ UNCHANGED <<wakeFlag, socket, handle>> /\ WorkerFrame

\* Mutant of Upgrade: a rejection does not return.
UpgradeFallsThrough(w) ==
  /\ worker[w] = "upgrade"
  /\ \/ WorkerGoes(w, "after") /\ UNCHANGED <<resume, mine, events, handle>>
     \/ Pause(w, "store") /\ UNCHANGED handle
     \/ \E s \in Sockets :
          /\ handle[s] = "unused"
          /\ handle' = [handle EXCEPT ![s] = "open"]
          /\ mine' = [mine EXCEPT ![w] = s]
          /\ WorkerGoes(w, "store") /\ UNCHANGED <<resume, events>>
  /\ UNCHANGED <<wakeFlag, socket>> /\ WorkerFrame

\* The upgrade fails, is rejected (and the worker waits 60 s) or succeeds.
Upgrade(w) ==
  /\ worker[w] = "upgrade"
  /\ \/ WorkerGoes(w, "after") /\ UNCHANGED <<resume, mine, events, handle>>
     \/ Pause(w, "after") /\ UNCHANGED handle
     \/ \E s \in Sockets :
          /\ handle[s] = "unused"
          /\ handle' = [handle EXCEPT ![s] = "open"]
          /\ mine' = [mine EXCEPT ![w] = s]
          /\ WorkerGoes(w, "store") /\ UNCHANGED <<resume, events>>
  /\ UNCHANGED <<wakeFlag, socket>> /\ WorkerFrame

\* Mutant of StoreSocket: the loop receives before it reads m_running.
StoreUnchecked(w) ==
  /\ worker[w] = "store"
  /\ socket' = mine[w]
  /\ SetState("active")
  /\ WorkerGoes(w, "receive")
  /\ UNCHANGED <<wakeFlag, handle, resume, mine>> /\ WorkerFrame

\* m_activeSocket is published, and only then m_running is read again.
StoreSocket(w) ==
  /\ worker[w] = "store"
  /\ socket' = mine[w]
  /\ SetState("active")
  /\ WorkerGoes(w, "check")
  /\ UNCHANGED <<wakeFlag, handle, resume, mine>> /\ WorkerFrame

CheckRunning(w) ==
  /\ worker[w] = "check"
  /\ WorkerGoes(w, IF running THEN "receive" ELSE "reclaim")
  /\ UNCHANGED <<wakeFlag, socket, handle, resume, mine, events>> /\ WorkerFrame

\* WinHttpWebSocketReceive has no timeout: a frame, the server's close, or
\* an error once somebody has closed the handle.
ReceiveFrame(w) ==
  /\ worker[w] = "receive" /\ handle[mine[w]] = "open"
  /\ \E place \in {"check", "reclaim"} : WorkerGoes(w, place)
  /\ UNCHANGED <<wakeFlag, socket, handle, resume, mine, events>> /\ WorkerFrame

ReceiveFails(w) ==
  /\ worker[w] = "receive" /\ handle[mine[w]] # "open"
  /\ WorkerGoes(w, "reclaim")
  /\ UNCHANGED <<wakeFlag, socket, handle, resume, mine, events>> /\ WorkerFrame

\* ScopedSocketReclaim: whoever finds the slot full closes the handle.
Reclaim(w) ==
  /\ worker[w] = "reclaim"
  /\ socket' = None /\ handle' = Closed(socket)
  /\ mine' = [mine EXCEPT ![w] = None]
  /\ WorkerGoes(w, "after")
  /\ UNCHANGED <<wakeFlag, resume, events>> /\ WorkerFrame

AfterConnection(w) ==
  /\ worker[w] = "after"
  /\ \/ ~running /\ WorkerGoes(w, "gone") /\ UNCHANGED <<resume, mine, events>>
     \/ running /\ Pause(w, "top")
  /\ UNCHANGED <<wakeFlag, socket, handle>> /\ WorkerFrame

Resumes(w) == /\ wakeFlag' = FALSE
              /\ WorkerGoes(w, resume[w])

\* wait_for with a predicate, evaluated under m_wakeMutex.
WaitChecks(w) ==
  /\ worker[w] = "wait"
  /\ \/ (wakeFlag \/ ~running) /\ Resumes(w)
     \/ ~wakeFlag /\ running /\ WorkerGoes(w, "asleep") /\ UNCHANGED wakeFlag
  /\ UNCHANGED <<socket, handle, resume, mine, events>> /\ WorkerFrame

WaitTimesOut(w) ==
  /\ worker[w] = "asleep" /\ Resumes(w)
  /\ UNCHANGED <<socket, handle, resume, mine, events>> /\ WorkerFrame

WorkerStep(w) ==
  \/ LoopTop(w) \/ FetchToken(w) \/ Upgrade(w) \/ StoreSocket(w) \/ CheckRunning(w)
  \/ ReceiveFails(w) \/ Reclaim(w) \/ AfterConnection(w) \/ WaitChecks(w)

-----------------------------------------------------------------------------
Next ==
  \/ SignIn \/ SignOut \/ HearState
  \/ \E c \in Callers : CallerStep(c)
  \/ \E w \in Workers : WorkerStep(w) \/ ReceiveFrame(w) \/ WaitTimesOut(w)

Spec == Init /\ [][Next]_vars

(***************************************************************************)
(* Threads run and connection attempts end, in 20 s at most each.  Neither *)
(* the end of a wait nor a frame from the server is counted on.            *)
(***************************************************************************)
Fairness ==
  /\ WF_vars(HearState)
  /\ \A c \in Callers : WF_vars(CallerStep(c))
  /\ \A w \in Workers : WF_vars(WorkerStep(w))

FairSpec == Spec /\ Fairness

-----------------------------------------------------------------------------
\* Every variable keeps its type: the steps of Stop and of the worker, and who
\* holds which socket (Pipeline.h).
TypeOK ==
  /\ running \in BOOLEAN /\ wakeFlag \in BOOLEAN
  /\ process \in {"runs", "terminated", "undefined"}
  /\ created \in BOOLEAN /\ met \in BOOLEAN
  /\ thread \in Workers \cup {None} /\ socket \in Sockets \cup {None}
  /\ handle \in [Sockets -> {"unused", "open", "closed", "closed twice"}]
  /\ caller \in [Callers -> [at : CallerPlaces, took : Sockets \cup {None},
                             made : Workers \cup {None}]]
  /\ worker \in [Workers -> Places]
  /\ resume \in [Workers -> {"top", "after"}]
  /\ mine \in [Workers -> Sockets \cup {None}]
  /\ calls \in Seq({"start", "stop"})
  /\ events \in Seq({"active", "stopped"}) /\ Len(events) <= MaxEvents
  /\ authed \in BOOLEAN /\ shown \in {"active", "stopped"}
  /\ toggles \in 0..MaxToggles

(***************************************************************************)
(* Stops and workers close the socket through the same slot: whoever they  *)
(* are and however many, no handle is closed twice.  As long as no two     *)
(* workers have met, none is left open by a connection that is over        *)
(* (Pipeline.cpp:334-338).                                                 *)
(***************************************************************************)
Connecting == {mine[w] : w \in Workers}
Taken      == {caller[c].took : c \in Callers}
ClosedOnce ==
  \A s \in Sockets :
    /\ handle[s] # "closed twice"
    /\ handle[s] = "open" /\ ~met => s \in Connecting \cup Taken

(***************************************************************************)
(* "Safe to call multiple times; subsequent calls are no-ops while the     *)
(* worker is alive" (Pipeline.h): Start never overwrites a joinable        *)
(* thread, which ends the process.                                         *)
(***************************************************************************)
NeverTerminates == process # "terminated"

(***************************************************************************)
(* At most one worker lives besides those a Start has just created: before *)
(* a Start keeps a second one, the one before it has ended or the process  *)
(* has (Pipeline.cpp:106-118).                                             *)
(***************************************************************************)
OneWorker == Cardinality(Alive \ Fresh) <= 1

(***************************************************************************)
(* No worker lives once Stop has reported, but for one that a Start has    *)
(* created meanwhile and not stored yet, where no Stop can see it: "Holds  *)
(* the caller until the thread is gone" (Pipeline.h).                      *)
(***************************************************************************)
StopJoins ==
  [][\A c \in Callers :
       caller[c].at = "join" /\ caller'[c].at = "idle" => Alive \subseteq Fresh]_vars

(***************************************************************************)
(* A wait is cut short only by the Stop that runs (Pipeline.cpp:313-317:   *)
(* after a rejection "don't thrash", wait 60 s).                           *)
(***************************************************************************)
WaitsRespected ==
  [][\A w \in Workers :
       worker[w] = "wait" /\ worker'[w] = resume[w] => ~running]_vars

(***************************************************************************)
(* "Pipeline WebSocket lifecycle - follows auth.  Starts when the session  *)
(* is live, stops on logout" (auth-context.tsx:284-286), whenever no call  *)
(* and no event is under way.                                              *)
(***************************************************************************)
Quiescent == calls = <<>> /\ events = <<>> /\ \A c \in Callers : caller[c].at = "idle"
FollowsAuth == Quiescent => running = authed

(***************************************************************************)
(* Stop returns, or the process has ended: the worker may be anywhere      *)
(* between a blocking receive and an untimed step before its wait, and a   *)
(* Start on another thread may set m_running again before it looks.  The   *)
(* socket is published before m_running is read, and the flag set before   *)
(* the wait is notified.                                                   *)
(***************************************************************************)
StopReturns ==
  \A c \in Callers :
    caller[c].at = "wake" ~> (caller[c].at = "idle" \/ process # "runs")
=============================================================================
