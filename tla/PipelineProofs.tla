--------------------------- MODULE PipelineProofs ---------------------------
(***************************************************************************)
(* Proofs about Pipeline, for any number of pool threads, workers and      *)
(* connections: every variable keeps its type, at most one worker lives    *)
(* besides those a Start has just created, Stop outlives what it joins,    *)
(* and each WebSocket handle is closed once.                               *)
(***************************************************************************)
EXTENDS Pipeline, FiniteSetTheorems, SequenceTheorems, TLAPS

CallerStates == [at : CallerPlaces, took : Sockets \cup {None},
                 made : Workers \cup {None}]
HandleStates == {"unused", "open", "closed", "closed twice"}
-----------------------------------------------------------------------------
(* Types                                                                   *)

LEMMA GoesTyped ==
  ASSUME TypeOK, NEW c \in Callers, NEW place \in CallerPlaces, CallerGoes(c, place)
  PROVE  caller' \in [Callers -> CallerStates]
  BY DEF TypeOK, CallerGoes, CallerStates

LEMMA TookTyped ==
  ASSUME TypeOK, NEW c \in Callers, NEW place \in CallerPlaces,
         NEW s \in Sockets \cup {None},
         caller' = [caller EXCEPT ![c].at = place, ![c].took = s]
  PROVE  caller' \in [Callers -> CallerStates]
  BY DEF TypeOK, CallerStates

LEMMA MadeTyped ==
  ASSUME TypeOK, NEW c \in Callers, NEW place \in CallerPlaces, NEW w \in Workers,
         caller' = [caller EXCEPT ![c].at = place, ![c].made = w]
  PROVE  caller' \in [Callers -> CallerStates]
  BY DEF TypeOK, CallerStates

LEMMA ClosedTyped ==
  ASSUME TypeOK, NEW s \in Sockets \cup {None}
  PROVE  Closed(s) \in [Sockets -> HandleStates]
<1>1. CASE s = None
  BY <1>1 DEF TypeOK, Closed, HandleStates
<1>2. CASE s # None
  <2>1. Closed(s) = [handle EXCEPT ![s] = IF @ = "open" THEN "closed" ELSE "closed twice"]
    BY <1>2 DEF Closed
  <2> QED
    BY <2>1 DEF TypeOK, HandleStates
<1> QED
  BY <1>1, <1>2

LEMMA StateTyped ==
  ASSUME TypeOK, NEW state \in {"active", "stopped"}, SetState(state)
  PROVE  events' \in Seq({"active", "stopped"}) /\ Len(events') <= MaxEvents
<1>1. events \in Seq({"active", "stopped"}) /\ events' = Append(events, state)
  BY DEF TypeOK, SetState
<1>2. Len(events) < MaxEvents /\ Len(events) \in Nat /\ MaxEvents \in Nat
  BY <1>1, LenProperties, PipelineAssumption DEF SetState
<1>3. events' \in Seq({"active", "stopped"}) /\ Len(events') = Len(events) + 1
  BY <1>1, AppendProperties
<1> QED
  BY <1>2, <1>3

LEMMA PauseTyped ==
  ASSUME TypeOK, NEW w \in Workers, NEW place \in {"top", "after"}, Pause(w, place)
  PROVE  /\ worker' \in [Workers -> Places]
         /\ resume' \in [Workers -> {"top", "after"}]
         /\ mine' = mine
         /\ events' \in Seq({"active", "stopped"}) /\ Len(events') <= MaxEvents
  BY StateTyped DEF TypeOK, Pause, WorkerGoes, Places

LEMMA PageTypes == TypeOK /\ (SignIn \/ SignOut \/ HearState) => TypeOK'
<1> SUFFICES ASSUME TypeOK, SignIn \/ SignOut \/ HearState PROVE TypeOK'
  OBVIOUS
<1>1. CASE SignIn
  <2>1. calls' \in Seq({"start", "stop"})
    BY <1>1, AppendProperties DEF TypeOK, SignIn
  <2>2. toggles' \in 0..MaxToggles
    <3>1. toggles \in 0..MaxToggles /\ toggles < MaxToggles /\ toggles' = toggles + 1
      BY <1>1 DEF TypeOK, SignIn
    <3> QED
      BY <3>1, PipelineAssumption
  <2> QED
    BY <1>1, <2>1, <2>2 DEF TypeOK, SignIn, shared, workerVars, whole
<1>2. CASE SignOut
  <2>1. calls' \in Seq({"start", "stop"})
    BY <1>2, AppendProperties DEF TypeOK, SignOut
  <2>2. toggles' \in 0..MaxToggles
    <3>1. toggles \in 0..MaxToggles /\ toggles < MaxToggles /\ toggles' = toggles + 1
      BY <1>2 DEF TypeOK, SignOut
    <3> QED
      BY <3>1, PipelineAssumption
  <2> QED
    BY <1>2, <2>1, <2>2 DEF TypeOK, SignOut, shared, workerVars, whole
<1>3. CASE HearState
  <2>1. /\ events' \in Seq({"active", "stopped"}) /\ Len(events') = Len(events) - 1
        /\ shown' \in {"active", "stopped"}
    <3>1. events \in Seq({"active", "stopped"}) /\ events # <<>>
      BY <1>3 DEF TypeOK, HearState
    <3> QED
      BY <1>3, <3>1, HeadTailProperties DEF HearState
  <2>2. Len(events) \in Nat /\ Len(events) <= MaxEvents /\ MaxEvents \in Nat
    BY LenProperties, PipelineAssumption DEF TypeOK
  <2>3. Len(events') <= MaxEvents
    BY <2>1, <2>2
  <2> QED
    BY <1>3, <2>1, <2>3 DEF TypeOK, HearState, shared, workerVars, whole
<1> QED
  BY <1>1, <1>2, <1>3

LEMMA CallerTypes ==
  ASSUME TypeOK, NEW c \in Callers, CallerStep(c)
  PROVE  TypeOK'
<1>1. CASE Take(c)
  <2>1. Head(calls) \in {"start", "stop"} /\ calls' \in Seq({"start", "stop"})
    BY <1>1, HeadTailProperties DEF TypeOK, Take
  <2>2. caller' \in [Callers -> CallerStates]
    BY <1>1, <2>1, GoesTyped DEF Take, CallerPlaces
  <2> QED
    BY <1>1, <2>1, <2>2 DEF TypeOK, Take, shared, workerVars, whole, CallerStates
<1>2. CASE Start(c) \/ Stop(c) \/ Make(c) \/ Replace(c)
  <2>1. caller' \in [Callers -> CallerStates]
    BY <1>2, GoesTyped DEF Start, Stop, Make, Replace, CallerPlaces
  <2> QED
    BY <1>2, <2>1
    DEF TypeOK, Start, Stop, Make, Replace, shared, workerVars, whole, pageVars, CallerStates
<1>3. CASE Spawn(c)
  <2>1. PICK w \in Workers :
          /\ worker' = [worker EXCEPT ![w] = "top"]
          /\ caller' = [caller EXCEPT ![c].at = "assign", ![c].made = w]
    BY <1>3 DEF Spawn
  <2>2. caller' \in [Callers -> CallerStates]
    BY <2>1, MadeTyped DEF CallerPlaces
  <2>3. met' \in BOOLEAN
    BY <1>3 DEF Spawn, TypeOK
  <2> QED
    BY <1>3, <2>1, <2>2, <2>3 DEF TypeOK, Spawn, shared, pageVars, CallerStates, Places
<1>4. CASE Assign(c) \/ Terminate(c) \/ ReplaceUsed(c)
  <2>1. CASE Assign(c)
    <3>1. caller' \in [Callers -> CallerStates] /\ caller[c].made \in Workers \cup {None}
      BY <2>1 DEF TypeOK, Assign, Idle, CallerPlaces, CallerStates
    <3> QED
      BY <2>1, <3>1 DEF TypeOK, Assign, workerVars, whole, pageVars, CallerStates
  <2>2. ASSUME NEW how \in {"terminated", "undefined"}, Ends(how) PROVE TypeOK'
    <3>1. caller' \in [Callers -> CallerStates]
      BY <2>2 DEF Ends, Gone, CallerPlaces, CallerStates
    <3> QED
      BY <2>2, <3>1 DEF TypeOK, Ends, pageVars, Places, CallerStates
  <2> QED
    BY <1>4, <2>1, <2>2 DEF Terminate, ReplaceUsed
<1>5. CASE Wake(c)
  <2>1. caller' \in [Callers -> CallerStates]
    BY <1>5, GoesTyped DEF Wake, CallerPlaces
  <2> QED
    BY <1>5, <2>1 DEF TypeOK, Wake, whole, pageVars, CallerStates, Places
<1>6. CASE Grab(c)
  <2>1. caller' \in [Callers -> CallerStates]
    BY <1>6, TookTyped DEF TypeOK, Grab, CallerPlaces
  <2> QED
    BY <1>6, <2>1 DEF TypeOK, Grab, workerVars, whole, pageVars, CallerStates
<1>7. CASE CloseTaken(c)
  <2>1. caller' \in [Callers -> CallerStates]
    BY <1>7, TookTyped DEF CloseTaken, CallerPlaces
  <2>2. handle' \in [Sockets -> HandleStates]
    BY <1>7, ClosedTyped DEF TypeOK, CloseTaken
  <2> QED
    BY <1>7, <2>1, <2>2
    DEF TypeOK, CloseTaken, workerVars, whole, pageVars, CallerStates, HandleStates
<1>8. CASE Join(c)
  <2>1. caller' \in [Callers -> CallerStates]
    BY <1>8, GoesTyped DEF Join, CallerPlaces
  <2>2. events' \in Seq({"active", "stopped"}) /\ Len(events') <= MaxEvents
    BY <1>8, StateTyped DEF Join
  <2> QED
    BY <1>8, <2>1, <2>2 DEF TypeOK, Join, workerVars, whole, pageVars, CallerStates
<1> QED
  BY <1>1, <1>2, <1>3, <1>4, <1>5, <1>6, <1>7, <1>8 DEF CallerStep

LEMMA WorkerTypes ==
  ASSUME TypeOK, NEW w \in Workers, WorkerStep(w) \/ ReceiveFrame(w) \/ WaitTimesOut(w)
  PROVE  TypeOK'
<1>1. CASE LoopTop(w) \/ FetchToken(w) \/ AfterConnection(w)
  <2>1. /\ worker' \in [Workers -> Places]
        /\ resume' \in [Workers -> {"top", "after"}]
        /\ mine' = mine
        /\ events' \in Seq({"active", "stopped"}) /\ Len(events') <= MaxEvents
    <3>1. CASE Pause(w, "top")
      BY <3>1, PauseTyped
    <3>2. CASE ~Pause(w, "top") /\ FetchToken(w)
      BY <3>2, StateTyped DEF TypeOK, FetchToken, WorkerGoes, Places
    <3>3. CASE ~Pause(w, "top") /\ (LoopTop(w) \/ AfterConnection(w))
      BY <3>3 DEF TypeOK, LoopTop, AfterConnection, WorkerGoes, Places
    <3> QED
      BY <1>1, <3>1, <3>2, <3>3
  <2> QED
    BY <1>1, <2>1
    DEF TypeOK, LoopTop, FetchToken, AfterConnection, WorkerFrame, whole, pageVars
<1>2. CASE Upgrade(w)
  <2>1. CASE Pause(w, "after") /\ UNCHANGED <<handle, wakeFlag, socket>> /\ WorkerFrame
    BY <2>1, PauseTyped DEF TypeOK, WorkerFrame, whole, pageVars, WorkerGoes, Places
  <2>2. CASE /\ WorkerGoes(w, "after")
             /\ UNCHANGED <<resume, mine, events, handle, wakeFlag, socket>> /\ WorkerFrame
    BY <2>2 DEF TypeOK, WorkerFrame, whole, pageVars, WorkerGoes, Places
  <2>3. ASSUME NEW s \in Sockets,
               handle' = [handle EXCEPT ![s] = "open"], mine' = [mine EXCEPT ![w] = s],
               WorkerGoes(w, "store"), UNCHANGED <<resume, events, wakeFlag, socket>>,
               WorkerFrame
        PROVE  TypeOK'
    <3>1. worker' \in [Workers -> Places] /\ mine' \in [Workers -> Sockets \cup {None}]
      BY <2>3 DEF TypeOK, WorkerGoes, Places
    <3>2. handle' \in [Sockets -> HandleStates]
      BY <2>3 DEF TypeOK, HandleStates
    <3> QED
      BY <2>3, <3>1, <3>2 DEF TypeOK, WorkerFrame, whole, pageVars, HandleStates
  <2> QED
    BY <1>2, <2>1, <2>2, <2>3 DEF Upgrade
<1>3. CASE StoreSocket(w)
  <2>1. events' \in Seq({"active", "stopped"}) /\ Len(events') <= MaxEvents
    BY <1>3, StateTyped DEF StoreSocket
  <2> QED
    BY <1>3, <2>1 DEF TypeOK, StoreSocket, WorkerFrame, whole, pageVars, WorkerGoes, Places
<1>4. CASE CheckRunning(w) \/ ReceiveFrame(w) \/ ReceiveFails(w)
  BY <1>4
  DEF TypeOK, CheckRunning, ReceiveFrame, ReceiveFails, WorkerFrame, whole, pageVars,
      WorkerGoes, Places
<1>5. CASE Reclaim(w)
  <2>1. handle' \in [Sockets -> HandleStates]
    BY <1>5, ClosedTyped DEF TypeOK, Reclaim
  <2> QED
    BY <1>5, <2>1
    DEF TypeOK, Reclaim, WorkerFrame, whole, pageVars, WorkerGoes, Places, HandleStates
<1>6. CASE WaitChecks(w) \/ WaitTimesOut(w)
  BY <1>6
  DEF TypeOK, WaitChecks, WaitTimesOut, Resumes, WorkerFrame, whole, pageVars, WorkerGoes,
      Places
<1> QED
  BY <1>1, <1>2, <1>3, <1>4, <1>5, <1>6 DEF WorkerStep

LEMMA TypeInit == Init => TypeOK
<1> SUFFICES ASSUME Init PROVE TypeOK
  OBVIOUS
<1>1. /\ calls \in Seq({"start", "stop"})
      /\ events \in Seq({"active", "stopped"}) /\ Len(events) <= MaxEvents
  BY EmptySeq, PipelineAssumption DEF Init
<1>2. toggles \in 0..MaxToggles
  BY PipelineAssumption DEF Init
<1>3. caller \in [Callers -> CallerStates]
  BY DEF Init, Idle, CallerStates, CallerPlaces
<1>4. handle \in [Sockets -> HandleStates] /\ worker \in [Workers -> Places]
  BY DEF Init, HandleStates, Places
<1>5. resume \in [Workers -> {"top", "after"}] /\ mine \in [Workers -> Sockets \cup {None}]
  BY DEF Init
<1>6. /\ running \in BOOLEAN /\ wakeFlag \in BOOLEAN
      /\ process \in {"runs", "terminated", "undefined"}
      /\ created \in BOOLEAN /\ met \in BOOLEAN
      /\ authed \in BOOLEAN /\ shown \in {"active", "stopped"}
      /\ thread \in Workers \cup {None} /\ socket \in Sockets \cup {None}
  BY DEF Init
<1> QED
  BY <1>1, <1>2, <1>3, <1>4, <1>5, <1>6 DEF TypeOK, CallerStates, HandleStates

LEMMA TypeStep == TypeOK /\ [Next]_vars => TypeOK'
<1> SUFFICES ASSUME TypeOK, [Next]_vars PROVE TypeOK'
  OBVIOUS
<1>1. CASE UNCHANGED vars
  BY <1>1 DEF TypeOK, vars, shared, workerVars, whole, pageVars
<1>2. CASE \E c \in Callers : CallerStep(c)
  BY <1>2, CallerTypes
<1>3. CASE \E w \in Workers : WorkerStep(w) \/ ReceiveFrame(w) \/ WaitTimesOut(w)
  BY <1>3, WorkerTypes
<1>4. CASE SignIn \/ SignOut \/ HearState
  BY <1>4, PageTypes
<1> QED
  BY <1>1, <1>2, <1>3, <1>4 DEF Next

(***************************************************************************)
(* Every variable keeps its type, with any number of pool threads inside   *)
(* Start and Stop at once.                                                 *)
(***************************************************************************)
THEOREM PipelineTypes == Spec => []TypeOK
  BY TypeInit, TypeStep, PTL DEF Spec
-----------------------------------------------------------------------------
(* One worker: whoever lives is in the thread object, or was created by a   *)
(* Start that has not assigned it yet.                                      *)

AliveStored == \A w \in Workers :
  worker[w] \notin {"none", "gone"} =>
    thread = w \/ \E c \in Callers : caller[c].made = w

MadeAtAssign == \A c \in Callers : caller[c].made # None => caller[c].at = "assign"

Stored == AliveStored /\ MadeAtAssign

\* A step of a caller that creates no worker and assigns none keeps what Starts
\* have created, and leaves its place only for one where nothing is.
LEMMA MadeKept ==
  ASSUME TypeOK, MadeAtAssign, NEW c \in Callers, CallerStep(c),
         ~Spawn(c), ~Assign(c), ~Terminate(c), ~ReplaceUsed(c)
  PROVE  /\ \A d \in Callers : caller'[d].made = caller[d].made
         /\ MadeAtAssign'
<1>1. caller \in [Callers -> CallerStates]
  BY DEF TypeOK, CallerStates
<1>2. caller[c].at # "assign"
  BY DEF CallerStep, Take, Make, Replace, Start, Stop, Wake, Grab, CloseTaken, Join
<1>3. CASE \E place : CallerGoes(c, place)
  BY <1>1, <1>2, <1>3 DEF CallerGoes, CallerStates, MadeAtAssign
<1>4. CASE Grab(c) \/ CloseTaken(c)
  BY <1>1, <1>2, <1>4 DEF Grab, CloseTaken, CallerStates, MadeAtAssign
<1> QED
  BY <1>2, <1>3, <1>4 DEF CallerStep, Take, Make, Replace, Start, Stop, Wake, Join

\* Only a living worker moves, and alone.
LEMMA WorkerMoves ==
  ASSUME NEW w \in Workers, WorkerStep(w) \/ ReceiveFrame(w) \/ WaitTimesOut(w)
  PROVE  worker[w] \notin {"none", "gone"} /\ \E place : WorkerGoes(w, place)
<1>1. worker[w] \notin {"none", "gone"}
  BY DEF WorkerStep, LoopTop, FetchToken, Upgrade, StoreSocket, CheckRunning,
         ReceiveFrame, ReceiveFails, Reclaim, AfterConnection, WaitChecks, WaitTimesOut
<1>2. \E place : WorkerGoes(w, place)
  BY DEF WorkerStep, LoopTop, FetchToken, Upgrade, StoreSocket, CheckRunning,
         ReceiveFrame, ReceiveFails, Reclaim, AfterConnection, WaitChecks,
         WaitTimesOut, Pause, Resumes
<1> QED
  BY <1>1, <1>2

LEMMA StoredInit == Init => Stored
  BY DEF Init, Idle, Stored, AliveStored, MadeAtAssign

LEMMA StoredStep == TypeOK /\ Stored /\ [Next]_vars => Stored'
<1> SUFFICES ASSUME TypeOK, Stored, [Next]_vars PROVE Stored'
  OBVIOUS
<1>1. CASE UNCHANGED <<worker, thread, caller>>
  BY <1>1 DEF Stored, AliveStored, MadeAtAssign
<1>2. ASSUME NEW c \in Callers, CallerStep(c) PROVE Stored'
  <2>1. CASE Terminate(c) \/ ReplaceUsed(c)
    BY <2>1 DEF Terminate, ReplaceUsed, Ends, Gone, Stored, AliveStored, MadeAtAssign
  <2>2. CASE Spawn(c)
    <3>1. PICK w \in Workers :
            /\ worker[w] = "none" /\ worker' = [worker EXCEPT ![w] = "top"]
            /\ caller' = [caller EXCEPT ![c].at = "assign", ![c].made = w]
      BY <2>2 DEF Spawn
    <3>2. /\ caller'[c].made = w /\ caller'[c].at = "assign"
          /\ \A d \in Callers \ {c} : caller'[d] = caller[d]
          /\ \A v \in Workers \ {w} : worker'[v] = worker[v]
      BY <3>1 DEF TypeOK
    <3>3. thread' = thread /\ caller[c].made = None
      BY <2>2 DEF Spawn, shared, Stored, MadeAtAssign
    <3> QED
      BY <3>2, <3>3, PipelineAssumption DEF Stored, AliveStored, MadeAtAssign
  <2>3. CASE Assign(c)
    <3>1. /\ thread = None /\ thread' = caller[c].made /\ worker' = worker
          /\ caller'[c].made = None
          /\ \A d \in Callers \ {c} : caller'[d] = caller[d]
      BY <2>3 DEF Assign, Idle, workerVars, TypeOK
    <3> QED
      BY <3>1, PipelineAssumption DEF Stored, AliveStored, MadeAtAssign
  <2>4. CASE ~Spawn(c) /\ ~Assign(c) /\ ~Terminate(c) /\ ~ReplaceUsed(c)
    <3>1. MadeAtAssign' /\ \A d \in Callers : caller'[d].made = caller[d].made
      BY <1>2, <2>4, MadeKept DEF Stored
    <3>2. \A w \in Workers :
            worker'[w] \notin {"none", "gone"} => worker[w] \notin {"none", "gone"}
      BY <1>2, <2>4
      DEF CallerStep, Take, Make, Replace, Start, Stop, Wake, Grab, CloseTaken, Join,
          workerVars, TypeOK
    <3>3. thread' = thread \/ Join(c)
      BY <1>2, <2>4
      DEF CallerStep, Take, Make, Replace, Start, Stop, Wake, Grab, CloseTaken, shared
    <3>4. Join(c) => thread = None \/ worker[thread] = "gone"
      BY DEF Join
    <3> QED
      BY <3>1, <3>2, <3>3, <3>4, PipelineAssumption DEF Stored, AliveStored
  <2> QED
    BY <2>1, <2>2, <2>3, <2>4
<1>3. ASSUME NEW w \in Workers, WorkerStep(w) \/ ReceiveFrame(w) \/ WaitTimesOut(w)
      PROVE  Stored'
  <2>1. UNCHANGED <<thread, caller>>
    BY <1>3
    DEF WorkerStep, LoopTop, FetchToken, Upgrade, StoreSocket, CheckRunning,
        ReceiveFrame, ReceiveFails, Reclaim, AfterConnection, WaitChecks,
        WaitTimesOut, WorkerFrame
  <2>2. worker[w] \notin {"none", "gone"} /\ \E place : WorkerGoes(w, place)
    BY <1>3, WorkerMoves
  <2> QED
    BY <2>1, <2>2 DEF WorkerGoes, TypeOK, Stored, AliveStored, MadeAtAssign
<1> QED
  BY <1>1, <1>2, <1>3 DEF Next, SignIn, SignOut, HearState, shared, workerVars, vars

(***************************************************************************)
(* However many pool threads call Start and Stop, and whenever, at most    *)
(* one worker lives besides those a Start has created and not assigned: a  *)
(* second one is never kept while one lives, the process ends instead      *)
(* (Pipeline.cpp:106-155).                                                 *)
(***************************************************************************)
THEOREM OneWorkerAlways == Spec => []OneWorker
<1>1. ASSUME Stored PROVE OneWorker
  <2>1. Alive \ Fresh \subseteq {thread}
    BY <1>1, PipelineAssumption DEF Stored, AliveStored, Alive, Fresh
  <2>2. IsFiniteSet({thread}) /\ Cardinality({thread}) = 1
    BY FS_Singleton
  <2>3. Cardinality(Alive \ Fresh) <= 1
    BY <2>1, <2>2, FS_Subset
  <2> QED
    BY <2>3 DEF OneWorker
<1> QED
  BY <1>1, TypeInit, TypeStep, StoredInit, StoredStep, PTL DEF Spec

(***************************************************************************)
(* Whoever calls Stop, and whatever other calls interleave with it, no     *)
(* worker it could see lives when Stop reports that it is done: the only   *)
(* ones that may are those of a Start that has not assigned yet            *)
(* (Pipeline.cpp:106-155).                                                 *)
(***************************************************************************)
THEOREM StopJoinsAlways == Spec => StopJoins
<1>1. ASSUME TypeOK, Stored, [Next]_vars,
             NEW c \in Callers, caller[c].at = "join", caller'[c].at = "idle"
      PROVE  Alive \subseteq Fresh
  <2>1. PICK d \in Callers : CallerStep(d)
    BY <1>1
    DEF Next, SignIn, SignOut, HearState, WorkerStep, LoopTop, FetchToken, Upgrade,
        StoreSocket, CheckRunning, ReceiveFrame, ReceiveFails, Reclaim,
        AfterConnection, WaitChecks, WaitTimesOut, WorkerFrame, vars
  <2>2. Join(d)
    <3>1. caller[c].at # caller'[c].at /\ caller \in [Callers -> CallerStates]
      BY <1>1 DEF TypeOK, CallerStates
    <3>2. CASE Terminate(d) \/ ReplaceUsed(d)
      BY <1>1, <3>2 DEF Terminate, ReplaceUsed, Ends, Gone
    <3>3. CASE \/ Take(d) \/ Make(d) \/ Replace(d) \/ Start(d) \/ Stop(d) \/ Wake(d)
      <4>1. caller[d].at # "join" /\ \A e \in Callers \ {d} : caller'[e] = caller[e]
        BY <3>1, <3>3 DEF CallerGoes, Take, Make, Replace, Start, Stop, Wake
      <4> QED
        BY <1>1, <3>1, <4>1
    <3>4. CASE Spawn(d) \/ Assign(d) \/ Grab(d) \/ CloseTaken(d)
      <4>1. caller[d].at # "join" /\ \A e \in Callers \ {d} : caller'[e] = caller[e]
        BY <3>1, <3>4 DEF Spawn, Assign, Grab, CloseTaken
      <4> QED
        BY <1>1, <3>1, <4>1
    <3> QED
      BY <2>1, <3>2, <3>3, <3>4 DEF CallerStep
  <2>3. thread # None => worker[thread] = "gone"
    BY <2>2 DEF Join
  <2> QED
    BY <1>1, <2>3, PipelineAssumption DEF Stored, AliveStored, Alive, Fresh
<1>2. TypeOK /\ Stored /\ [Next]_vars
        => [\A c \in Callers :
              caller[c].at = "join" /\ caller'[c].at = "idle" => Alive \subseteq Fresh]_vars
  BY <1>1
<1> QED
  BY <1>2, TypeInit, TypeStep, StoredInit, StoredStep, PTL DEF Spec, StopJoins
-----------------------------------------------------------------------------
(* Each handle is closed once.  Each has one owner: the worker between the  *)
(* upgrade and the slot, then the slot, then the Stop that took it; whoever *)
(* empties the slot closes what was in it.  As long as one worker at most   *)
(* has lived at a time, its handle is in the slot, or a Stop took it, or it *)
(* is closed; a second one that connects would push it out of the slot.     *)

Published == {"check", "receive", "reclaim"}
Holding   == Published \cup {"store"}
Lives(w)  == worker[w] \notin {"none", "gone"}

Ended == process # "runs" => /\ \A w \in Workers : worker[w] = "gone"
                             /\ \A c \in Callers : caller[c] = Gone
                             /\ \A s \in Sockets : handle[s] = "closed"
MineHeld == \A w \in Workers :
              process = "runs" => (mine[w] # None <=> worker[w] \in Holding)
MineOnce == \A v, w \in Workers :
              mine[v] # None => /\ handle[mine[v]] # "unused"
                                /\ mine[v] = mine[w] => v = w
StoreFresh == \A w \in Workers :
                worker[w] = "store" => /\ handle[mine[w]] = "open"
                                       /\ mine[w] \notin Taken /\ mine[w] # socket
SlotOpen == socket # None /\ process = "runs" => handle[socket] = "open"
TakenOpen == \A c \in Callers :
               caller[c].took # None => /\ caller[c].at = "close"
                                        /\ handle[caller[c].took] = "open"
                                        /\ caller[c].took # socket
TakenOnce == \A c, d \in Callers :
               caller[c].took = caller[d].took /\ caller[c].took # None => c = d
NeverTwice == \A s \in Sockets : handle[s] # "closed twice"

Owned == /\ Ended /\ MineHeld /\ MineOnce /\ StoreFresh /\ SlotOpen
         /\ TakenOpen /\ TakenOnce /\ NeverTwice

Solo == ~met => \A v, w \in Workers : Lives(v) /\ Lives(w) => v = w
SlotOrTaken == ~met => \A w \in Workers :
                 worker[w] \in Published /\ handle[mine[w]] = "open"
                   => socket = mine[w] \/ mine[w] \in Taken
NoOrphan == ~met => \A s \in Sockets :
              handle[s] = "open" => s \in Connecting \cup Taken

SocketInv == Owned /\ Solo /\ SlotOrTaken /\ NoOrphan

\* Once the process ended nothing happens.
LEMMA EndedStops == TypeOK /\ SocketInv /\ process # "runs" /\ [Next]_vars => UNCHANGED vars
<1> SUFFICES ASSUME TypeOK, SocketInv, process # "runs", [Next]_vars PROVE UNCHANGED vars
  OBVIOUS
<1>1. ASSUME NEW c \in Callers PROVE ~CallerStep(c)
  <2>1. caller[c].at = "gone"
    BY DEF SocketInv, Owned, Ended, Gone
  <2> QED
    BY <2>1
    DEF CallerStep, Take, Make, Replace, ReplaceUsed, Start, Spawn, Assign, Terminate, Stop,
        Wake, Grab, CloseTaken, Join
<1>2. ASSUME NEW w \in Workers
      PROVE  ~WorkerStep(w) /\ ~ReceiveFrame(w) /\ ~WaitTimesOut(w)
  BY WorkerMoves DEF SocketInv, Owned, Ended
<1> QED
  BY <1>1, <1>2 DEF Next, SignIn, SignOut, HearState

\* A step that touches no socket: it moves a worker within what it holds, or a
\* caller that took nothing.
LEMMA QuietStep ==
  ASSUME TypeOK, SocketInv, process = "runs", Solo',
         UNCHANGED <<socket, handle, mine, process>>, met => met',
         \A w \in Workers : /\ worker'[w] = "store" <=> worker[w] = "store"
                            /\ worker'[w] \in Published <=> worker[w] \in Published,
         \A c \in Callers : /\ caller'[c].took = caller[c].took
                            /\ \/ caller'[c].at = caller[c].at
                               \/ caller[c].at # "close"
  PROVE  SocketInv'
<1>1. Taken' = Taken /\ Connecting' = Connecting
  BY DEF Taken, Connecting
<1>2. Ended' /\ MineHeld' /\ MineOnce' /\ StoreFresh' /\ SlotOpen' /\ NeverTwice'
  BY <1>1
  DEF SocketInv, Owned, Ended, MineHeld, MineOnce, StoreFresh, SlotOpen, NeverTwice, Holding
<1>3. TakenOpen'
  <2> SUFFICES ASSUME NEW c \in Callers, caller[c].took # None
               PROVE  /\ caller'[c].at = "close"
                      /\ handle[caller[c].took] = "open" /\ caller[c].took # socket
    BY DEF TakenOpen
  <2> QED
    BY DEF SocketInv, Owned, TakenOpen
<1>4. TakenOnce'
  <2>1. TakenOnce
    BY DEF SocketInv, Owned
  <2> QED
    BY <2>1 DEF TakenOnce
<1>5. SlotOrTaken' /\ NoOrphan'
  BY <1>1 DEF SocketInv, SlotOrTaken, NoOrphan
<1> QED
  BY <1>2, <1>3, <1>4, <1>5 DEF SocketInv, Owned

LEMMA EndCloses ==
  ASSUME TypeOK, SocketInv, TypeOK', NEW how \in {"terminated", "undefined"}, Ends(how)
  PROVE  SocketInv'
<1>1. /\ process' # "runs" /\ mine' = mine
      /\ \A w \in Workers : worker'[w] = "gone"
      /\ \A d \in Callers : caller'[d] = Gone
      /\ \A s \in Sockets : handle'[s] = "closed"
  BY DEF Ends
<1>2. \A d \in Callers : caller'[d].took = None
  BY <1>1 DEF Gone
<1>3. Ended' /\ MineHeld' /\ StoreFresh' /\ SlotOpen' /\ NeverTwice'
  BY <1>1 DEF Ended, MineHeld, StoreFresh, SlotOpen, NeverTwice
<1>4. MineOnce'
  <2>1. MineOnce /\ \A w \in Workers : mine[w] \in Sockets \cup {None}
    BY DEF SocketInv, Owned, TypeOK
  <2> QED
    BY <1>1, <2>1 DEF MineOnce
<1>5. TakenOpen' /\ TakenOnce'
  BY <1>2 DEF TakenOpen, TakenOnce
<1>6. Solo' /\ SlotOrTaken' /\ NoOrphan'
  BY <1>1 DEF Solo, SlotOrTaken, NoOrphan, Lives, Published
<1> QED
  BY <1>3, <1>4, <1>5, <1>6 DEF SocketInv, Owned

\* Grab moves what is in the slot to the Stop that closes it.
LEMMA GrabMoves ==
  ASSUME TypeOK, SocketInv, process = "runs", Solo', NEW c \in Callers, Grab(c)
  PROVE  SocketInv'
<1>1. /\ socket' = None /\ caller'[c].took = socket /\ caller'[c].at = "close"
      /\ \A d \in Callers \ {c} : caller'[d] = caller[d]
      /\ UNCHANGED <<handle, mine, worker, process, met>>
  BY DEF Grab, TypeOK, workerVars, whole
<1>2. caller[c].took = None
  BY DEF Grab, SocketInv, Owned, TakenOpen
<1>3. Taken' \subseteq Taken \cup {socket} /\ Taken \subseteq Taken' \cup {None}
  BY <1>1, <1>2 DEF Taken
<1>4. Ended' /\ MineHeld' /\ MineOnce' /\ SlotOpen' /\ NeverTwice'
  BY <1>1 DEF SocketInv, Owned, Ended, MineHeld, MineOnce, SlotOpen, NeverTwice
<1>5. StoreFresh'
  <2>1. \A w \in Workers : worker[w] = "store" => mine[w] # None
    BY DEF SocketInv, Owned, MineHeld, Holding
  <2> QED
    BY <1>1, <1>3, <2>1 DEF SocketInv, Owned, StoreFresh
<1>6. TakenOpen'
  BY <1>1 DEF SocketInv, Owned, TakenOpen, SlotOpen
<1>7. TakenOnce'
  <2>1. \A d \in Callers \ {c} : caller[d].took # None => caller[d].took # socket
    BY DEF SocketInv, Owned, TakenOpen
  <2> QED
    BY <1>1, <2>1 DEF SocketInv, Owned, TakenOnce
<1>8. socket # None => socket \in Taken'
  BY <1>1 DEF Taken
<1>9. SlotOrTaken' /\ NoOrphan'
  <2>1. \A w \in Workers : worker[w] \in Published => mine[w] # None
    BY DEF SocketInv, Owned, MineHeld, Holding
  <2>2. SlotOrTaken'
    BY <1>1, <1>3, <1>8, <2>1 DEF SocketInv, SlotOrTaken
  <2>3. NoOrphan'
    BY <1>1, <1>3, PipelineAssumption DEF SocketInv, NoOrphan, Connecting
  <2> QED
    BY <2>2, <2>3
<1> QED
  BY <1>4, <1>5, <1>6, <1>7, <1>9 DEF SocketInv, Owned

\* What closing one open handle does to all of them.
LEMMA ClosedOne ==
  ASSUME TypeOK, NEW s \in Sockets \cup {None}, s # None => handle[s] = "open"
  PROVE  \A x \in Sockets : Closed(s)[x] = IF x = s THEN "closed" ELSE handle[x]
<1>1. CASE s = None
  BY <1>1, PipelineAssumption DEF Closed
<1>2. CASE s # None
  <2>1. Closed(s) = [handle EXCEPT ![s] = IF @ = "open" THEN "closed" ELSE "closed twice"]
    BY <1>2 DEF Closed
  <2> QED
    BY <1>2, <2>1 DEF TypeOK
<1> QED
  BY <1>1, <1>2

LEMMA TakenCloses ==
  ASSUME TypeOK, SocketInv, process = "runs", Solo', NEW c \in Callers, CloseTaken(c)
  PROVE  SocketInv'
<1> DEFINE t == caller[c].took
<1>1. /\ caller'[c].took = None /\ caller'[c].at = "join"
      /\ \A d \in Callers \ {c} : caller'[d] = caller[d]
      /\ handle' = Closed(t)
      /\ UNCHANGED <<socket, mine, worker, process, met>>
  BY DEF CloseTaken, TypeOK, workerVars, whole
<1>2. t \in Sockets \cup {None} /\ (t # None => handle[t] = "open" /\ t # socket)
  BY DEF TypeOK, SocketInv, Owned, TakenOpen
<1>3. \A x \in Sockets : handle'[x] = IF x = t THEN "closed" ELSE handle[x]
  BY <1>1, <1>2, ClosedOne
<1>4. /\ Taken \subseteq Taken' \cup {t} /\ Taken' \subseteq Taken \cup {None}
      /\ \A d \in Callers \ {c} : caller[d].took # None => caller[d].took # t
  <2>1. \A d \in Callers \ {c} : caller[d].took # None => caller[d].took # t
    BY DEF SocketInv, Owned, TakenOnce
  <2> QED
    BY <1>1, <2>1 DEF Taken
<1>5. /\ \A w \in Workers : mine[w] \in Sockets \cup {None}
      /\ socket \in Sockets \cup {None}
      /\ \A d \in Callers : caller[d].took \in Sockets \cup {None}
  BY DEF TypeOK
<1>6. \A w \in Workers : worker[w] \in Holding => mine[w] # None
  BY DEF SocketInv, Owned, MineHeld
<1>7. Ended' /\ MineHeld' /\ NeverTwice'
  BY <1>1, <1>3 DEF SocketInv, Owned, Ended, MineHeld, NeverTwice
<1>8. MineOnce' /\ SlotOpen'
  BY <1>1, <1>2, <1>3, <1>5 DEF SocketInv, Owned, MineOnce, SlotOpen
<1>9. StoreFresh'
  <2> SUFFICES ASSUME NEW w \in Workers, worker[w] = "store"
               PROVE  /\ handle'[mine[w]] = "open"
                      /\ mine[w] \notin Taken' /\ mine[w] # socket
    BY <1>1 DEF StoreFresh
  <2>1. mine[w] \in Sockets /\ mine[w] # None
    BY <1>5, <1>6 DEF Holding
  <2>2. handle[mine[w]] = "open" /\ mine[w] \notin Taken /\ mine[w] # socket
    BY DEF SocketInv, Owned, StoreFresh
  <2>3. t \in Taken
    BY DEF Taken
  <2> QED
    BY <1>3, <1>4, <2>1, <2>2, <2>3
<1>10. TakenOpen' /\ TakenOnce'
  <2>1. TakenOpen'
    <3> SUFFICES ASSUME NEW d \in Callers, caller'[d].took # None
                 PROVE  /\ caller'[d].at = "close" /\ handle'[caller'[d].took] = "open"
                        /\ caller'[d].took # socket
      BY <1>1 DEF TakenOpen
    <3>1. d # c /\ caller'[d] = caller[d]
      BY <1>1
    <3>2. caller[d].took \in Sockets /\ caller[d].took # t
      BY <1>4, <1>5, <3>1
    <3> QED
      BY <1>3, <3>1, <3>2 DEF SocketInv, Owned, TakenOpen
  <2>2. TakenOnce'
    BY <1>1 DEF SocketInv, Owned, TakenOnce
  <2> QED
    BY <2>1, <2>2
<1>11. SlotOrTaken'
  <2> SUFFICES ASSUME ~met, NEW w \in Workers, worker[w] \in Published,
                      handle'[mine[w]] = "open"
               PROVE  socket = mine[w] \/ mine[w] \in Taken'
    BY <1>1 DEF SlotOrTaken
  <2>1. mine[w] \in Sockets
    BY <1>5, <1>6 DEF Holding
  <2> QED
    BY <1>3, <1>4, <2>1 DEF SocketInv, SlotOrTaken
<1>12. NoOrphan'
  <2>1. Connecting' = Connecting
    BY <1>1 DEF Connecting
  <2> QED
    BY <1>1, <1>3, <1>4, <2>1 DEF SocketInv, NoOrphan
<1> QED
  BY <1>7, <1>8, <1>9, <1>10, <1>11, <1>12 DEF SocketInv, Owned

\* The upgrade opens a handle nobody else has seen.
LEMMA UpgradeOpens ==
  ASSUME TypeOK, SocketInv, process = "runs", Solo', NEW w \in Workers, NEW s \in Sockets,
         worker[w] = "upgrade", handle[s] = "unused",
         handle' = [handle EXCEPT ![s] = "open"], mine' = [mine EXCEPT ![w] = s],
         WorkerGoes(w, "store"), UNCHANGED <<caller, socket, process, met>>
  PROVE  SocketInv'
<1>1. /\ mine'[w] = s /\ worker'[w] = "store"
      /\ \A v \in Workers \ {w} : mine'[v] = mine[v] /\ worker'[v] = worker[v]
      /\ \A x \in Sockets : handle'[x] = IF x = s THEN "open" ELSE handle[x]
  BY DEF WorkerGoes, TypeOK
<1>2. /\ s # None /\ \A v \in Workers : mine[v] \in Sockets \cup {None}
      /\ socket \in Sockets \cup {None}
      /\ \A c \in Callers : caller[c].took \in Sockets \cup {None}
  BY PipelineAssumption DEF TypeOK
<1>3. mine[w] = None
  BY DEF SocketInv, Owned, MineHeld, Holding, Published
<1>4. \A v \in Workers : worker[v] \in Holding => mine[v] # None
  BY DEF SocketInv, Owned, MineHeld
<1>5. /\ \A v \in Workers : mine[v] # s
      /\ socket # s /\ \A c \in Callers : caller[c].took # s
  BY <1>2 DEF SocketInv, Owned, MineOnce, SlotOpen, TakenOpen
<1>6. Taken' = Taken /\ s \notin Taken
  BY <1>5 DEF Taken
<1>7. Ended' /\ MineHeld' /\ NeverTwice'
  <2>1. MineHeld'
    <3> SUFFICES ASSUME NEW v \in Workers
                 PROVE  mine'[v] # None <=> worker'[v] \in Holding
      BY DEF MineHeld
    <3> QED
      BY <1>1, <1>2 DEF SocketInv, Owned, MineHeld, Holding
  <2>2. Ended'
    BY DEF Ended
  <2>3. NeverTwice'
    <3> SUFFICES ASSUME NEW x \in Sockets PROVE handle'[x] # "closed twice"
      BY DEF NeverTwice
    <3>1. handle[x] # "closed twice"
      BY DEF SocketInv, Owned, NeverTwice
    <3>2. handle'[x] = "open" \/ handle'[x] = handle[x]
      BY <1>1
    <3> QED
      BY <3>1, <3>2
  <2> QED
    BY <2>1, <2>2, <2>3
<1>8. MineOnce' /\ SlotOpen'
  <2>1. MineOnce'
    <3> SUFFICES ASSUME NEW v \in Workers, NEW x \in Workers, mine'[v] # None
                 PROVE  /\ handle'[mine'[v]] # "unused"
                        /\ mine'[v] = mine'[x] => v = x
      BY DEF MineOnce
    <3>1. CASE v = w
      BY <1>1, <1>5, <3>1
    <3>2. CASE v # w
      <4>1. mine'[v] = mine[v] /\ mine[v] \in Sockets
        BY <1>1, <1>2, <3>2
      <4> QED
        BY <1>1, <1>5, <3>2, <4>1 DEF SocketInv, Owned, MineOnce
    <3> QED
      BY <3>1, <3>2
  <2>2. SlotOpen'
    BY <1>1, <1>2, <1>5 DEF SocketInv, Owned, SlotOpen
  <2> QED
    BY <2>1, <2>2
<1>9. StoreFresh'
  <2> SUFFICES ASSUME NEW v \in Workers, worker'[v] = "store"
               PROVE  /\ handle'[mine'[v]] = "open"
                      /\ mine'[v] \notin Taken /\ mine'[v] # socket
    BY <1>6 DEF StoreFresh
  <2>1. CASE v = w
    BY <1>1, <1>5, <1>6, <2>1
  <2>2. CASE v # w
    <3>1. mine[v] \in Sockets /\ worker[v] = "store"
      BY <1>1, <1>2, <1>4, <2>2 DEF Holding
    <3> QED
      BY <1>1, <1>5, <2>2, <3>1 DEF SocketInv, Owned, StoreFresh
  <2> QED
    BY <2>1, <2>2
<1>10. TakenOpen' /\ TakenOnce'
  BY <1>1, <1>2, <1>5 DEF SocketInv, Owned, TakenOpen, TakenOnce
<1>11. SlotOrTaken'
  <2> SUFFICES ASSUME ~met, NEW v \in Workers, worker'[v] \in Published,
                      handle'[mine'[v]] = "open"
               PROVE  socket = mine'[v] \/ mine'[v] \in Taken
    BY <1>6 DEF SlotOrTaken
  <2>1. v # w /\ mine'[v] = mine[v] /\ worker'[v] = worker[v] /\ mine[v] \in Sockets
    BY <1>1, <1>2, <1>4 DEF Published, Holding
  <2> QED
    BY <1>1, <1>5, <2>1 DEF SocketInv, SlotOrTaken
<1>12. NoOrphan'
  <2> SUFFICES ASSUME ~met, NEW x \in Sockets, handle'[x] = "open"
               PROVE  x \in Connecting' \cup Taken
    BY <1>6 DEF NoOrphan
  <2>1. CASE x = s
    BY <1>1, <2>1 DEF Connecting
  <2>2. CASE x # s
    <3>1. x \in Connecting \cup Taken
      BY <1>1, <2>2 DEF SocketInv, NoOrphan
    <3>2. x # None
      BY PipelineAssumption
    <3> QED
      BY <1>1, <1>3, <3>1, <3>2 DEF Connecting
  <2> QED
    BY <2>1, <2>2
<1> QED
  BY <1>7, <1>8, <1>9, <1>10, <1>11, <1>12 DEF SocketInv, Owned

\* The worker publishes its handle in the slot.
LEMMA StorePublishes ==
  ASSUME TypeOK, SocketInv, process = "runs", Solo', NEW w \in Workers, StoreSocket(w)
  PROVE  SocketInv'
<1>1. /\ socket' = mine[w] /\ worker[w] = "store" /\ worker'[w] = "check"
      /\ \A v \in Workers \ {w} : worker'[v] = worker[v]
      /\ UNCHANGED <<handle, mine, caller, process, met>>
  BY DEF StoreSocket, WorkerGoes, WorkerFrame, whole, TypeOK
<1>2. Taken' = Taken /\ Connecting' = Connecting
  BY <1>1 DEF Taken, Connecting
<1>3. mine[w] # None /\ handle[mine[w]] = "open" /\ mine[w] \notin Taken
  BY <1>1 DEF SocketInv, Owned, MineHeld, StoreFresh, Holding
<1>4. Ended' /\ MineHeld' /\ MineOnce' /\ SlotOpen' /\ NeverTwice' /\ TakenOnce'
  BY <1>1, <1>3
  DEF SocketInv, Owned, Ended, MineHeld, MineOnce, SlotOpen, NeverTwice, TakenOnce,
      Holding, Published
<1>5. StoreFresh'
  <2> SUFFICES ASSUME NEW v \in Workers, v # w, worker[v] = "store"
               PROVE  /\ handle[mine[v]] = "open"
                      /\ mine[v] \notin Taken /\ mine[v] # mine[w]
    BY <1>1, <1>2 DEF StoreFresh
  <2> QED
    BY <1>3 DEF SocketInv, Owned, StoreFresh, MineOnce
<1>6. TakenOpen'
  <2>1. \A c \in Callers : caller[c].took # mine[w]
    BY <1>3 DEF Taken
  <2> QED
    BY <1>1, <2>1 DEF SocketInv, Owned, TakenOpen
<1>7. SlotOrTaken'
  <2> SUFFICES ASSUME ~met, NEW v \in Workers, worker'[v] \in Published
               PROVE  v = w
    BY <1>1, <1>2 DEF SlotOrTaken
  <2>1. Lives(v)' /\ Lives(w)'
    BY <1>1 DEF Lives, Published
  <2> QED
    BY <1>1, <2>1 DEF Solo
<1>8. NoOrphan'
  BY <1>1, <1>2 DEF SocketInv, NoOrphan
<1> QED
  BY <1>4, <1>5, <1>6, <1>7, <1>8 DEF SocketInv, Owned

\* The worker empties the slot and closes what was in it.
LEMMA ReclaimCloses ==
  ASSUME TypeOK, SocketInv, process = "runs", Solo', NEW w \in Workers, Reclaim(w)
  PROVE  SocketInv'
<1>1. /\ socket' = None /\ handle' = Closed(socket)
      /\ worker[w] = "reclaim" /\ worker'[w] = "after" /\ mine'[w] = None
      /\ \A v \in Workers \ {w} : worker'[v] = worker[v] /\ mine'[v] = mine[v]
      /\ UNCHANGED <<caller, process, met>>
  BY DEF Reclaim, WorkerGoes, WorkerFrame, whole, TypeOK
<1>2. /\ socket \in Sockets \cup {None} /\ (socket # None => handle[socket] = "open")
      /\ \A v \in Workers : mine[v] \in Sockets \cup {None}
      /\ \A c \in Callers : caller[c].took \in Sockets \cup {None}
  BY DEF TypeOK, SocketInv, Owned, SlotOpen
<1>3. \A x \in Sockets : handle'[x] = IF x = socket THEN "closed" ELSE handle[x]
  BY <1>1, <1>2, ClosedOne
<1>4. Taken' = Taken
  BY <1>1 DEF Taken
<1>5. \A v \in Workers : worker[v] \in Holding => mine[v] # None
  BY DEF SocketInv, Owned, MineHeld
<1>6. Ended' /\ MineHeld' /\ NeverTwice' /\ SlotOpen'
  BY <1>1, <1>3
  DEF SocketInv, Owned, Ended, MineHeld, NeverTwice, SlotOpen, Holding, Published
<1>7. MineOnce'
  BY <1>1, <1>2, <1>3 DEF SocketInv, Owned, MineOnce
<1>8. StoreFresh'
  <2> SUFFICES ASSUME NEW v \in Workers, worker'[v] = "store"
               PROVE  /\ handle'[mine'[v]] = "open"
                      /\ mine'[v] \notin Taken /\ mine'[v] # None
    BY <1>1, <1>4 DEF StoreFresh
  <2>1. v # w /\ worker[v] = "store" /\ mine'[v] = mine[v] /\ mine[v] \in Sockets /\ mine[v] # None
    BY <1>1, <1>2, <1>5 DEF Holding
  <2> QED
    BY <1>3, <2>1 DEF SocketInv, Owned, StoreFresh
<1>9. TakenOpen'
  <2> SUFFICES ASSUME NEW c \in Callers, caller[c].took # None
               PROVE  /\ caller[c].at = "close" /\ handle'[caller[c].took] = "open"
    BY <1>1 DEF TakenOpen
  <2>1. caller[c].took \in Sockets /\ caller[c].took # socket
    BY <1>2 DEF SocketInv, Owned, TakenOpen
  <2> QED
    BY <1>3, <2>1 DEF SocketInv, Owned, TakenOpen
<1>10. TakenOnce'
  BY <1>1 DEF SocketInv, Owned, TakenOnce
<1>11. SlotOrTaken'
  <2> SUFFICES ASSUME ~met, NEW v \in Workers, worker'[v] \in Published,
                      handle'[mine'[v]] = "open"
               PROVE  mine'[v] \in Taken
    BY <1>1, <1>4 DEF SlotOrTaken
  <2>1. v # w /\ worker[v] \in Published /\ mine'[v] = mine[v] /\ mine[v] \in Sockets
    BY <1>1, <1>2, <1>5 DEF Published, Holding
  <2> QED
    BY <1>3, <2>1 DEF SocketInv, SlotOrTaken
<1>12. NoOrphan'
  <2> SUFFICES ASSUME ~met, NEW x \in Sockets, handle'[x] = "open"
               PROVE  x \in Connecting' \cup Taken
    BY <1>1, <1>4 DEF NoOrphan
  <2>1. x # socket /\ handle[x] = "open" /\ x \in Connecting \cup Taken
    BY <1>3 DEF SocketInv, NoOrphan
  <2>2. mine[w] = x => x \in Taken
    BY <1>1, <2>1 DEF SocketInv, SlotOrTaken, Published
  <2> QED
    BY <1>1, <2>1, <2>2 DEF Connecting
<1> QED
  BY <1>6, <1>7, <1>8, <1>9, <1>10, <1>11, <1>12 DEF SocketInv, Owned

\* Workers move alone, and only a Start makes one live, which met records.
LEMMA SoloCaller ==
  ASSUME TypeOK, Solo, NEW c \in Callers, CallerStep(c)
  PROVE  Solo' /\ (met => met')
<1>1. CASE Spawn(c)
  <2>1. PICK w \in Workers :
          worker' = [worker EXCEPT ![w] = "top"] /\ met' = (met \/ Alive # {})
    BY <1>1 DEF Spawn
  <2>2. ASSUME ~met', NEW v \in Workers, Lives(v)' PROVE v = w
    BY <2>1, <2>2 DEF Lives, Alive, TypeOK
  <2> QED
    BY <2>1, <2>2 DEF Solo
<1>2. CASE ~Spawn(c)
  <2>1. met' = met
    BY <1>2 DEF CallerStep, Take, Make, Replace, ReplaceUsed, Start, Assign, Terminate,
                Stop, Wake, Grab, CloseTaken, Join, Ends, whole
  <2>2. \A v \in Workers : Lives(v)' => Lives(v)
    BY <1>2 DEF CallerStep, Take, Make, Replace, ReplaceUsed, Start, Assign, Terminate,
                Stop, Wake, Grab, CloseTaken, Join, Ends, workerVars, Lives, TypeOK
  <2> QED
    BY <2>1, <2>2 DEF Solo
<1> QED
  BY <1>1, <1>2

LEMMA SoloWorker ==
  ASSUME TypeOK, Solo, NEW w \in Workers, WorkerStep(w) \/ ReceiveFrame(w) \/ WaitTimesOut(w)
  PROVE  Solo' /\ UNCHANGED <<process, met, caller>>
<1>1. UNCHANGED <<process, met, caller>>
  BY DEF WorkerStep, LoopTop, FetchToken, Upgrade, StoreSocket, CheckRunning,
         ReceiveFrame, ReceiveFails, Reclaim, AfterConnection, WaitChecks,
         WaitTimesOut, WorkerFrame, whole
<1>2. Lives(w) /\ \E place : WorkerGoes(w, place)
  BY WorkerMoves DEF Lives
<1>3. \A v \in Workers : Lives(v)' => Lives(v)
  BY <1>2 DEF WorkerGoes, Lives, TypeOK
<1> QED
  BY <1>1, <1>3 DEF Solo

LEMMA CallerSocket ==
  ASSUME TypeOK, TypeOK', SocketInv, process = "runs", NEW c \in Callers, CallerStep(c)
  PROVE  SocketInv'
<1>1. Solo' /\ (met => met')
  BY SoloCaller DEF SocketInv
<1>2. CASE Terminate(c) \/ ReplaceUsed(c)
  BY <1>2, EndCloses DEF Terminate, ReplaceUsed
<1>3. CASE Grab(c)
  BY <1>1, <1>3, GrabMoves
<1>4. CASE CloseTaken(c)
  BY <1>1, <1>4, TakenCloses
<1>5. CASE \/ Take(c) \/ Make(c) \/ Replace(c) \/ Start(c) \/ Spawn(c) \/ Assign(c)
           \/ Stop(c) \/ Wake(c) \/ Join(c)
  <2>1. UNCHANGED <<socket, handle, mine, process>>
    BY <1>5 DEF Take, Make, Replace, Start, Spawn, Assign, Stop, Wake, Join, shared,
                workerVars, whole
  <2>2. \A w \in Workers : /\ worker'[w] = "store" <=> worker[w] = "store"
                           /\ worker'[w] \in Published <=> worker[w] \in Published
    <3>1. CASE Spawn(c)
      BY <3>1 DEF Spawn, Published, TypeOK
    <3>2. CASE ~Spawn(c)
      BY <1>5, <3>2
      DEF Take, Make, Replace, Start, Assign, Stop, Wake, Join, workerVars, Published, TypeOK
    <3> QED
      BY <3>1, <3>2
  <2>3. \A d \in Callers : /\ caller'[d].took = caller[d].took
                           /\ caller'[d].at = caller[d].at \/ caller[d].at # "close"
    <3>1. caller[c].at # "close" /\ caller[c].took = None
      <4>1. caller[c].at # "close"
        BY <1>5 DEF Take, Make, Replace, Start, Spawn, Assign, Stop, Wake, Join
      <4> QED
        BY <4>1 DEF SocketInv, Owned, TakenOpen
    <3>2. CASE Spawn(c)
      <4>1. PICK w \in Workers :
              caller' = [caller EXCEPT ![c].at = "assign", ![c].made = w]
        BY <3>2 DEF Spawn
      <4>2. caller \in [Callers -> CallerStates]
        BY DEF TypeOK, CallerStates
      <4>3. caller'[c].took = caller[c].took
        BY <4>1, <4>2 DEF CallerStates
      <4>4. \A d \in Callers \ {c} : caller'[d] = caller[d]
        BY <4>1, <4>2
      <4> QED
        BY <3>1, <4>3, <4>4
    <3>3. CASE Assign(c)
      <4>1. caller'[c] = Idle /\ \A d \in Callers \ {c} : caller'[d] = caller[d]
        BY <3>3 DEF Assign, TypeOK
      <4> QED
        BY <3>1, <4>1 DEF Idle
    <3>4. CASE \E place : CallerGoes(c, place)
      <4>1. caller \in [Callers -> CallerStates]
        BY DEF TypeOK, CallerStates
      <4>2. caller'[c].took = caller[c].took
        BY <3>4, <4>1 DEF CallerGoes, CallerStates
      <4>3. \A d \in Callers \ {c} : caller'[d] = caller[d]
        BY <3>4, <4>1 DEF CallerGoes
      <4> QED
        BY <3>1, <4>2, <4>3
    <3> QED
      BY <1>5, <3>2, <3>3, <3>4 DEF Take, Make, Replace, Start, Stop, Wake, Join
  <2> QED
    BY <1>1, <2>1, <2>2, <2>3, QuietStep
<1> QED
  BY <1>2, <1>3, <1>4, <1>5 DEF CallerStep

LEMMA WorkerSocket ==
  ASSUME TypeOK, SocketInv, process = "runs", NEW w \in Workers,
         WorkerStep(w) \/ ReceiveFrame(w) \/ WaitTimesOut(w)
  PROVE  SocketInv'
<1>1. Solo' /\ UNCHANGED <<process, met, caller>>
  BY SoloWorker DEF SocketInv
<1>2. CASE StoreSocket(w)
  BY <1>1, <1>2, StorePublishes
<1>3. CASE Reclaim(w)
  BY <1>1, <1>3, ReclaimCloses
<1>4. CASE Upgrade(w) /\ mine' # mine
  <2>1. PICK s \in Sockets :
          /\ worker[w] = "upgrade" /\ handle[s] = "unused"
          /\ handle' = [handle EXCEPT ![s] = "open"] /\ mine' = [mine EXCEPT ![w] = s]
          /\ WorkerGoes(w, "store") /\ socket' = socket
    BY <1>4 DEF Upgrade, Pause
  <2> QED
    BY <1>1, <2>1, UpgradeOpens
<1>5. CASE /\ UNCHANGED <<socket, handle, mine>>
           /\ \A v \in Workers : /\ worker'[v] = "store" <=> worker[v] = "store"
                                 /\ worker'[v] \in Published <=> worker[v] \in Published
  BY <1>1, <1>5, QuietStep
<1>6. CASE Upgrade(w) /\ mine' = mine
  <2>1. worker[w] = "upgrade" /\ UNCHANGED <<socket, handle>>
    <3>1. \A s \in Sockets : handle[s] = "unused" => mine # [mine EXCEPT ![w] = s]
      <4>1. mine[w] = None
        BY <1>6 DEF Upgrade, SocketInv, Owned, MineHeld, Holding, Published
      <4> QED
        BY <4>1, PipelineAssumption DEF TypeOK
    <3> QED
      BY <1>6, <3>1 DEF Upgrade
  <2>2. WorkerGoes(w, "after") \/ WorkerGoes(w, "wait")
    <3>1. \A s \in Sockets : mine # [mine EXCEPT ![w] = s]
      <4>1. mine[w] = None
        BY <1>6 DEF Upgrade, SocketInv, Owned, MineHeld, Holding, Published
      <4> QED
        BY <4>1, PipelineAssumption DEF TypeOK
    <3> QED
      BY <1>6, <3>1 DEF Upgrade, Pause
  <2>3. \A v \in Workers : /\ worker'[v] = "store" <=> worker[v] = "store"
                           /\ worker'[v] \in Published <=> worker[v] \in Published
    BY <2>1, <2>2 DEF WorkerGoes, Published, TypeOK
  <2> QED
    BY <1>5, <1>6, <2>1, <2>3
<1>7. CASE LoopTop(w) \/ FetchToken(w) \/ AfterConnection(w) \/ WaitChecks(w) \/ WaitTimesOut(w)
  <2>1. worker[w] \in {"top", "token", "after", "wait", "asleep"} /\ UNCHANGED <<socket, handle, mine>>
    BY <1>7 DEF LoopTop, FetchToken, AfterConnection, WaitChecks, WaitTimesOut, Pause
  <2>2. \E place \in {"top", "token", "upgrade", "after", "wait", "asleep", "gone"} :
          WorkerGoes(w, place)
    BY <1>7 DEF LoopTop, FetchToken, AfterConnection, WaitChecks, WaitTimesOut, Pause,
                Resumes, TypeOK
  <2>3. \A v \in Workers : /\ worker'[v] = "store" <=> worker[v] = "store"
                           /\ worker'[v] \in Published <=> worker[v] \in Published
    BY <2>1, <2>2 DEF WorkerGoes, Published, TypeOK
  <2> QED
    BY <1>5, <2>1, <2>3
<1>8. CASE CheckRunning(w) \/ ReceiveFrame(w) \/ ReceiveFails(w)
  <2>1. worker[w] \in Published /\ UNCHANGED <<socket, handle, mine>>
    BY <1>8 DEF CheckRunning, ReceiveFrame, ReceiveFails, Published
  <2>2. \E place \in Published : WorkerGoes(w, place)
    BY <1>8 DEF CheckRunning, ReceiveFrame, ReceiveFails, Published
  <2>3. \A v \in Workers : /\ worker'[v] = "store" <=> worker[v] = "store"
                           /\ worker'[v] \in Published <=> worker[v] \in Published
    BY <2>1, <2>2 DEF WorkerGoes, Published, TypeOK
  <2> QED
    BY <1>5, <2>1, <2>3
<1> QED
  BY <1>2, <1>3, <1>4, <1>6, <1>7, <1>8 DEF WorkerStep

LEMMA SocketInit == Init => SocketInv
<1> SUFFICES ASSUME Init PROVE SocketInv
  OBVIOUS
<1>1. Owned
  BY DEF Init, Idle, Owned, Ended, MineHeld, MineOnce, StoreFresh, SlotOpen, TakenOpen,
         TakenOnce, NeverTwice, Holding, Published
<1>2. Solo /\ SlotOrTaken /\ NoOrphan
  BY DEF Init, Solo, SlotOrTaken, NoOrphan, Lives, Published
<1> QED
  BY <1>1, <1>2 DEF SocketInv

LEMMA SocketStep == TypeOK /\ TypeOK' /\ SocketInv /\ [Next]_vars => SocketInv'
<1> SUFFICES ASSUME TypeOK, TypeOK', SocketInv, [Next]_vars PROVE SocketInv'
  OBVIOUS
<1>1. CASE UNCHANGED <<socket, handle, mine, process, met, worker, caller>>
  <2>1. Taken' = Taken /\ Connecting' = Connecting
    BY <1>1 DEF Taken, Connecting
  <2>2. Ended' /\ MineHeld' /\ MineOnce' /\ StoreFresh' /\ SlotOpen' /\ NeverTwice'
    BY <1>1, <2>1
    DEF SocketInv, Owned, Ended, MineHeld, MineOnce, StoreFresh, SlotOpen, NeverTwice
  <2>3. TakenOpen' /\ TakenOnce'
    BY <1>1 DEF SocketInv, Owned, TakenOpen, TakenOnce
  <2>4. Solo' /\ SlotOrTaken' /\ NoOrphan'
    BY <1>1, <2>1 DEF SocketInv, Solo, SlotOrTaken, NoOrphan, Lives
  <2> QED
    BY <2>2, <2>3, <2>4 DEF SocketInv, Owned
<1>2. CASE process # "runs"
  <2>1. UNCHANGED vars
    BY <1>2, EndedStops
  <2> QED
    BY <1>1, <2>1 DEF vars, shared, workerVars, whole
<1>3. ASSUME process = "runs", NEW c \in Callers, CallerStep(c) PROVE SocketInv'
  BY <1>3, CallerSocket
<1>4. ASSUME process = "runs", NEW w \in Workers,
             WorkerStep(w) \/ ReceiveFrame(w) \/ WaitTimesOut(w)
      PROVE  SocketInv'
  BY <1>4, WorkerSocket
<1> QED
  BY <1>1, <1>2, <1>3, <1>4
  DEF Next, SignIn, SignOut, HearState, shared, workerVars, whole, vars

(***************************************************************************)
(* However many Stops and workers close through the slot, no handle is     *)
(* closed twice; and as long as no two workers have lived at once none is  *)
(* left open by a connection that is over (Pipeline.cpp:119-155, 327-352). *)
(***************************************************************************)
THEOREM ClosedOnceAlways == Spec => []ClosedOnce
<1>1. SocketInv => ClosedOnce
  BY DEF SocketInv, Owned, NeverTwice, NoOrphan, ClosedOnce
<1> QED
  BY <1>1, TypeInit, TypeStep, SocketInit, SocketStep, PTL DEF Spec
=============================================================================
