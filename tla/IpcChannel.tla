----------------------------- MODULE IpcChannel -----------------------------
(***************************************************************************)
(* A call from the page to the C++ host and back: the pending table of     *)
(* IpcClient (src/web/src/lib/ipc.ts), the dispatch, thread pool and       *)
(* shutdown of IpcBridge (src/src/host/IpcBridge.cpp), and the marshalling *)
(* of every outgoing message through the window's message queue            *)
(* (src/src/host/WebViewHost.cpp, MainWindow.cpp).                         *)
(*                                                                         *)
(* Three kinds of actor interleave: the page, the UI thread, which also    *)
(* runs the inline handlers and the destructor, and the pool's workers.    *)
(***************************************************************************)
EXTENDS Naturals, Sequences, FiniteSets

CONSTANTS
  Calls,       \* the calls the page makes
  Async,       \* those whose method is in AsyncMethodSet; the rest run inline
  Untimed,     \* those of NO_RESPONSE_TIMEOUT_METHODS: no timer
  UsesUi,      \* those whose handler waits for the UI thread (SendMessageW)
  Reporting,   \* those whose handler posts progress events
  PoolSize,    \* threads of IpcThreadPool
  MaxEvents    \* bound: progress events one of them posts before its result

ASSUME IpcAssumption ==
  /\ Async \subseteq Calls /\ Untimed \subseteq Calls /\ UsesUi \subseteq Async
  /\ Reporting \subseteq Calls
  /\ IsFiniteSet(Calls)
  /\ PoolSize \in Nat \ {0} /\ MaxEvents \in Nat

VARIABLES
  pending,     \* the client's table: calls with a live slot
  promise,     \* "none", "pending", "answered" or "rejected" for each call
  stage,       \* where each call is in the host
  posted,      \* progress events the handler of each call has posted
  shown,       \* progress events of each call the page has received
  outbox,      \* WM_APP_POST_WEB_MESSAGE messages in the window's queue
  inbox,       \* messages WebView2 holds for the page
  lost,        \* history: how often the window dropped each message
  active,      \* m_activeAsyncTasks
  window,      \* the main window, and with it the page, exists
  alive,       \* *m_alive
  teardown     \* progress of ~IpcBridge

clientVars == <<pending, promise, shown>>
hostVars   == <<stage, posted, outbox, lost, active>>
downVars   == <<window, alive, teardown>>
vars == <<pending, promise, stage, posted, shown, outbox, inbox, lost, active,
          window, alive, teardown>>

Answer(c) == [call |-> c, kind |-> "answer"]
Event(c)  == [call |-> c, kind |-> "event"]
Messages  == {Answer(c) : c \in Calls} \cup {Event(c) : c \in Calls}

At(labels) == {c \in Calls : stage[c] \in labels}

\* ipcResponseTimeoutMs and AsyncMethodSet.
Timed  == Calls \ Untimed
Inline == Calls \ Async

\* Handlers that run, and tasks EnqueueAsync has counted.
InHandler == {"running", "waiting_ui", "answering"}
Counted   == At({"queued"} \cup InHandler) \cap Async

\* The UI thread is in the message loop: no inline handler and no destructor.
UiFree == At(InHandler) \cap Inline = {} /\ teardown = "none"

Init ==
  /\ pending = {}
  /\ promise = [c \in Calls |-> "none"]
  /\ stage = [c \in Calls |-> "none"]
  /\ posted = [c \in Calls |-> 0]
  /\ shown = [c \in Calls |-> 0]
  /\ outbox = <<>> /\ inbox = <<>>
  /\ lost = [m \in Messages |-> 0]
  /\ active = 0
  /\ window = TRUE /\ alive = TRUE /\ teardown = "none"

------------------------------------------------------------------------------
(* The page                                                                *)

\* callInner: the slot is entered before the message is sent.
Call(c) ==
  /\ window /\ promise[c] = "none"
  /\ pending' = pending \cup {c}
  /\ promise' = [promise EXCEPT ![c] = "pending"]
  /\ stage' = [stage EXCEPT ![c] = "sent"]
  /\ UNCHANGED <<posted, shown, outbox, inbox, lost, active>> /\ UNCHANGED downVars

\* The timer of callInner; ids are unique, so only the slot matters.
Timeout(c) ==
  /\ window /\ c \in pending \cap Timed
  /\ pending' = pending \ {c}
  /\ promise' = [promise EXCEPT ![c] = "rejected"]
  /\ UNCHANGED <<shown, inbox>> /\ UNCHANGED hostVars /\ UNCHANGED downVars

\* Mutant: the slots are cleared and nobody is told.
CancelAllSilent ==
  /\ window /\ pending # {}
  /\ pending' = {}
  /\ UNCHANGED <<promise, shown, inbox>> /\ UNCHANGED hostVars /\ UNCHANGED downVars

\* cancelAll, when the session ends or switches accounts.
CancelAll ==
  /\ window /\ pending # {}
  /\ pending' = {}
  /\ promise' = [c \in Calls |-> IF c \in pending THEN "rejected" ELSE promise[c]]
  /\ UNCHANGED <<shown, inbox>> /\ UNCHANGED hostVars /\ UNCHANGED downVars

\* Mutant: a late answer settles a promise that was given up.
HandleMessageLate ==
  /\ window /\ inbox # <<>> /\ Head(inbox).kind = "answer"
  /\ inbox' = Tail(inbox)
  /\ pending' = pending \ {Head(inbox).call}
  /\ promise' = [promise EXCEPT ![Head(inbox).call] = "answered"]
  /\ UNCHANGED shown /\ UNCHANGED hostVars /\ UNCHANGED downVars

\* handle: an event goes to its listeners; an answer settles its slot, and is
\* dropped when the slot is gone.
HandleMessage ==
  /\ window /\ inbox # <<>>
  /\ inbox' = Tail(inbox)
  /\ LET c == Head(inbox).call
     IN IF Head(inbox).kind = "event"
          THEN /\ shown' = [shown EXCEPT ![c] = @ + 1]
               /\ UNCHANGED <<pending, promise>>
          ELSE /\ pending' = pending \ {c}
               /\ promise' = IF c \in pending
                               THEN [promise EXCEPT ![c] = "answered"]
                               ELSE promise
               /\ UNCHANGED shown
  /\ UNCHANGED hostVars /\ UNCHANGED downVars

------------------------------------------------------------------------------
(* The UI thread                                                           *)

\* A message to a page that is there is dropped: nobody retries or is told.
Lose(m) == lost' = [lost EXCEPT ![m] = @ + 1]

\* PostMessageToWeb: a heap payload in the window's queue, on any thread.  The
\* payload is deleted when PostMessageW fails, as it does without the window and
\* may do with it (a full queue).
Post(m) ==
  \/ window /\ outbox' = Append(outbox, m) /\ UNCHANGED lost
  \/ window /\ Lose(m) /\ UNCHANGED outbox
  \/ ~window /\ UNCHANGED <<outbox, lost>>

\* DispatchFromOrigin: a slow method is counted and queued by EnqueueAsync, the
\* others run at once.  The pool serves several threads, so nothing relies on
\* the order in which it takes its tasks.
Dispatch(c) ==
  /\ window /\ UiFree /\ stage[c] = "sent"
  /\ IF c \in Async
       THEN stage' = [stage EXCEPT ![c] = "queued"] /\ active' = active + 1
       ELSE stage' = [stage EXCEPT ![c] = "running"] /\ UNCHANGED active
  /\ UNCHANGED <<posted, outbox, inbox, lost>>
  /\ UNCHANGED clientVars /\ UNCHANGED downVars

\* DeliverWebMessage; the result of PostWebMessageAsString is not looked at.
Deliver ==
  /\ window /\ UiFree /\ outbox # <<>>
  /\ outbox' = Tail(outbox)
  /\ \/ inbox' = Append(inbox, Head(outbox)) /\ UNCHANGED lost
     \/ Lose(Head(outbox)) /\ UNCHANGED inbox
  /\ UNCHANGED <<stage, posted, active>>
  /\ UNCHANGED clientVars /\ UNCHANGED downVars

\* Mutant: a worker waits for a window that is gone.
UiServesWindow(c) ==
  /\ stage[c] = "waiting_ui" /\ UiFree /\ window
  /\ stage' = [stage EXCEPT ![c] = "running"]
  /\ UNCHANGED <<posted, outbox, inbox, lost, active>>
  /\ UNCHANGED clientVars /\ UNCHANGED downVars

\* WM_APP_REFRESH_PLUGIN_MAPPINGS: the UI thread answers a worker that waits in
\* SendMessageW; once the window is destroyed the call returns by itself.
UiServes(c) ==
  /\ stage[c] = "waiting_ui"
  /\ UiFree \/ ~window
  /\ stage' = [stage EXCEPT ![c] = "running"]
  /\ UNCHANGED <<posted, outbox, inbox, lost, active>>
  /\ UNCHANGED clientVars /\ UNCHANGED downVars

------------------------------------------------------------------------------
(* Handlers, in the pool and on the UI thread                              *)

\* Mutant: a task dropped at shutdown is not counted as finished.
TakeTaskUncounted(c) ==
  /\ stage[c] = "queued"
  /\ Cardinality(At(InHandler) \cap Async) < PoolSize
  /\ stage' = [stage EXCEPT ![c] = IF alive THEN "running" ELSE "dropped"]
  /\ UNCHANGED <<posted, outbox, inbox, lost, active>>
  /\ UNCHANGED clientVars /\ UNCHANGED downVars

\* A worker takes a task; the wrapper of EnqueueAsync drops it when the bridge
\* is no longer alive, and counts it as finished.
TakeTask(c) ==
  /\ stage[c] = "queued"
  /\ Cardinality(At(InHandler) \cap Async) < PoolSize
  /\ IF alive
       THEN stage' = [stage EXCEPT ![c] = "running"] /\ UNCHANGED active
       ELSE stage' = [stage EXCEPT ![c] = "dropped"] /\ active' = active - 1
  /\ UNCHANGED <<posted, outbox, inbox, lost>>
  /\ UNCHANGED clientVars /\ UNCHANGED downVars

\* A handler posts a progress event through PostEventToUi; without a page the
\* event changes nothing.
PostEvent(c) ==
  /\ stage[c] = "running" /\ c \in Reporting /\ posted[c] < MaxEvents
  /\ alive /\ window
  /\ posted' = [posted EXCEPT ![c] = @ + 1]
  /\ Post(Event(c))
  /\ UNCHANGED <<stage, inbox, active>>
  /\ UNCHANGED clientVars /\ UNCHANGED downVars

\* RequestPluginMappingsRefresh blocks the worker until the UI thread serves it.
WaitForUi(c) ==
  /\ stage[c] = "running" /\ c \in UsesUi
  /\ stage' = [stage EXCEPT ![c] = "waiting_ui"]
  /\ UNCHANGED <<posted, outbox, inbox, lost, active>>
  /\ UNCHANGED clientVars /\ UNCHANGED downVars

\* Mutant: an error path returns without PostError.
PostAnswerForgotten(c) ==
  /\ stage[c] = "running"
  /\ stage' = [stage EXCEPT ![c] = "answering"]
  /\ UNCHANGED <<posted, outbox, inbox, lost, active>>
  /\ UNCHANGED clientVars /\ UNCHANGED downVars

\* Mutant: the answer is given to WebView2 from the worker itself.
PostAnswerDirect(c) ==
  /\ stage[c] = "running"
  /\ stage' = [stage EXCEPT ![c] = "answering"]
  /\ inbox' = IF alive /\ window THEN Append(inbox, Answer(c)) ELSE inbox
  /\ UNCHANGED <<posted, outbox, lost, active>>
  /\ UNCHANGED clientVars /\ UNCHANGED downVars

\* The handler returns or throws: PostResult or PostError, unless the bridge is
\* no longer alive.
PostAnswer(c) ==
  /\ stage[c] = "running"
  /\ stage' = [stage EXCEPT ![c] = "answering"]
  /\ IF alive THEN Post(Answer(c)) ELSE UNCHANGED <<outbox, lost>>
  /\ UNCHANGED <<posted, inbox, active>>
  /\ UNCHANGED clientVars /\ UNCHANGED downVars

\* FinishAsyncTask, run by the scope guard after the answer.
FinishTask(c) ==
  /\ stage[c] = "answering"
  /\ stage' = [stage EXCEPT ![c] = "done"]
  /\ active' = IF c \in Async /\ active > 0 THEN active - 1 ELSE active
  /\ UNCHANGED <<posted, outbox, inbox, lost>>
  /\ UNCHANGED clientVars /\ UNCHANGED downVars

------------------------------------------------------------------------------
(* Shutdown, on the UI thread                                              *)

\* The window is destroyed first, and its queue with it; the message loop ends
\* and the destructors run.
DestroyWindow ==
  /\ window /\ UiFree
  /\ window' = FALSE
  /\ outbox' = <<>> /\ inbox' = <<>>
  /\ UNCHANGED <<stage, posted, lost, active, alive, teardown>>
  /\ UNCHANGED clientVars

\* ~IpcBridge: no task is accepted any more and *m_alive is cleared.
StartDrain ==
  /\ ~window /\ teardown = "none"
  /\ alive' = FALSE /\ teardown' = "draining"
  /\ UNCHANGED <<inbox, window>> /\ UNCHANGED clientVars /\ UNCHANGED hostVars

\* Mutant: the destructor does not wait for the pool.
CloseDatabaseNow ==
  /\ teardown = "draining"
  /\ teardown' = "closed"
  /\ UNCHANGED <<inbox, window, alive>> /\ UNCHANGED clientVars /\ UNCHANGED hostVars

\* The wait for m_activeAsyncTasks = 0; then the members the handlers use are
\* stopped and the database is closed.
CloseDatabase ==
  /\ teardown = "draining" /\ active = 0
  /\ teardown' = "closed"
  /\ UNCHANGED <<inbox, window, alive>> /\ UNCHANGED clientVars /\ UNCHANGED hostVars

------------------------------------------------------------------------------

HandlerStep(c) ==
  PostEvent(c) \/ WaitForUi(c) \/ PostAnswer(c) \/ FinishTask(c)

Next ==
  \/ \E c \in Calls :
       \/ Call(c) \/ Timeout(c) \/ Dispatch(c) \/ UiServes(c) \/ TakeTask(c)
       \/ HandlerStep(c)
  \/ CancelAll \/ HandleMessage \/ Deliver
  \/ DestroyWindow \/ StartDrain \/ CloseDatabase

Spec == Init /\ [][Next]_vars

\* Timers fire, the UI thread pumps its messages, the pool takes its tasks and
\* a handler comes to its end.  Nothing obliges the user to quit.
FairSpec ==
  /\ Spec
  /\ WF_vars(HandleMessage) /\ WF_vars(Deliver)
  /\ WF_vars(StartDrain) /\ WF_vars(CloseDatabase)
  /\ \A c \in Calls :
       /\ WF_vars(Timeout(c)) /\ WF_vars(Dispatch(c))
       /\ WF_vars(UiServes(c)) /\ WF_vars(TakeTask(c))
       /\ SF_vars(PostAnswer(c)) /\ WF_vars(FinishTask(c))

------------------------------------------------------------------------------
(* Properties                                                              *)

Stages == {"none", "sent", "queued", "dropped", "done"} \cup InHandler

\* Every variable keeps its type.
TypeOK ==
  /\ pending \subseteq Calls
  /\ promise \in [Calls -> {"none", "pending", "answered", "rejected"}]
  /\ stage \in [Calls -> Stages]
  /\ posted \in [Calls -> 0 .. MaxEvents] /\ shown \in [Calls -> 0 .. MaxEvents]
  /\ outbox \in Seq(Messages) /\ inbox \in Seq(Messages)
  /\ lost \in [Messages -> Nat]
  /\ active \in Nat
  /\ window \in BOOLEAN /\ alive \in BOOLEAN
  /\ teardown \in {"none", "draining", "closed"}

\* The pending table and the promises agree: no promise is left without a slot
\* that can settle it (ipc.ts handle, callInner and cancelAll).
SlotsMatchPromises == \A c \in Calls : c \in pending <=> promise[c] = "pending"

\* m_activeAsyncTasks counts the tasks that are queued or running, so the guard
\* against underflow in FinishAsyncTask never hides a lost or doubled task.
CountIsExact == active = Cardinality(Counted)

\* After ~IpcBridge has closed the database no handler runs in the pool: a
\* worker can never touch the bridge or the database of a dead host.
NoHandlerAfterClose == teardown = "closed" => At(InHandler) = {}

\* An answer never overtakes the progress events its handler posted before it:
\* PostMessageToWeb marshals every message the same way.  When it arrives, each
\* event has been shown or was dropped on its way; none is still to come.
ProgressBeforeAnswer ==
  \A c \in Calls :
    promise[c] = "answered" => shown[c] + lost[Event(c)] = posted[c]

\* The channel implements the contract of ipc.call.
ranCalls == At({"answering", "done"})
Contract == INSTANCE CallContract WITH ran <- ranCalls
ImplementsContract == Contract!Spec

\* Every promise settles as long as the page lives, but for a call without a
\* timer whose answer was dropped: a timed call survives even that.
PromisesSettle ==
  \A c \in Calls :
    promise[c] = "pending" ~>
      \/ promise[c] # "pending" \/ ~window
      \/ c \in Untimed /\ lost[Answer(c)] > 0

\* Every promise settles as long as the page lives, with no exception.  The code
\* does not keep this: ipc.ts gives some methods no timer and WebViewHost drops
\* an answer it cannot post, so a migration may stay open on the page for ever.
PromisesAlwaysSettle ==
  \A c \in Calls : promise[c] = "pending" ~> (promise[c] # "pending" \/ ~window)

\* Once the window is gone the process can end: the destructor's wait for the
\* pool is never a deadlock, even with workers waiting for the UI thread.
ShutdownCompletes == ~window ~> teardown = "closed"
==============================================================================
