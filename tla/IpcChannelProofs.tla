-------------------------- MODULE IpcChannelProofs --------------------------
(***************************************************************************)
(* Proofs about IpcChannel, for any number of calls and any size of the    *)
(* pool: the client's table matches its promises, the count of tasks is    *)
(* exact, nothing runs after the shutdown, and the channel implements the  *)
(* contract of ipc.call.                                                   *)
(***************************************************************************)
EXTENDS IpcChannel, FiniteSetTheorems, FunctionTheorems, SequenceTheorems, TLAPS

(* The types the arguments below need, and that the host knows only calls   *)
(* the page has made; that no event is shown twice is a matter of counting  *)
(* messages, and no part of them.                                           *)
Types ==
  /\ pending \subseteq Calls
  /\ promise \in [Calls -> {"none", "pending", "answered", "rejected"}]
  /\ stage \in [Calls -> Stages]
  /\ \A c \in Calls : /\ stage[c] = "queued" => c \in Async
                      /\ stage[c] # "none" => promise[c] # "none"
  /\ outbox \in Seq(Messages) /\ inbox \in Seq(Messages)
  /\ lost \in [Messages -> Nat]
  /\ active \in Nat
  /\ window \in BOOLEAN /\ alive \in BOOLEAN
  /\ teardown \in {"none", "draining", "closed"}

LEMMA MessageTypes ==
  /\ \A c \in Calls : /\ Answer(c) \in Messages /\ Event(c) \in Messages
                      /\ Answer(c).call = c /\ Answer(c).kind = "answer"
                      /\ Event(c).call = c /\ Event(c).kind = "event"
  /\ \A m \in Messages : m.call \in Calls /\ m.kind \in {"answer", "event"}
<1>1. \A c \in Calls : /\ Answer(c).call = c /\ Answer(c).kind = "answer"
                       /\ Event(c).call = c /\ Event(c).kind = "event"
  BY DEF Answer, Event
<1>2. \A c \in Calls : Answer(c) \in Messages /\ Event(c) \in Messages
  BY DEF Messages
<1>3. \A m \in Messages : \E c \in Calls : m = Answer(c) \/ m = Event(c)
  BY DEF Messages
<1> QED
  BY <1>1, <1>2, <1>3

\* A message is posted, or dropped and counted, or there is no page to miss it.
LEMMA PostCases ==
  ASSUME Types, NEW m \in Messages, Post(m)
  PROVE  /\ outbox' \in Seq(Messages) /\ lost' \in [Messages -> Nat]
         /\ \/ outbox' = Append(outbox, m) /\ lost' = lost
            \/ outbox' = outbox /\ lost' = [lost EXCEPT ![m] = @ + 1]
            \/ ~window /\ outbox' = outbox /\ lost' = lost
<1>1. outbox \in Seq(Messages) /\ Append(outbox, m) \in Seq(Messages)
  BY AppendProperties DEF Types
<1>2. lost \in [Messages -> Nat] /\ lost[m] + 1 \in Nat
  BY DEF Types
<1>3. [lost EXCEPT ![m] = @ + 1] \in [Messages -> Nat]
  BY <1>2
<1> QED
  BY <1>1, <1>2, <1>3 DEF Post, Lose

\* A delivered message reaches the page's queue, or is dropped and counted.
LEMMA DeliverCases ==
  ASSUME Types, Deliver
  PROVE  /\ outbox # <<>> /\ outbox' = Tail(outbox) /\ Head(outbox) \in Messages
         /\ outbox' \in Seq(Messages) /\ inbox' \in Seq(Messages)
         /\ lost' \in [Messages -> Nat]
         /\ \/ inbox' = Append(inbox, Head(outbox)) /\ lost' = lost
            \/ inbox' = inbox /\ lost' = [lost EXCEPT ![Head(outbox)] = @ + 1]
<1> DEFINE m == Head(outbox)
<1>1. /\ outbox # <<>> /\ outbox' = Tail(outbox)
      /\ \/ inbox' = Append(inbox, m) /\ lost' = lost
         \/ inbox' = inbox /\ lost' = [lost EXCEPT ![m] = @ + 1]
  BY DEF Deliver, Lose
<1>2. outbox \in Seq(Messages) /\ inbox \in Seq(Messages) /\ lost \in [Messages -> Nat]
  BY DEF Types
<1>3. m \in Messages /\ Tail(outbox) \in Seq(Messages)
  BY <1>1, <1>2, HeadTailProperties
<1>4. Append(inbox, m) \in Seq(Messages)
  BY <1>2, <1>3, AppendProperties
<1>5. [lost EXCEPT ![m] = @ + 1] \in [Messages -> Nat]
  <2> HIDE DEF m
  <2> QED
    BY <1>2, <1>3
<1> QED
  BY <1>1, <1>2, <1>3, <1>4, <1>5

LEMMA QueueTypes ==
  /\ \A s \in Seq(Messages) : s # <<>> => Head(s) \in Messages /\ Tail(s) \in Seq(Messages)
  /\ \A s \in Seq(Messages), m \in Messages : Append(s, m) \in Seq(Messages)
  BY HeadTailProperties, AppendProperties

LEMMA TypesInit == Init => Types
  BY EmptySeq DEF Init, Types, Stages
------------------------------------------------------------------------------
(* The count of tasks                                                      *)

LEMMA CountedFinite ==
  /\ IsFiniteSet(Counted) /\ Cardinality(Counted) \in Nat
  /\ IsFiniteSet(Counted') /\ Cardinality(Counted') \in Nat
<1>1. Counted \subseteq Calls /\ Counted' \subseteq Calls /\ IsFiniteSet(Calls)
  BY IpcAssumption DEF Counted, At
<1> QED
  BY <1>1, FS_Subset, FS_CardinalityType

LEMMA CountStep == Types /\ CountIsExact /\ [Next]_vars => CountIsExact' /\ active' \in Nat
<1> SUFFICES ASSUME Types, CountIsExact, [Next]_vars
             PROVE  active' = Cardinality(Counted')
  BY CountedFinite DEF CountIsExact
<1>1. ASSUME NEW c \in Calls, Dispatch(c), c \in Async PROVE active' = Cardinality(Counted')
  <2>1. c \notin Counted /\ Counted' = Counted \cup {c}
    BY <1>1 DEF Types, Dispatch, Counted, At, InHandler
  <2> QED
    BY <1>1, <2>1, CountedFinite, FS_AddElement DEF Dispatch, CountIsExact
<1>2. ASSUME NEW c \in Calls, c \in Counted,
             \/ TakeTask(c) /\ ~alive
             \/ FinishTask(c)
      PROVE  active' = Cardinality(Counted')
  <2>1. Counted' = Counted \ {c}
    BY <1>2 DEF Types, TakeTask, FinishTask, Counted, At, InHandler
  <2>2. Cardinality(Counted') = Cardinality(Counted) - 1 /\ Cardinality(Counted) # 0
    BY <1>2, <2>1, CountedFinite, FS_RemoveElement, FS_EmptySet
  <2>3. active > 0 /\ active \in Nat
    BY <2>2, CountedFinite DEF CountIsExact
  <2>4. active' = active - 1
    BY <1>2, <2>3 DEF TakeTask, FinishTask, Counted
  <2> QED
    BY <2>2, <2>4 DEF CountIsExact
<1>3. ASSUME UNCHANGED active, Counted' = Counted PROVE active' = Cardinality(Counted')
  BY <1>3 DEF CountIsExact
<1>4. ASSUME NEW c \in Calls, Dispatch(c) \/ UiServes(c) \/ TakeTask(c) \/ HandlerStep(c)
      PROVE  active' = Cardinality(Counted')
  <2>1. CASE Dispatch(c) /\ c \notin Async
    BY <1>3, <2>1 DEF Types, Dispatch, Counted, At
  <2>2. CASE UiServes(c) \/ WaitForUi(c) \/ PostAnswer(c) \/ (TakeTask(c) /\ alive)
    <3>1. UNCHANGED active /\ Counted' = Counted
      BY <2>2
      DEF Types, UiServes, WaitForUi, PostAnswer, TakeTask, Counted, At, InHandler
    <3> QED
      BY <1>3, <3>1
  <2>3. CASE PostEvent(c)
    BY <1>3, <2>3 DEF PostEvent, Counted, At
  <2>4. CASE FinishTask(c) /\ c \notin Async
    BY <1>3, <2>4 DEF Types, FinishTask, Counted, At
  <2>5. CASE FinishTask(c) /\ c \in Async
    BY <1>2, <2>5 DEF FinishTask, Counted, At, InHandler
  <2>6. CASE TakeTask(c) /\ ~alive /\ c \in Async
    BY <1>2, <2>6 DEF TakeTask, Counted, At
  <2>7. c \notin Async => ~TakeTask(c)
    BY DEF Types, TakeTask
  <2> QED
    BY <1>1, <1>4, <2>1, <2>2, <2>3, <2>4, <2>5, <2>6, <2>7 DEF HandlerStep
<1>5. ASSUME NEW c \in Calls, Call(c) PROVE active' = Cardinality(Counted')
  <2>1. UNCHANGED active /\ Counted' = Counted
    BY <1>5 DEF Call, Types, Counted, At, InHandler
  <2> QED
    BY <1>3, <2>1
<1>6. CASE UNCHANGED <<stage, active>>
  BY <1>3, <1>6 DEF Counted, At
<1> QED
  BY <1>4, <1>5, <1>6
  DEF Next, Timeout, CancelAll, HandleMessage, Deliver, DestroyWindow, StartDrain,
      CloseDatabase, hostVars, vars
------------------------------------------------------------------------------
(* Types                                                                   *)

LEMMA TypesStep == Types /\ CountIsExact /\ [Next]_vars => Types'
<1> SUFFICES ASSUME Types, CountIsExact, [Next]_vars PROVE Types'
  OBVIOUS
<1> USE DEF clientVars, hostVars, downVars
<1>1. ASSUME NEW c \in Calls, Call(c) \/ Timeout(c) PROVE Types'
  BY <1>1 DEF Types, Call, Timeout, Stages
<1>2. ASSUME NEW c \in Calls, Dispatch(c) \/ UiServes(c) \/ WaitForUi(c) PROVE Types'
  BY <1>2 DEF Types, Dispatch, UiServes, WaitForUi, Stages, InHandler
<1>3. ASSUME NEW c \in Calls, TakeTask(c) \/ FinishTask(c) PROVE Types'
  <2>1. active' \in Nat
    BY CountStep
  <2> QED
    BY <1>3, <2>1 DEF Types, TakeTask, FinishTask, Stages, InHandler
<1>4. ASSUME NEW c \in Calls, PostEvent(c) \/ PostAnswer(c) PROVE Types'
  <2>1. outbox' \in Seq(Messages) /\ lost' \in [Messages -> Nat]
    BY <1>4, PostCases, MessageTypes DEF PostEvent, PostAnswer, Types
  <2> QED
    BY <1>4, <2>1 DEF Types, PostEvent, PostAnswer, Stages, InHandler
<1>5. CASE CancelAll
  BY <1>5 DEF Types, CancelAll
<1>6. CASE HandleMessage
  <2>1. /\ inbox \in Seq(Messages) /\ inbox # <<>> /\ inbox' = Tail(inbox)
    BY <1>6 DEF Types, HandleMessage
  <2>2. inbox' \in Seq(Messages) /\ Head(inbox).call \in Calls
    BY <2>1, QueueTypes, MessageTypes
  <2> QED
    BY <1>6, <2>2 DEF Types, HandleMessage
<1>7. CASE Deliver
  <2>1. /\ outbox' \in Seq(Messages) /\ inbox' \in Seq(Messages)
        /\ lost' \in [Messages -> Nat]
    BY <1>7, DeliverCases
  <2> QED
    BY <1>7, <2>1 DEF Types, Deliver
<1>8. CASE DestroyWindow \/ StartDrain \/ CloseDatabase
  BY <1>8, EmptySeq DEF Types, DestroyWindow, StartDrain, CloseDatabase
<1>9. CASE UNCHANGED vars
  BY <1>9 DEF Types, vars
<1> QED
  BY <1>1, <1>2, <1>3, <1>4, <1>5, <1>6, <1>7, <1>8, <1>9 DEF Next, HandlerStep

LEMMA CountInit == Init => CountIsExact
<1> SUFFICES ASSUME Init PROVE CountIsExact
  OBVIOUS
<1>1. Counted = {}
  BY DEF Init, Counted, At, InHandler
<1> QED
  BY <1>1, FS_EmptySet DEF Init, CountIsExact

LEMMA Counting == Spec => [](Types /\ CountIsExact)
  BY TypesInit, CountInit, TypesStep, CountStep, PTL DEF Spec

(***************************************************************************)
(* m_activeAsyncTasks is the number of tasks queued or running, however    *)
(* many there are and wherever the shutdown finds them                     *)
(* (IpcBridge.cpp:1041-1071).                                              *)
(***************************************************************************)
THEOREM CountAlwaysExact == Spec => []CountIsExact
  BY Counting, PTL
------------------------------------------------------------------------------
(* The shutdown                                                            *)

(* The destructor begins on the UI thread after the window is gone, so no   *)
(* inline handler runs then and none begins; once the count is zero after   *)
(* *m_alive was cleared, no task is left in the pool either.                *)

Shutdown == /\ teardown # "none" => ~window
            /\ ~window => At(InHandler) \cap Inline = {}
            /\ teardown = "closed" => Counted = {}

LEMMA ShutdownStep == Types /\ CountIsExact /\ Shutdown /\ [Next]_vars => Shutdown'
<1> SUFFICES ASSUME Types, CountIsExact, Shutdown, [Next]_vars PROVE Shutdown'
  OBVIOUS
<1> USE DEF clientVars, hostVars, downVars
<1>1. ASSUME NEW c \in Calls, Call(c) \/ Dispatch(c) PROVE Shutdown'
  <2>1. window /\ window' /\ teardown' = teardown
    BY <1>1 DEF Call, Dispatch
  <2> QED
    BY <2>1 DEF Shutdown, Types
<1>2. ASSUME NEW c \in Calls, UiServes(c) \/ TakeTask(c) \/ WaitForUi(c) \/ PostAnswer(c)
                              \/ FinishTask(c)
      PROVE  Shutdown'
  <2>1. UNCHANGED <<window, teardown>> /\ stage' = [stage EXCEPT ![c] = stage'[c]]
    BY <1>2 DEF UiServes, TakeTask, WaitForUi, PostAnswer, FinishTask, Types
  <2>2. stage'[c] \in InHandler => stage[c] \in InHandler \/ c \in Async
    BY <1>2
    DEF UiServes, TakeTask, WaitForUi, PostAnswer, FinishTask, Types, InHandler
  <2>3. At(InHandler)' \cap Inline \subseteq At(InHandler) \cap Inline
    BY <2>1, <2>2 DEF At, Inline, Types
  <2>4. Counted' \subseteq Counted
    BY <1>2, <2>1
    DEF UiServes, TakeTask, WaitForUi, PostAnswer, FinishTask, Types, Counted, At, InHandler
  <2> QED
    BY <2>1, <2>3, <2>4 DEF Shutdown
<1>3. CASE DestroyWindow
  BY <1>3 DEF DestroyWindow, UiFree, Shutdown, At
<1>4. CASE StartDrain
  BY <1>4 DEF StartDrain, Shutdown, At
<1>5. CASE CloseDatabase
  <2>1. Counted = {}
    BY <1>5, CountedFinite, FS_EmptySet DEF CloseDatabase, CountIsExact
  <2> QED
    BY <1>5, <2>1 DEF CloseDatabase, Shutdown, Counted, At
<1>6. CASE UNCHANGED <<window, teardown, stage>>
  BY <1>6 DEF Shutdown, Counted, At
<1> QED
  BY <1>1, <1>2, <1>3, <1>4, <1>5, <1>6
  DEF Next, HandlerStep, PostEvent, Timeout, CancelAll, HandleMessage, Deliver, vars

(***************************************************************************)
(* When ~IpcBridge closes the database no handler runs, in the pool or on  *)
(* the UI thread, for any number of tasks and of threads                   *)
(* (IpcBridge.cpp:455-501).                                                *)
(***************************************************************************)
THEOREM NothingRunsAfterClose == Spec => []NoHandlerAfterClose
<1>1. Init => Shutdown
  BY DEF Init, Shutdown, At, InHandler
<1>2. Shutdown => NoHandlerAfterClose
  BY DEF Shutdown, NoHandlerAfterClose, Counted, At, Inline
<1> QED
  BY <1>1, <1>2, Counting, ShutdownStep, PTL DEF Spec
------------------------------------------------------------------------------
(* The page's table and the contract                                       *)

LEMMA SlotsStep == Types /\ SlotsMatchPromises /\ [Next]_vars => SlotsMatchPromises'
<1> SUFFICES ASSUME Types, SlotsMatchPromises, [Next]_vars PROVE SlotsMatchPromises'
  OBVIOUS
<1>1. ASSUME NEW c \in Calls, Call(c) \/ Timeout(c) PROVE SlotsMatchPromises'
  BY <1>1 DEF Call, Timeout, Types, SlotsMatchPromises
<1>2. CASE CancelAll
  BY <1>2 DEF CancelAll, Types, SlotsMatchPromises
<1>3. CASE HandleMessage
  <2>1. Head(inbox).call \in Calls
    BY <1>3, QueueTypes, MessageTypes DEF HandleMessage, Types
  <2> QED
    BY <1>3, <2>1 DEF HandleMessage, Types, SlotsMatchPromises
<1>4. CASE UNCHANGED <<pending, promise>>
  BY <1>4 DEF SlotsMatchPromises
<1> QED
  BY <1>1, <1>2, <1>3, <1>4
  DEF Next, HandlerStep, Dispatch, UiServes, TakeTask, PostEvent, WaitForUi, PostAnswer,
      FinishTask, Deliver, DestroyWindow, StartDrain, CloseDatabase, clientVars, vars

LEMMA SlotsInit == Init => SlotsMatchPromises
  BY DEF Init, SlotsMatchPromises

(***************************************************************************)
(* A promise of ipc.call is open exactly while its slot is in the table:   *)
(* whatever timers, answers and resets come in whatever order, none is     *)
(* left that nothing can settle (ipc.ts handle, callInner, cancelAll).     *)
(***************************************************************************)
THEOREM SlotsAlwaysMatch == Spec => []SlotsMatchPromises
  BY SlotsInit, SlotsStep, Counting, PTL DEF Spec

(* Only handlers that ran have answers on the way.                          *)

Honest(q) == \A i \in 1 .. Len(q) : q[i].kind = "answer" => q[i].call \in ranCalls

AnswersHonest == Honest(outbox) /\ Honest(inbox)

LEMMA HonestAppend ==
  ASSUME NEW q \in Seq(Messages), NEW m \in Messages, Honest(q),
         m.kind = "answer" => m.call \in ranCalls
  PROVE  Honest(Append(q, m))
<1>1. /\ Len(Append(q, m)) = Len(q) + 1 /\ Len(q) \in Nat
      /\ \A i \in 1 .. Len(q) : Append(q, m)[i] = q[i]
      /\ Append(q, m)[Len(q) + 1] = m
  BY AppendProperties, LenProperties
<1> QED
  BY <1>1 DEF Honest

LEMMA HonestTail ==
  ASSUME NEW q \in Seq(Messages), q # <<>>, Honest(q)
  PROVE  /\ Honest(Tail(q))
         /\ Head(q).kind = "answer" => Head(q).call \in ranCalls
<1>1. /\ Len(Tail(q)) = Len(q) - 1 /\ Len(q) \in Nat \ {0}
      /\ \A i \in 1 .. Len(Tail(q)) : Tail(q)[i] = q[i + 1]
      /\ Head(q) = q[1]
  BY HeadTailProperties, EmptySeq
<1> QED
  BY <1>1 DEF Honest

\* A handler that ran stays one that ran.
LEMMA RanGrows == Types /\ [Next]_vars => ranCalls \subseteq ranCalls'
<1> SUFFICES ASSUME Types, [Next]_vars PROVE ranCalls \subseteq ranCalls'
  OBVIOUS
<1>1. ASSUME NEW c \in Calls, \/ Call(c) \/ Dispatch(c) \/ UiServes(c) \/ TakeTask(c)
                              \/ WaitForUi(c) \/ PostAnswer(c) \/ FinishTask(c)
      PROVE  ranCalls \subseteq ranCalls'
  BY <1>1
  DEF Call, Dispatch, UiServes, TakeTask, WaitForUi, PostAnswer, FinishTask, Types,
      ranCalls, At
<1>2. CASE UNCHANGED stage
  BY <1>2 DEF ranCalls, At
<1> QED
  BY <1>1, <1>2
  DEF Next, HandlerStep, Timeout, PostEvent, CancelAll, HandleMessage, Deliver,
      DestroyWindow, StartDrain, CloseDatabase, hostVars, vars

LEMMA HonestStep == Types /\ AnswersHonest /\ [Next]_vars => AnswersHonest'
<1> SUFFICES ASSUME Types, AnswersHonest, [Next]_vars PROVE AnswersHonest'
  OBVIOUS
<1>1. ranCalls \subseteq ranCalls'
  BY RanGrows
<1>2. ASSUME NEW q, Honest(q)
      PROVE  \A i \in 1 .. Len(q) : q[i].kind = "answer" => q[i].call \in ranCalls'
  BY <1>1, <1>2 DEF Honest
<1>3. CASE UNCHANGED <<outbox, inbox>>
  BY <1>2, <1>3 DEF AnswersHonest, Honest
<1>4. outbox \in Seq(Messages) /\ inbox \in Seq(Messages)
  BY DEF Types
<1>5. CASE HandleMessage
  <2>1. inbox # <<>> /\ inbox' = Tail(inbox) /\ UNCHANGED <<outbox, stage>>
    BY <1>5 DEF HandleMessage, hostVars
  <2>2. Honest(Tail(inbox))
    BY <1>4, <2>1, HonestTail DEF AnswersHonest
  <2> QED
    BY <2>1, <2>2 DEF AnswersHonest, Honest, ranCalls, At
<1>6. CASE Deliver
  <2>1. /\ outbox # <<>> /\ outbox' = Tail(outbox) /\ UNCHANGED stage
        /\ inbox' = Append(inbox, Head(outbox)) \/ inbox' = inbox
    BY <1>6, DeliverCases DEF Deliver
  <2>2. Honest(Tail(outbox)) /\ Honest(inbox) /\ Honest(Append(inbox, Head(outbox)))
    BY <1>4, <2>1, HonestTail, HonestAppend, QueueTypes DEF AnswersHonest
  <2> QED
    BY <2>1, <2>2 DEF AnswersHonest, Honest, ranCalls, At
<1>7. ASSUME NEW c \in Calls, PostEvent(c), outbox' # outbox PROVE AnswersHonest'
  <2>1. outbox' = Append(outbox, Event(c)) /\ UNCHANGED <<inbox, stage>>
    BY <1>7 DEF PostEvent, Post
  <2>2. Honest(Append(outbox, Event(c)))
    BY <1>4, HonestAppend, MessageTypes DEF AnswersHonest
  <2> QED
    BY <2>1, <2>2 DEF AnswersHonest, Honest, ranCalls, At
<1>8. ASSUME NEW c \in Calls, PostAnswer(c), outbox' # outbox PROVE AnswersHonest'
  <2>1. outbox' = Append(outbox, Answer(c)) /\ UNCHANGED inbox
    BY <1>8 DEF PostAnswer, Post
  <2>2. c \in ranCalls'
    BY <1>8 DEF PostAnswer, Types, ranCalls, At
  <2>3. Honest(outbox)'
    <3>1. /\ Len(outbox') = Len(outbox) + 1 /\ Len(outbox) \in Nat
          /\ \A i \in 1 .. Len(outbox) : outbox'[i] = outbox[i]
          /\ outbox'[Len(outbox) + 1] = Answer(c)
      BY <1>4, <2>1, MessageTypes, AppendProperties, LenProperties
    <3>2. \A i \in 1 .. Len(outbox) :
            outbox[i].kind = "answer" => outbox[i].call \in ranCalls'
      BY <1>2 DEF AnswersHonest
    <3>3. Answer(c).call \in ranCalls'
      BY <2>2, MessageTypes
    <3>4. \A i \in 1 .. Len(outbox') :
            outbox'[i].kind = "answer" => outbox'[i].call \in ranCalls'
      BY <3>1, <3>2, <3>3
    <3> QED
      BY <3>4 DEF Honest
  <2>4. Honest(inbox)'
    BY <1>2, <2>1 DEF AnswersHonest, Honest
  <2> QED
    BY <2>3, <2>4 DEF AnswersHonest
<1>9. CASE DestroyWindow
  BY <1>9 DEF DestroyWindow, AnswersHonest, Honest
<1> QED
  BY <1>3, <1>5, <1>6, <1>7, <1>8, <1>9
  DEF Next, HandlerStep, Call, Timeout, Dispatch, UiServes, TakeTask, WaitForUi,
      PostEvent, PostAnswer, FinishTask, CancelAll, StartDrain, CloseDatabase, hostVars, vars

LEMMA HonestInit == Init => AnswersHonest
  BY DEF Init, AnswersHonest, Honest

\* Each step of the channel is one of the contract, or changes nothing of it.
LEMMA ContractStep ==
  Types /\ SlotsMatchPromises /\ AnswersHonest /\ [Next]_vars
    => [Contract!Next]_<<promise, ranCalls>>
<1> SUFFICES ASSUME Types, SlotsMatchPromises, AnswersHonest, [Next]_vars
             PROVE  [Contract!Next]_<<promise, ranCalls>>
  OBVIOUS
<1>1. ASSUME NEW c \in Calls, Call(c) PROVE Contract!Issue(c)
  <2>1. ranCalls' = ranCalls
    BY <1>1 DEF Call, Types, ranCalls, At
  <2> QED
    BY <1>1, <2>1 DEF Call, Contract!Issue
<1>2. ASSUME NEW c \in Calls, Timeout(c) PROVE Contract!GiveUp({c})
  <2>1. promise[c] = "pending" /\ promise' = [promise EXCEPT ![c] = "rejected"]
    BY <1>2 DEF Timeout, SlotsMatchPromises
  <2>2. promise' = [d \in Calls |-> IF d \in {c} THEN "rejected" ELSE promise[d]]
    BY <2>1 DEF Types
  <2>3. ranCalls' = ranCalls
    BY <1>2 DEF Timeout, hostVars, ranCalls, At
  <2> QED
    BY <2>1, <2>2, <2>3 DEF Contract!GiveUp
<1>3. CASE CancelAll
  <2>1. ranCalls' = ranCalls
    BY <1>3 DEF CancelAll, hostVars, ranCalls, At
  <2>2. pending \in SUBSET Calls /\ Contract!GiveUp(pending)
    BY <1>3, <2>1 DEF CancelAll, Types, SlotsMatchPromises, Contract!GiveUp
  <2> QED
    BY <2>2 DEF Contract!Next
<1>4. CASE HandleMessage
  <2> DEFINE m == Head(inbox)
  <2>1. ranCalls' = ranCalls
    BY <1>4 DEF HandleMessage, hostVars, ranCalls, At
  <2>2. CASE m.kind = "answer" /\ m.call \in pending
    <3>1. m.call \in Calls /\ m.call \in ranCalls
      BY <1>4, <2>2, QueueTypes, MessageTypes, HonestTail
      DEF HandleMessage, Types, AnswersHonest
    <3>2. Contract!Answer(m.call)
      BY <1>4, <2>1, <2>2, <3>1 DEF HandleMessage, SlotsMatchPromises, Contract!Answer
    <3> QED
      BY <3>1, <3>2 DEF Contract!Next
  <2>3. CASE ~(m.kind = "answer" /\ m.call \in pending)
    <3>1. m.kind \in {"answer", "event"}
      BY <1>4, QueueTypes, MessageTypes DEF HandleMessage, Types
    <3>2. promise' = promise
      BY <1>4, <2>3, <3>1 DEF HandleMessage
    <3> QED
      BY <2>1, <3>2
  <2> QED
    BY <2>2, <2>3
<1>5. ASSUME NEW c \in Calls, PostAnswer(c) PROVE Contract!RunHandler(c)
  <2>1. c \notin ranCalls /\ ranCalls' = ranCalls \cup {c} /\ promise[c] # "none"
    BY <1>5 DEF PostAnswer, Types, ranCalls, At
  <2> QED
    BY <1>5, <2>1 DEF PostAnswer, clientVars, Contract!RunHandler
<1>6. ASSUME NEW c \in Calls, \/ Dispatch(c) \/ UiServes(c) \/ TakeTask(c) \/ WaitForUi(c)
                              \/ FinishTask(c)
      PROVE  UNCHANGED <<promise, ranCalls>>
  BY <1>6
  DEF Dispatch, UiServes, TakeTask, WaitForUi, FinishTask, Types, ranCalls, At, clientVars
<1>7. CASE UNCHANGED <<promise, stage>>
  BY <1>7 DEF ranCalls, At
<1>8. ASSUME NEW c \in Calls, Contract!Issue(c) \/ Contract!RunHandler(c)
      PROVE  Contract!Next
  BY <1>8 DEF Contract!Next
<1>9. ASSUME NEW c \in Calls, Contract!GiveUp({c}) PROVE Contract!Next
  <2>1. {c} \in SUBSET Calls
    OBVIOUS
  <2> QED
    BY <1>9, <2>1 DEF Contract!Next
<1> QED
  BY <1>1, <1>2, <1>3, <1>4, <1>5, <1>6, <1>7, <1>8, <1>9
  DEF Next, HandlerStep, PostEvent, Deliver, DestroyWindow, StartDrain, CloseDatabase,
      clientVars, hostVars, vars

(***************************************************************************)
(* The channel, with its timers, its pool and its shutdown, keeps the      *)
(* contract of ipc.call for any number of calls: one handler at most, and  *)
(* an answer only of the handler that ran, at most once                    *)
(* (ipc.ts callInner and handle, IpcBridge.cpp DispatchFromOrigin).        *)
(***************************************************************************)
THEOREM ChannelImplementsContract == Spec => ImplementsContract
<1>1. Init => Contract!Init
  BY DEF Init, Contract!Init, ranCalls, At
<1> QED
  BY <1>1, ContractStep, SlotsInit, SlotsStep, HonestInit, HonestStep, Counting, PTL
  DEF Spec, ImplementsContract, Contract!Spec
------------------------------------------------------------------------------
(* Progress events and the answer                                          *)

(* The events of a call that a queue holds, and how many they are.          *)
Waiting(q, c)  == {i \in 1 .. Len(q) : q[i] = Event(c)}
Underway(q, c) == Cardinality(Waiting(q, c))

(* While the window lives each event posted is shown, dropped or on its way, *)
(* once; none is shown that was not posted.                                  *)
Conserved ==
  /\ posted \in [Calls -> 0 .. MaxEvents] /\ shown \in [Calls -> Nat]
  /\ \A c \in Calls :
       /\ window => posted[c] = shown[c] + lost[Event(c)]
                                  + Underway(inbox, c) + Underway(outbox, c)
       /\ shown[c] + lost[Event(c)] <= posted[c]

(* Behind an answer no event of its call follows, in a queue or in the one  *)
(* that feeds it.                                                           *)
AnswerLast(q) ==
  \A c \in Calls : \A i, j \in 1 .. Len(q) : i < j /\ q[i] = Answer(c) => q[j] # Event(c)

AnswersLast ==
  /\ AnswerLast(inbox) /\ AnswerLast(outbox)
  /\ \A c \in Calls : \A i \in 1 .. Len(inbox) :
       inbox[i] = Answer(c) => Waiting(outbox, c) = {}

(* Once a call is answered its handler is past its events, and all of them  *)
(* are shown or dropped.                                                    *)
Settled ==
  \A c \in Calls : promise[c] = "answered" =>
    /\ c \in ranCalls /\ shown[c] + lost[Event(c)] = posted[c]
    /\ Waiting(inbox, c) = {} /\ Waiting(outbox, c) = {}

InOrder == Conserved /\ AnswersLast /\ Settled

LEMMA UnderwayNat ==
  ASSUME NEW q \in Seq(Messages), NEW c
  PROVE  /\ IsFiniteSet(Waiting(q, c)) /\ Underway(q, c) \in Nat
         /\ Underway(q, c) = 0 <=> Waiting(q, c) = {}
<1>1. Waiting(q, c) \subseteq 1 .. Len(q) /\ IsFiniteSet(1 .. Len(q))
  BY FS_Interval, LenProperties DEF Waiting
<1> QED
  BY <1>1, FS_Subset, FS_CardinalityType, FS_EmptySet DEF Underway

LEMMA AppendAt ==
  ASSUME NEW q \in Seq(Messages), NEW m \in Messages
  PROVE  /\ Append(q, m) \in Seq(Messages)
         /\ Len(Append(q, m)) = Len(q) + 1 /\ Len(q) \in Nat
         /\ \A i \in 1 .. Len(q) : Append(q, m)[i] = q[i]
         /\ Append(q, m)[Len(q) + 1] = m
  BY AppendProperties, LenProperties

LEMMA TailAt ==
  ASSUME NEW q \in Seq(Messages), q # <<>>
  PROVE  /\ Tail(q) \in Seq(Messages)
         /\ Len(Tail(q)) = Len(q) - 1 /\ Len(q) \in Nat \ {0}
         /\ \A i \in 1 .. Len(Tail(q)) : Tail(q)[i] = q[i + 1]
         /\ Head(q) = q[1] /\ Head(q) \in Messages
  BY HeadTailProperties, EmptySeq, LenProperties

LEMMA UnderwayAppend ==
  ASSUME NEW q \in Seq(Messages), NEW m \in Messages, NEW c \in Calls
  PROVE  /\ m = Event(c) => Underway(Append(q, m), c) = Underway(q, c) + 1
         /\ m # Event(c) => Waiting(Append(q, m), c) = Waiting(q, c)
<1>1. m # Event(c) => Waiting(Append(q, m), c) = Waiting(q, c)
  BY AppendAt DEF Waiting
<1>2. m = Event(c) => Waiting(Append(q, m), c) = Waiting(q, c) \cup {Len(q) + 1}
  BY AppendAt DEF Waiting
<1>3. Len(q) + 1 \notin Waiting(q, c)
  BY LenProperties DEF Waiting
<1> QED
  BY <1>1, <1>2, <1>3, UnderwayNat, FS_AddElement DEF Underway

LEMMA UnderwayTail ==
  ASSUME NEW q \in Seq(Messages), q # <<>>, NEW c \in Calls
  PROVE  /\ Head(q) = Event(c) => Underway(q, c) = Underway(Tail(q), c) + 1
         /\ Head(q) # Event(c) => Underway(q, c) = Underway(Tail(q), c)
<1> DEFINE Rest == Waiting(q, c) \ {1}
           Shift == [i \in Waiting(Tail(q), c) |-> i + 1]
<1>1. \A i \in Rest : i - 1 \in Waiting(Tail(q), c) /\ Shift[i - 1] = i
  BY TailAt DEF Waiting
<1>2. \A i \in Waiting(Tail(q), c) : Shift[i] \in Rest
  BY TailAt DEF Waiting
<1>3. Waiting(Tail(q), c) \subseteq Nat
  BY TailAt DEF Waiting
<1>4. Shift \in Bijection(Waiting(Tail(q), c), Rest)
  <2>1. Shift \in [Waiting(Tail(q), c) -> Rest]
    BY <1>2
  <2>2. \A i, j \in Waiting(Tail(q), c) : Shift[i] = Shift[j] => i = j
    BY <1>3
  <2>3. \A i \in Rest : \E j \in Waiting(Tail(q), c) : Shift[j] = i
    BY <1>1
  <2> QED
    BY <2>1, <2>2, <2>3, Fun_IsBij
<1>5. Cardinality(Rest) = Underway(Tail(q), c)
  <2>1. IsFiniteSet(Waiting(Tail(q), c))
    BY TailAt, UnderwayNat
  <2> QED
    BY <1>4, <2>1, FS_Bijection DEF Underway, ExistsBijection
<1>6. 1 \in Waiting(q, c) <=> Head(q) = Event(c)
  BY TailAt DEF Waiting
<1>7. Head(q) # Event(c) => Rest = Waiting(q, c)
  BY <1>6
<1>8. Head(q) = Event(c) => Cardinality(Rest) = Cardinality(Waiting(q, c)) - 1
  BY <1>6, UnderwayNat, FS_RemoveElement
<1>9. Underway(q, c) \in Nat /\ Underway(Tail(q), c) \in Nat
  BY UnderwayNat, TailAt
<1>10. Head(q) # Event(c) => Underway(q, c) = Underway(Tail(q), c)
  BY <1>5, <1>7 DEF Underway
<1>11. Head(q) = Event(c) => Underway(Tail(q), c) = Underway(q, c) - 1
  BY <1>5, <1>8 DEF Underway
<1> QED
  BY <1>9, <1>10, <1>11

LEMMA NoneWaitingTail ==
  ASSUME NEW q \in Seq(Messages), q # <<>>, NEW c \in Calls, Waiting(q, c) = {}
  PROVE  Waiting(Tail(q), c) = {} /\ Head(q) # Event(c)
<1>1. \A i \in 1 .. Len(q) : q[i] # Event(c)
  BY DEF Waiting
<1>2. Head(q) = q[1] /\ 1 \in 1 .. Len(q)
  BY TailAt
<1>3. \A i \in 1 .. Len(Tail(q)) : Tail(q)[i] = q[i + 1] /\ i + 1 \in 1 .. Len(q)
  BY TailAt
<1> QED
  BY <1>1, <1>2, <1>3 DEF Waiting

LEMMA AnswerLastTail ==
  ASSUME NEW q \in Seq(Messages), q # <<>>, AnswerLast(q)
  PROVE  /\ AnswerLast(Tail(q))
         /\ \A c \in Calls : Head(q) = Answer(c) => Waiting(Tail(q), c) = {}
<1>1. Head(q) = q[1] /\ 1 \in 1 .. Len(q) /\ Len(Tail(q)) \in Nat
  BY TailAt
<1>2. \A i \in 1 .. Len(Tail(q)) : /\ Tail(q)[i] = q[i + 1] /\ i + 1 \in 1 .. Len(q)
                                   /\ 1 < i + 1
  BY TailAt
<1>3. ASSUME NEW i \in 1 .. Len(Tail(q)), NEW j \in 1 .. Len(Tail(q)), i < j
      PROVE  i + 1 < j + 1
  BY <1>1, <1>3
<1>4. AnswerLast(Tail(q))
  BY <1>2, <1>3 DEF AnswerLast
<1>5. \A c \in Calls : Head(q) = Answer(c) => Waiting(Tail(q), c) = {}
  BY <1>1, <1>2 DEF AnswerLast, Waiting
<1> QED
  BY <1>4, <1>5

\* Messages that differ in their call or their kind are different.
LEMMA MessagesDiffer ==
  \A c, d \in Calls :
    /\ Answer(c) # Event(d)
    /\ c # d => Event(c) # Event(d)
    /\ c # d => Answer(c) # Answer(d)
  BY DEF Answer, Event

LEMMA ConservedStep ==
  Types /\ Conserved /\ [Next]_vars => Conserved'
<1> SUFFICES ASSUME Types, Conserved, [Next]_vars PROVE Conserved'
  OBVIOUS
<1> USE DEF clientVars, hostVars, downVars
<1>1. outbox \in Seq(Messages) /\ inbox \in Seq(Messages) /\ window \in BOOLEAN
  BY DEF Types
<1>2. \A c \in Calls :
        /\ Underway(inbox, c) \in Nat /\ Underway(outbox, c) \in Nat
        /\ posted[c] \in Nat /\ shown[c] \in Nat /\ lost[Event(c)] \in Nat
  BY <1>1, UnderwayNat, MessageTypes, IpcAssumption DEF Conserved, Types
<1>3. CASE UNCHANGED <<posted, shown, outbox, inbox, lost, window>>
  BY <1>3 DEF Conserved, Underway, Waiting
<1>4. ASSUME NEW c \in Calls, PostEvent(c) PROVE Conserved'
  <2>1. /\ UNCHANGED <<shown, inbox, window>> /\ window /\ posted[c] < MaxEvents
        /\ posted' = [posted EXCEPT ![c] = @ + 1]
    BY <1>4 DEF PostEvent
  <2>2. posted' \in [Calls -> 0 .. MaxEvents]
    BY <1>2, <2>1, IpcAssumption DEF Conserved
  <2>3. /\ posted'[c] = posted[c] + 1
        /\ \A d \in Calls \ {c} : posted'[d] = posted[d]
    BY <2>1 DEF Conserved
  <2>4. /\ lost'[Event(c)] + Underway(outbox', c) = lost[Event(c)] + Underway(outbox, c) + 1
        /\ lost'[Event(c)] <= lost[Event(c)] + 1
        /\ lost'[Event(c)] \in Nat /\ Underway(outbox', c) \in Nat
    <3>1. CASE outbox' = Append(outbox, Event(c)) /\ lost' = lost
      <4>1. Underway(outbox', c) = Underway(outbox, c) + 1
        BY <1>1, <3>1, UnderwayAppend, MessageTypes
      <4>2. lost'[Event(c)] = lost[Event(c)]
        BY <3>1
      <4> QED
        BY <1>2, <4>1, <4>2
    <3>2. CASE outbox' = outbox /\ lost' = [lost EXCEPT ![Event(c)] = @ + 1]
      <4>1. lost'[Event(c)] = lost[Event(c)] + 1
        BY <3>2, MessageTypes DEF Types
      <4> QED
        BY <1>2, <3>2, <4>1
    <3> QED
      BY <1>4, <2>1, <3>1, <3>2, PostCases, MessageTypes DEF PostEvent
  <2>5. ASSUME NEW d \in Calls \ {c}
        PROVE  lost'[Event(d)] = lost[Event(d)] /\ Underway(outbox', d) = Underway(outbox, d)
    <3>1. Event(c) # Event(d) /\ Event(c) \in Messages /\ Event(d) \in Messages
      BY MessageTypes, MessagesDiffer
    <3>2. outbox' = Append(outbox, Event(c)) \/ outbox' = outbox
      BY <1>4, <3>1, PostCases DEF PostEvent
    <3>3. lost' = lost \/ lost' = [lost EXCEPT ![Event(c)] = @ + 1]
      BY <1>4, <3>1, PostCases DEF PostEvent
    <3>4. lost'[Event(d)] = lost[Event(d)]
      BY <3>1, <3>3 DEF Types
    <3>5. Underway(outbox', d) = Underway(outbox, d)
      <4>1. CASE outbox' = Append(outbox, Event(c))
        BY <1>1, <3>1, <4>1, UnderwayAppend DEF Underway
      <4> QED
        BY <3>2, <4>1
    <3> QED
      BY <3>4, <3>5
  <2>6. ASSUME NEW d \in Calls
        PROVE  /\ posted'[d] = shown[d] + lost'[Event(d)]
                                 + Underway(inbox, d) + Underway(outbox', d)
               /\ shown[d] + lost'[Event(d)] <= posted'[d]
    <3>1. posted[d] = shown[d] + lost[Event(d)] + Underway(inbox, d) + Underway(outbox, d)
      BY <2>1 DEF Conserved
    <3>2. CASE d = c
      BY <1>2, <2>3, <2>4, <3>1, <3>2
    <3>3. CASE d # c
      <4>1. shown[d] + lost[Event(d)] <= posted[d]
        BY DEF Conserved
      <4> QED
        BY <1>2, <2>3, <2>5, <3>1, <3>3, <4>1
    <3> QED
      BY <3>2, <3>3
  <2> QED
    BY <2>1, <2>2, <2>6 DEF Conserved
<1>5. ASSUME NEW c \in Calls, PostAnswer(c), ~UNCHANGED <<outbox, lost>> PROVE Conserved'
  <2>1. Post(Answer(c)) /\ UNCHANGED <<posted, shown, inbox, window>>
    BY <1>5 DEF PostAnswer
  <2>2. \A d \in Calls : Underway(outbox', d) = Underway(outbox, d)
    <3>1. outbox' = Append(outbox, Answer(c)) \/ outbox' = outbox
      BY <2>1, PostCases, MessageTypes
    <3>2. CASE outbox' = Append(outbox, Answer(c))
      BY <1>1, <3>2, UnderwayAppend, MessageTypes, MessagesDiffer DEF Underway
    <3> QED
      BY <3>1, <3>2
  <2>3. \A d \in Calls : lost'[Event(d)] = lost[Event(d)]
    <3>1. lost' = lost \/ lost' = [lost EXCEPT ![Answer(c)] = @ + 1]
      BY <2>1, PostCases, MessageTypes
    <3>2. \A d \in Calls : Answer(c) # Event(d) /\ Event(d) \in Messages
      BY MessageTypes, MessagesDiffer
    <3> QED
      BY <3>1, <3>2 DEF Types
  <2> QED
    BY <2>1, <2>2, <2>3 DEF Conserved
<1>6. CASE Deliver
  <2> DEFINE m == Head(outbox)
  <2>1. /\ outbox # <<>> /\ outbox' = Tail(outbox) /\ UNCHANGED <<posted, shown, window>>
    BY <1>6 DEF Deliver
  <2>2. m \in Messages /\ outbox' \in Seq(Messages) /\ inbox' \in Seq(Messages)
    BY <1>6, DeliverCases
  <2>3. ASSUME NEW c \in Calls
        PROVE  /\ lost'[Event(c)] \in Nat /\ lost'[Event(c)] >= lost[Event(c)]
               /\ Underway(inbox', c) \in Nat /\ Underway(outbox', c) \in Nat
               /\ lost'[Event(c)] + Underway(inbox', c) + Underway(outbox', c)
                    = lost[Event(c)] + Underway(inbox, c) + Underway(outbox, c)
    <3>1. /\ m = Event(c) => Underway(outbox, c) = Underway(outbox', c) + 1
          /\ m # Event(c) => Underway(outbox, c) = Underway(outbox', c)
      BY <1>1, <2>1, UnderwayTail
    <3>2. Underway(inbox', c) \in Nat /\ Underway(outbox', c) \in Nat
      BY <2>2, UnderwayNat
    <3>3. CASE inbox' = Append(inbox, m) /\ lost' = lost
      <4>1. /\ m = Event(c) => Underway(inbox', c) = Underway(inbox, c) + 1
            /\ m # Event(c) => Underway(inbox', c) = Underway(inbox, c)
        BY <1>1, <2>2, <3>3, UnderwayAppend DEF Underway
      <4>2. lost'[Event(c)] = lost[Event(c)] /\ lost[Event(c)] \in Nat
        BY <1>2, <3>3
      <4> HIDE DEF m
      <4> QED
        BY <1>2, <3>1, <3>2, <4>1, <4>2
    <3>4. CASE inbox' = inbox /\ lost' = [lost EXCEPT ![m] = @ + 1]
      <4>1. /\ m = Event(c) => lost'[Event(c)] = lost[Event(c)] + 1
            /\ m # Event(c) => lost'[Event(c)] = lost[Event(c)]
        BY <2>2, <3>4, MessageTypes DEF Types
      <4> QED
        BY <1>2, <3>1, <3>2, <3>4, <4>1
    <3> QED
      BY <1>6, <3>3, <3>4, DeliverCases
  <2>4. ASSUME NEW c \in Calls, window
        PROVE  posted[c] = shown[c] + lost'[Event(c)]
                             + Underway(inbox', c) + Underway(outbox', c)
    <3>1. posted[c] = shown[c] + lost[Event(c)] + Underway(inbox, c) + Underway(outbox, c)
      BY <2>4 DEF Conserved
    <3> QED
      BY <1>2, <2>3, <3>1
  <2>5. window /\ \A c \in Calls : shown[c] + lost'[Event(c)] <= posted[c]
    <3>1. window
      BY <1>6 DEF Deliver
    <3>2. ASSUME NEW c \in Calls PROVE shown[c] + lost'[Event(c)] <= posted[c]
      BY <1>2, <2>3, <2>4, <3>1
    <3> QED
      BY <3>1, <3>2
  <2> QED
    BY <2>1, <2>4, <2>5 DEF Conserved
<1>7. CASE HandleMessage
  <2> DEFINE m == Head(inbox)
             c == m.call
  <2>1. /\ window /\ inbox # <<>> /\ inbox' = Tail(inbox)
        /\ UNCHANGED <<posted, outbox, lost, window>>
    BY <1>7 DEF HandleMessage
  <2>2. m \in Messages /\ inbox' \in Seq(Messages)
    BY <1>1, <2>1, TailAt
  <2>3. CASE m.kind = "event"
    <3>1. c \in Calls /\ m = Event(c)
      BY <2>2, <2>3 DEF Messages, Answer, Event
    <3>2. shown' = [shown EXCEPT ![c] = @ + 1]
      BY <1>7, <2>3 DEF HandleMessage
    <3>3. Underway(inbox, c) = Underway(inbox', c) + 1
      BY <1>1, <2>1, <3>1, UnderwayTail
    <3>4. \A d \in Calls \ {c} : Underway(inbox', d) = Underway(inbox, d)
      <4>1. \A d \in Calls \ {c} : m # Event(d)
        <5> HIDE DEF m, c
        <5> QED
          BY <3>1, MessagesDiffer
      <4> QED
        BY <1>1, <2>1, <4>1, UnderwayTail
    <3>5. Underway(inbox', c) \in Nat
      BY <2>2, UnderwayNat
    <3>6. /\ shown' \in [Calls -> Nat] /\ shown'[c] = shown[c] + 1
          /\ \A d \in Calls \ {c} : shown'[d] = shown[d]
      BY <1>2, <3>1, <3>2 DEF Conserved
    <3>7. posted[c] = shown'[c] + lost[Event(c)] + Underway(inbox', c) + Underway(outbox, c)
      <4>1. posted[c] = shown[c] + lost[Event(c)] + Underway(inbox, c) + Underway(outbox, c)
        BY <2>1, <3>1 DEF Conserved
      <4>2. shown[c] \in Nat /\ lost[Event(c)] \in Nat /\ Underway(outbox, c) \in Nat
        BY <1>2, <3>1
      <4>3. shown'[c] = shown[c] + 1
        BY <3>6
      <4> HIDE DEF c
      <4> QED
        BY <3>3, <3>5, <4>1, <4>2, <4>3
    <3>8. shown'[c] + lost[Event(c)] <= posted[c]
      BY <1>2, <3>1, <3>5, <3>6, <3>7
    <3> QED
      BY <2>1, <3>1, <3>4, <3>6, <3>7, <3>8 DEF Conserved
  <2>4. CASE m.kind # "event"
    <3>1. shown' = shown
      BY <1>7, <2>4 DEF HandleMessage
    <3>2. \A d \in Calls : m # Event(d)
      BY <2>4, MessageTypes
    <3>3. \A d \in Calls : Underway(inbox', d) = Underway(inbox, d)
      BY <1>1, <2>1, <3>2, UnderwayTail
    <3> QED
      BY <2>1, <3>1, <3>3 DEF Conserved
  <2> QED
    BY <2>3, <2>4
<1>8. CASE DestroyWindow
  BY <1>8 DEF DestroyWindow, Conserved
<1> QED
  BY <1>3, <1>4, <1>5, <1>6, <1>7, <1>8
  DEF Next, HandlerStep, Call, Timeout, Dispatch, UiServes, TakeTask, WaitForUi,
      PostAnswer, FinishTask, CancelAll, StartDrain, CloseDatabase, vars

\* Only a running handler posts events, so none follows its answer.
LEMMA AnswersLastStep ==
  Types /\ AnswersHonest /\ AnswersLast /\ [Next]_vars => AnswersLast'
<1> SUFFICES ASSUME Types, AnswersHonest, AnswersLast, [Next]_vars PROVE AnswersLast'
  OBVIOUS
<1> USE DEF clientVars, hostVars, downVars
<1>1. outbox \in Seq(Messages) /\ inbox \in Seq(Messages)
  BY DEF Types
<1>2. CASE UNCHANGED <<outbox, inbox>>
  BY <1>2 DEF AnswersLast, AnswerLast, Waiting
<1>3. ASSUME NEW c \in Calls, PostEvent(c), outbox' # outbox PROVE AnswersLast'
  <2>1. /\ outbox' = Append(outbox, Event(c)) /\ inbox' = inbox
        /\ c \notin ranCalls
    BY <1>3 DEF PostEvent, Post, ranCalls, At
  <2>2. /\ \A i \in 1 .. Len(outbox) : outbox[i] # Answer(c)
        /\ \A i \in 1 .. Len(inbox) : inbox[i] # Answer(c)
    BY <2>1, MessageTypes DEF AnswersHonest, Honest
  <2>3. \A d \in Calls : d # c => Event(d) # Event(c)
    BY MessagesDiffer
  <2>4. AnswerLast(outbox')
    BY <1>1, <2>1, <2>2, <2>3, AppendAt, MessageTypes, MessagesDiffer
    DEF AnswersLast, AnswerLast
  <2>5. \A d \in Calls \ {c} : Waiting(outbox', d) = Waiting(outbox, d)
    BY <1>1, <2>1, <2>3, UnderwayAppend, MessageTypes
  <2> QED
    BY <2>1, <2>2, <2>4, <2>5 DEF AnswersLast
<1>4. ASSUME NEW c \in Calls, PostAnswer(c), outbox' # outbox PROVE AnswersLast'
  <2>1. outbox' = Append(outbox, Answer(c)) /\ inbox' = inbox
    BY <1>4 DEF PostAnswer, Post
  <2>2. AnswerLast(outbox')
    BY <1>1, <2>1, AppendAt, MessageTypes, MessagesDiffer DEF AnswersLast, AnswerLast
  <2>3. \A d \in Calls : Waiting(outbox', d) = Waiting(outbox, d)
    BY <1>1, <2>1, UnderwayAppend, MessageTypes, MessagesDiffer
  <2> QED
    BY <2>1, <2>2, <2>3 DEF AnswersLast
<1>5. CASE Deliver
  <2> DEFINE m == Head(outbox)
  <2>1. /\ outbox # <<>> /\ outbox' = Tail(outbox)
        /\ inbox' = Append(inbox, m) \/ inbox' = inbox
    BY <1>5, DeliverCases
  <2>2. m \in Messages /\ m = outbox[1] /\ Len(outbox) \in Nat \ {0}
    BY <1>1, <2>1, TailAt
  <2>3. \A c \in Calls : Waiting(outbox, c) = {} => Waiting(outbox', c) = {} /\ m # Event(c)
    BY <1>1, <2>1, NoneWaitingTail
  <2>4. \A c \in Calls : m = Answer(c) => Waiting(outbox', c) = {}
    BY <1>1, <2>1, AnswerLastTail DEF AnswersLast
  <2>5. AnswerLast(outbox')
    <3>1. AnswerLast(outbox)
      BY DEF AnswersLast
    <3>2. AnswerLast(Tail(outbox))
      BY <1>1, <2>1, <3>1, AnswerLastTail
    <3> QED
      BY <2>1, <3>2
  <2>6. AnswerLast(inbox')
    <3>0. SUFFICES ASSUME inbox' = Append(inbox, m) PROVE AnswerLast(inbox')
      BY <2>1 DEF AnswersLast, AnswerLast
    <3>1. /\ Len(inbox') = Len(inbox) + 1 /\ Len(inbox) \in Nat /\ inbox'[Len(inbox) + 1] = m
          /\ \A i \in 1 .. Len(inbox) : inbox'[i] = inbox[i]
      BY <1>1, <2>2, <3>0, AppendAt
    <3> SUFFICES ASSUME NEW c \in Calls, NEW i \in 1 .. Len(inbox'), NEW j \in 1 .. Len(inbox'),
                        i < j, inbox'[i] = Answer(c)
                 PROVE  inbox'[j] # Event(c)
      BY DEF AnswerLast
    <3>2. i \in 1 .. Len(inbox) /\ inbox[i] = Answer(c)
      BY <3>1
    <3>3. CASE j = Len(inbox) + 1
      BY <2>3, <3>1, <3>2, <3>3 DEF AnswersLast
    <3>4. CASE j # Len(inbox) + 1
      BY <3>1, <3>2, <3>4 DEF AnswersLast, AnswerLast
    <3> QED
      BY <3>3, <3>4
  <2>7. ASSUME NEW c \in Calls, NEW i \in 1 .. Len(inbox'), inbox'[i] = Answer(c)
        PROVE  Waiting(outbox', c) = {}
    <3>1. CASE inbox' = Append(inbox, m)
      BY <1>1, <2>2, <2>3, <2>4, <2>7, <3>1, AppendAt DEF AnswersLast
    <3>2. CASE inbox' = inbox
      BY <2>3, <2>7, <3>2 DEF AnswersLast
    <3> QED
      BY <2>1, <3>1, <3>2
  <2> QED
    BY <2>5, <2>6, <2>7 DEF AnswersLast
<1>6. CASE HandleMessage
  <2>1. inbox # <<>> /\ inbox' = Tail(inbox) /\ outbox' = outbox
    BY <1>6 DEF HandleMessage
  <2>2. AnswerLast(inbox')
    BY <1>1, <2>1, AnswerLastTail DEF AnswersLast
  <2>3. \A i \in 1 .. Len(inbox') : inbox'[i] = inbox[i + 1] /\ i + 1 \in 1 .. Len(inbox)
    BY <1>1, <2>1, TailAt
  <2> QED
    BY <2>1, <2>2, <2>3 DEF AnswersLast
<1>7. CASE DestroyWindow
  BY <1>7 DEF DestroyWindow, AnswersLast, AnswerLast
<1> QED
  BY <1>2, <1>3, <1>4, <1>5, <1>6, <1>7
  DEF Next, HandlerStep, Call, Timeout, Dispatch, UiServes, TakeTask, WaitForUi,
      PostEvent, PostAnswer, FinishTask, CancelAll, StartDrain, CloseDatabase, vars

LEMMA SettledStep ==
  Types /\ AnswersHonest /\ InOrder /\ [Next]_vars => Settled'
<1> SUFFICES ASSUME Types, AnswersHonest, InOrder, [Next]_vars,
                    NEW c \in Calls, promise'[c] = "answered"
             PROVE  /\ c \in ranCalls' /\ shown'[c] + lost'[Event(c)] = posted'[c]
                    /\ Waiting(inbox', c) = {} /\ Waiting(outbox', c) = {}
  BY DEF Settled
<1> USE DEF clientVars, hostVars, downVars
<1>1. outbox \in Seq(Messages) /\ inbox \in Seq(Messages)
  BY DEF Types
<1>2. ranCalls \subseteq ranCalls'
  BY RanGrows
<1>3. promise[c] = "answered" => /\ c \in ranCalls /\ shown[c] + lost[Event(c)] = posted[c]
                                 /\ Waiting(inbox, c) = {} /\ Waiting(outbox, c) = {}
  BY DEF InOrder, Settled
<1>4. CASE promise[c] = "answered" /\ UNCHANGED <<posted, shown, outbox, inbox, lost>>
  BY <1>2, <1>3, <1>4
<1>5. CASE ~HandleMessage
  <2>1. promise[c] = "answered"
    BY <1>5
    DEF Next, HandlerStep, Call, Timeout, CancelAll, Types, Dispatch, UiServes, TakeTask,
        WaitForUi, PostEvent, PostAnswer, FinishTask, Deliver, DestroyWindow, StartDrain,
        CloseDatabase, vars
  <2>2. ASSUME NEW d \in Calls, PostEvent(d)
        PROVE  /\ posted'[c] = posted[c] /\ lost'[Event(c)] = lost[Event(c)]
               /\ UNCHANGED <<shown, inbox>> /\ Waiting(outbox', c) = {}
    <3>1. /\ Post(Event(d)) /\ d \notin ranCalls
          /\ posted' = [posted EXCEPT ![d] = @ + 1] /\ UNCHANGED <<shown, inbox>>
      BY <2>2 DEF PostEvent, ranCalls, At
    <3>2. c # d
      BY <1>3, <2>1, <3>1
    <3>3. Event(d) # Event(c) /\ Event(d) \in Messages /\ Event(c) \in Messages
      BY <3>2, MessagesDiffer, MessageTypes
    <3>4. lost'[Event(c)] = lost[Event(c)]
      BY <3>1, <3>3, PostCases DEF Types
    <3>5. outbox' = Append(outbox, Event(d)) \/ outbox' = outbox
      BY <3>1, <3>3, PostCases
    <3>6. Waiting(outbox', c) = {}
      BY <1>1, <1>3, <2>1, <3>3, <3>5, UnderwayAppend
    <3>7. posted'[c] = posted[c]
      BY <3>1, <3>2 DEF InOrder, Conserved
    <3> QED
      BY <3>1, <3>4, <3>6, <3>7
  <2>3. ASSUME NEW d \in Calls, PostAnswer(d), ~UNCHANGED <<outbox, lost>>
        PROVE  /\ UNCHANGED <<posted, shown, inbox>> /\ lost'[Event(c)] = lost[Event(c)]
               /\ Waiting(outbox', c) = {}
    <3>1. Post(Answer(d)) /\ UNCHANGED <<posted, shown, inbox>>
      BY <2>3 DEF PostAnswer
    <3>2. Answer(d) # Event(c) /\ Answer(d) \in Messages /\ Event(c) \in Messages
      BY MessagesDiffer, MessageTypes
    <3>3. lost'[Event(c)] = lost[Event(c)]
      BY <3>1, <3>2, PostCases DEF Types
    <3>4. outbox' = Append(outbox, Answer(d)) \/ outbox' = outbox
      BY <3>1, <3>2, PostCases
    <3> QED
      BY <1>1, <1>3, <2>1, <3>1, <3>2, <3>3, <3>4, UnderwayAppend
  <2>4. ASSUME Deliver
        PROVE  /\ UNCHANGED <<posted, shown>> /\ lost'[Event(c)] = lost[Event(c)]
               /\ Waiting(outbox', c) = {} /\ Waiting(inbox', c) = {}
    <3>1. outbox # <<>> /\ outbox' = Tail(outbox) /\ UNCHANGED <<posted, shown>>
      BY <2>4 DEF Deliver
    <3>2. /\ Waiting(outbox', c) = {} /\ Head(outbox) # Event(c)
          /\ Head(outbox) \in Messages /\ Event(c) \in Messages
      BY <1>1, <1>3, <2>1, <3>1, NoneWaitingTail, TailAt, MessageTypes
    <3>3. lost'[Event(c)] = lost[Event(c)]
      BY <2>4, <3>2, DeliverCases DEF Types
    <3>4. inbox' = Append(inbox, Head(outbox)) \/ inbox' = inbox
      BY <2>4, DeliverCases
    <3> QED
      BY <1>1, <1>3, <2>1, <3>1, <3>2, <3>3, <3>4, UnderwayAppend
  <2>5. ASSUME DestroyWindow
        PROVE  /\ UNCHANGED <<posted, shown, lost>>
               /\ Waiting(outbox', c) = {} /\ Waiting(inbox', c) = {}
    BY <2>5 DEF DestroyWindow, Waiting
  <2> QED
    BY <1>2, <1>3, <1>4, <1>5, <2>1, <2>2, <2>3, <2>4, <2>5
    DEF Next, HandlerStep, Call, Timeout, Dispatch, UiServes, TakeTask, WaitForUi,
        PostAnswer, FinishTask, CancelAll, StartDrain, CloseDatabase, vars
<1>6. CASE HandleMessage
  <2> DEFINE m == Head(inbox)
  <2>1. /\ window /\ inbox # <<>> /\ inbox' = Tail(inbox)
        /\ UNCHANGED <<posted, outbox, stage, lost>>
    BY <1>6 DEF HandleMessage
  <2>2. m \in Messages /\ m = inbox[1] /\ Len(inbox) \in Nat \ {0}
    BY <1>1, <2>1, TailAt
  <2>3. CASE promise[c] = "answered"
    <3>1. m # Event(c) /\ Waiting(inbox', c) = {}
      BY <1>1, <1>3, <2>1, <2>3, NoneWaitingTail
    <3>2. shown'[c] = shown[c]
      <4>1. CASE m.kind = "event"
        <5>1. m = Event(m.call) /\ m.call \in Calls
          BY <2>2, <4>1 DEF Messages, Answer, Event
        <5> QED
          BY <1>6, <3>1, <4>1, <5>1 DEF HandleMessage, InOrder, Conserved
      <4>2. CASE m.kind # "event"
        BY <1>6, <4>2 DEF HandleMessage
      <4> QED
        BY <4>1, <4>2
    <3> QED
      BY <1>2, <1>3, <2>1, <2>3, <3>1, <3>2
  <2>4. CASE promise[c] # "answered"
    <3>1. m.kind # "event" /\ m.call = c /\ shown' = shown
      BY <1>6, <2>4 DEF HandleMessage, Types
    <3>2. m = Answer(c) /\ m.kind = "answer"
      BY <2>2, <3>1 DEF Messages, Answer, Event
    <3>3. c \in ranCalls
      BY <2>2, <3>1, <3>2 DEF AnswersHonest, Honest
    <3>4. Waiting(outbox, c) = {}
      BY <2>2, <3>2 DEF InOrder, AnswersLast
    <3>5. Waiting(inbox, c) = {}
      BY <2>2, <3>2, MessagesDiffer DEF InOrder, AnswersLast, AnswerLast, Waiting
    <3>6. Waiting(inbox', c) = {}
      BY <1>1, <2>1, <3>5, NoneWaitingTail
    <3>7. Underway(inbox, c) = 0 /\ Underway(outbox, c) = 0
      BY <1>1, <3>4, <3>5, UnderwayNat
    <3>8. shown[c] + lost[Event(c)] = posted[c]
      <4>1. /\ posted[c] = shown[c] + lost[Event(c)] + 0 + 0
            /\ shown[c] \in Nat /\ lost[Event(c)] \in Nat
        BY <2>1, <3>7, MessageTypes DEF InOrder, Conserved, Types
      <4> QED
        BY <4>1
    <3> QED
      BY <1>2, <2>1, <3>1, <3>3, <3>4, <3>6, <3>8
  <2> QED
    BY <2>3, <2>4
<1> QED
  BY <1>5, <1>6

LEMMA InOrderInit == Init => InOrder
<1> SUFFICES ASSUME Init PROVE InOrder
  OBVIOUS
<1>1. \A c \in Calls : Waiting(inbox, c) = {} /\ Waiting(outbox, c) = {}
  BY DEF Init, Waiting
<1>2. \A c \in Calls : Underway(inbox, c) = 0 /\ Underway(outbox, c) = 0
  BY <1>1, FS_EmptySet DEF Underway
<1>3. Conserved
  BY <1>2, IpcAssumption, MessageTypes DEF Init, Conserved
<1> QED
  BY <1>3 DEF Init, InOrder, AnswersLast, AnswerLast, Settled

LEMMA Ordering == Spec => [](Types /\ AnswersHonest /\ InOrder)
<1>1. Types /\ AnswersHonest /\ InOrder /\ [Next]_vars => InOrder'
  BY ConservedStep, AnswersLastStep, SettledStep DEF InOrder
<1> QED
  BY <1>1, InOrderInit, HonestInit, HonestStep, Counting, PTL DEF Spec

(***************************************************************************)
(* When a promise of ipc.call resolves, no progress event of its handler   *)
(* is still to come: each was shown or was dropped by the window, for any  *)
(* number of calls, threads, events and drops.  Events and answers pass    *)
(* through one queue after the other, in order (WebViewHost.cpp            *)
(* PostMessageToWeb and DeliverWebMessage, ipc.ts handle).                 *)
(***************************************************************************)
THEOREM ProgressAlwaysBeforeAnswer == Spec => []ProgressBeforeAnswer
<1>1. InOrder => ProgressBeforeAnswer
  BY DEF InOrder, Settled, ProgressBeforeAnswer
<1> QED
  BY <1>1, Ordering, PTL

(***************************************************************************)
(* Every variable keeps its type; the bound on the events shown is the one *)
(* part that takes the conservation of messages: none is shown twice.      *)
(***************************************************************************)
THEOREM ChannelTypes == Spec => []TypeOK
<1>1. Types /\ Conserved => TypeOK
  <2> SUFFICES ASSUME Types, Conserved PROVE shown \in [Calls -> 0 .. MaxEvents]
    BY DEF Types, Conserved, TypeOK
  <2>1. shown \in [Calls -> Nat]
    BY DEF Conserved
  <2>2. ASSUME NEW c \in Calls PROVE shown[c] \in 0 .. MaxEvents
    <3>1. /\ shown[c] \in Nat /\ lost[Event(c)] \in Nat /\ posted[c] \in 0 .. MaxEvents
          /\ shown[c] + lost[Event(c)] <= posted[c]
      BY <2>1, MessageTypes DEF Types, Conserved
    <3> QED
      BY <3>1, IpcAssumption
  <2> QED
    BY <2>1, <2>2
<1> QED
  BY <1>1, Ordering, PTL DEF InOrder
==============================================================================
