---------------------------- MODULE PreviewQueue ----------------------------
(***************************************************************************)
(* The 3D preview of an avatar: the hook useAvatarPreview.ts, the handlers *)
(* of avatar.preview, avatar.preview.status and avatar.preview.abort, the  *)
(* futures that requests for one avatar share, and TaskQueue.cpp with its  *)
(* one worker.  A request holds a thread of the bridge's pool until its    *)
(* extraction has ended.                                                   *)
(*                                                                         *)
(* A promise is named by the call that owns it: the owner waits for it     *)
(* itself.  What is extracted, its progress events and the release of the  *)
(* files are left out; whether a preview is cached is open at every look.  *)
(***************************************************************************)
EXTENDS Naturals, Sequences, FiniteSets, SequencesExt

CONSTANTS
    Avatars,
    Hooks,      \* components with a preview
    Shows,      \* the avatars each of them shows
    Calls,      \* bound: calls between page and host
    NoOne,      \* no call, no avatar
    Threads,    \* threads of the pool
    MaxActs,    \* bound: what the user does
    MaxFaults   \* bound: promises of the page that are rejected

ASSUME PreviewAssumption ==
    /\ NoOne \notin Calls \cup Avatars
    /\ Shows \in [Hooks -> SUBSET Avatars]
    /\ Threads \in Nat \ {0}
    /\ MaxActs \in Nat /\ MaxFaults \in Nat
    /\ IsFiniteSet(Calls)

VARIABLES
    hooks,   \* the state of each hook
    calls,   \* each call, in the host and in the page
    fifo,    \* the pool's queue
    shared,  \* m_previewShared: the owner of the promise for each avatar
    tasks,   \* the queue of TaskQueue: the owners
    worker,  \* its thread, with m_activeKey and m_activeToken
    acts, faults

vars == <<hooks, calls, fifo, shared, tasks, worker, acts, faults>>

\* "live" is ~cancelled of the effect that made the call, "of" the promise a
\* call waits for, "open" that the page's promise has not settled.
NoCall == [host |-> "none", open |-> FALSE, what |-> "abort", avatar |-> NoOne,
           hook |-> NoOne, live |-> FALSE, of |-> NoOne, ans |-> "none"]
Asked(what, a, h, live) ==
    [NoCall EXCEPT !.host = "queued", !.open = (what # "abort"), !.what = what,
                   !.avatar = a, !.hook = h, !.live = live]

Off == [on |-> FALSE, avatar |-> NoOne, urls |-> FALSE, st |-> "loading", shows |-> NoOne, timer |-> FALSE]
Loading(a, urls) == [Off EXCEPT !.on = TRUE, !.avatar = a, !.urls = urls]
Idle == [pc |-> "idle", job |-> NoOne, key |-> NoOne, cancelled |-> FALSE]

Maybe(S) == S \cup {NoOne}
Hook == [on : BOOLEAN, avatar : Maybe(Avatars), urls : BOOLEAN,
         st : {"loading", "ready", "error"}, shows : Maybe(Avatars), timer : BOOLEAN]
CallRecord == [host : {"none", "queued", "taken", "own", "wait", "back"}, open : BOOLEAN,
               what : {"status", "preview", "abort"}, avatar : Maybe(Avatars), hook : Maybe(Hooks),
               live : BOOLEAN, of : Maybe(Calls), ans : {"none", "cached", "ready", "cancelled", "failed"}]
Worker == [pc : {"idle", "taken", "work", "after"}, job : Maybe(Calls), key : Maybe(Avatars),
           cancelled : BOOLEAN]

Busy == {c \in Calls : calls[c].host \in {"taken", "own", "wait"}}

TypeOK ==
    /\ hooks \in [Hooks -> Hook]
    /\ calls \in [Calls -> CallRecord]
    /\ fifo \in Seq(Calls)
    /\ shared \in [Avatars -> Maybe(Calls)]
    /\ tasks \in Seq(Calls)
    /\ worker \in Worker
    /\ Cardinality(Busy) <= Threads
    /\ acts \in 0..MaxActs
    /\ faults \in 0..MaxFaults

Init ==
    /\ hooks = [h \in Hooks |-> Off]
    /\ calls = [c \in Calls |-> NoCall]
    /\ fifo = <<>>
    /\ shared = [a \in Avatars |-> NoOne]
    /\ tasks = <<>>
    /\ worker = Idle
    /\ acts = 0
    /\ faults = 0

Free == {c \in Calls : calls[c] = NoCall}
Slot(S) == CHOOSE c \in S : TRUE

-----------------------------------------------------------------------------
(* The hook *)

\* The effect runs again: the cleanup cancels what the last one started, clears
\* its timer and sends the abort; then, once there is something to fetch, the
\* status is asked for.
Renew(h, new) ==
    LET stops == hooks[h].on
        asks  == new.on /\ new.urls
        i     == Slot(Free)
        j     == IF stops THEN Slot(Free \ {i}) ELSE i
        dead  == [c \in Calls |-> IF calls[c].hook = h THEN [calls[c] EXCEPT !.live = FALSE] ELSE calls[c]]
    IN  /\ stops => Free # {}
        /\ asks => Free \ (IF stops THEN {i} ELSE {}) # {}
        /\ hooks' = [hooks EXCEPT ![h] = new]
        /\ calls' = [c \in Calls |->
                IF stops /\ c = i THEN Asked("abort", hooks[h].avatar, h, FALSE)
                ELSE IF asks /\ c = j THEN Asked("status", new.avatar, h, TRUE)
                ELSE dead[c]]
        /\ fifo' = fifo \o (IF stops THEN <<i>> ELSE <<>>) \o (IF asks THEN <<j>> ELSE <<>>)
        /\ UNCHANGED <<shared, tasks, worker, faults>>

Act == acts < MaxActs /\ acts' = acts + 1

\* A component mounts, gets another avatar or its URLs, or the user retries.
Turn(h, a, urls) == Act /\ Renew(h, Loading(a, urls))
Unmount(h) == Act /\ hooks[h].on /\ Renew(h, Off)

\* The timer that a cancelled preview has set.
Again(h) ==
    /\ hooks[h].timer
    /\ Renew(h, Loading(hooks[h].avatar, hooks[h].urls))
    /\ UNCHANGED acts

\* The status: a cached preview is shown, any other asked for.
HearStatus(c) ==
    LET x == calls[c] IN
    /\ x.what = "status" /\ x.host = "back" /\ x.open
    /\ \/ /\ ~x.live
          /\ calls' = [calls EXCEPT ![c] = NoCall]
          /\ UNCHANGED <<hooks, fifo>>
       \/ /\ x.live /\ x.ans = "cached"
          /\ hooks' = [hooks EXCEPT ![x.hook].st = "ready", ![x.hook].shows = x.avatar]
          /\ calls' = [calls EXCEPT ![c] = NoCall]
          /\ UNCHANGED fifo
       \/ /\ x.live /\ x.ans # "cached"
          /\ calls' = [calls EXCEPT ![c] = Asked("preview", x.avatar, x.hook, TRUE)]
          /\ fifo' = Append(fifo, c)
          /\ UNCHANGED hooks
    /\ UNCHANGED <<shared, tasks, worker, acts, faults>>

\* Mutant: a cancelled preview is not asked for again.
RespondedOnce(k, ans, a) ==
    IF ans = "ready" THEN [k EXCEPT !.st = "ready", !.shows = a]
    ELSE [k EXCEPT !.st = IF ans = "cancelled" THEN "loading" ELSE "error"]

\* handleResponse.  Its second attempt after a transient code is left out: the
\* host answers every failure of an extraction as "preview_failed".
Responded(k, ans, a) ==
    CASE ans = "ready"     -> [k EXCEPT !.st = "ready", !.shows = a]
      [] ans = "cancelled" -> [k EXCEPT !.st = "loading", !.timer = TRUE]
      [] OTHER             -> [k EXCEPT !.st = "error"]

\* Mutant: the answer of an effect that was cleaned up is used.
HearPreviewAnyway(c) ==
    LET x == calls[c] IN
    /\ x.what = "preview" /\ x.host = "back" /\ x.open
    /\ hooks' = IF hooks[x.hook].on THEN [hooks EXCEPT ![x.hook] = Responded(@, x.ans, x.avatar)] ELSE hooks
    /\ calls' = [calls EXCEPT ![c] = NoCall]
    /\ UNCHANGED <<fifo, shared, tasks, worker, acts, faults>>

HearPreview(c) ==
    LET x == calls[c] IN
    /\ x.what = "preview" /\ x.host = "back" /\ x.open
    /\ hooks' = IF x.live THEN [hooks EXCEPT ![x.hook] = Responded(@, x.ans, x.avatar)] ELSE hooks
    /\ calls' = [calls EXCEPT ![c] = NoCall]
    /\ UNCHANGED <<fifo, shared, tasks, worker, acts, faults>>

\* The page's promise is rejected: a timeout, or the cancelAll of an account
\* change.  After a status the preview is asked for, also when the effect was
\* cleaned up.
GiveUp(c) ==
    LET x == calls[c]
        d == Slot(Free)
    IN  /\ x.open
        /\ faults < MaxFaults /\ faults' = faults + 1
        /\ \/ /\ x.what = "status"
              /\ Free # {}
              /\ calls' = [calls EXCEPT ![c].open = FALSE, ![d] = Asked("preview", x.avatar, x.hook, x.live)]
              /\ fifo' = Append(fifo, d)
              /\ UNCHANGED hooks
           \/ /\ x.what = "preview"
              /\ calls' = [calls EXCEPT ![c].open = FALSE]
              /\ hooks' = IF x.live THEN [hooks EXCEPT ![x.hook].st = "error"] ELSE hooks
              /\ UNCHANGED fifo
        /\ UNCHANGED <<shared, tasks, worker, acts>>

\* An answer to a call the page gave up.
Drop(c) ==
    /\ calls[c].host = "back" /\ ~calls[c].open
    /\ calls' = [calls EXCEPT ![c] = NoCall]
    /\ UNCHANGED <<hooks, fifo, shared, tasks, worker, acts, faults>>

-----------------------------------------------------------------------------
(* The handlers *)

\* Mutant: a job is taken whether or not a thread is free.
TakeAlways ==
    /\ fifo # <<>>
    /\ calls' = [calls EXCEPT ![Head(fifo)].host = "taken"]
    /\ fifo' = Tail(fifo)
    /\ UNCHANGED <<hooks, shared, tasks, worker, acts, faults>>

Take ==
    /\ fifo # <<>>
    /\ Cardinality(Busy) < Threads
    /\ calls' = [calls EXCEPT ![Head(fifo)].host = "taken"]
    /\ fifo' = Tail(fifo)
    /\ UNCHANGED <<hooks, shared, tasks, worker, acts, faults>>

RunStatus(c) ==
    /\ calls[c].host = "taken" /\ calls[c].what = "status"
    /\ \E ans \in {"cached", "none"} : calls' = [calls EXCEPT ![c].host = "back", ![c].ans = ans]
    /\ UNCHANGED <<hooks, fifo, shared, tasks, worker, acts, faults>>

\* Mutant: every request makes a promise of its own.
RunPreviewAlone(c) ==
    LET a == calls[c].avatar IN
    /\ calls[c].host = "taken" /\ calls[c].what = "preview"
    /\ shared' = [shared EXCEPT ![a] = c]
    /\ calls' = [calls EXCEPT ![c].host = "own", ![c].of = c]
    /\ UNCHANGED <<hooks, fifo, tasks, worker, acts, faults>>

\* A request joins the promise there is for its avatar, or makes one.
RunPreview(c) ==
    LET a == calls[c].avatar IN
    /\ calls[c].host = "taken" /\ calls[c].what = "preview"
    /\ IF shared[a] # NoOne
       THEN calls' = [calls EXCEPT ![c].host = "wait", ![c].of = shared[a]] /\ UNCHANGED shared
       ELSE /\ shared' = [shared EXCEPT ![a] = c]
            /\ calls' = [calls EXCEPT ![c].host = "own", ![c].of = c]
    /\ UNCHANGED <<hooks, fifo, tasks, worker, acts, faults>>

-----------------------------------------------------------------------------
(* The queue *)

\* What onDone leaves: whoever waits for promise p has its answer.
Told(cs, p, ans) ==
    [c \in Calls |-> IF cs[c].host = "wait" /\ cs[c].of = p
                     THEN [cs[c] EXCEPT !.host = "back", !.ans = ans] ELSE cs[c]]

\* The token of the task that runs for a, and the task that is queued for it:
\* there is at most one (SharedIsServed).
Marked(a) == IF worker.key = a THEN [worker EXCEPT !.cancelled = TRUE] ELSE worker
Queued(a) == {i \in 1..Len(tasks) : calls[tasks[i]].avatar = a}
Drained(a) == CHOOSE i \in Queued(a) : TRUE

\* Submit cancels what there is for the avatar, and enqueues.
Submit(c) ==
    LET a == calls[c].avatar
        waiting == [calls EXCEPT ![c].host = "wait"]
    IN  /\ calls[c].host = "own"
        /\ worker' = Marked(a)
        /\ IF Queued(a) = {}
           THEN /\ tasks' = Append(tasks, c)
                /\ calls' = waiting
                /\ UNCHANGED shared
           ELSE /\ tasks' = Append(RemoveAt(tasks, Drained(a)), c)
                /\ calls' = Told(waiting, tasks[Drained(a)], "cancelled")
                /\ shared' = [shared EXCEPT ![a] = NoOne]
        /\ UNCHANGED <<hooks, fifo, acts, faults>>

\* The abort: TaskQueue's Cancel.
RunAbort(c) ==
    LET a == calls[c].avatar
        gone == [calls EXCEPT ![c] = NoCall]
    IN  /\ calls[c].host = "taken" /\ calls[c].what = "abort"
        /\ worker' = Marked(a)
        /\ IF Queued(a) = {}
           THEN calls' = gone /\ UNCHANGED <<tasks, shared>>
           ELSE /\ tasks' = RemoveAt(tasks, Drained(a))
                /\ calls' = Told(gone, tasks[Drained(a)], "cancelled")
                /\ shared' = [shared EXCEPT ![a] = NoOne]
        /\ UNCHANGED <<hooks, fifo, acts, faults>>

Pop ==
    /\ worker.pc = "idle" /\ tasks # <<>>
    /\ tasks' = Tail(tasks)
    /\ worker' = [pc |-> "taken", job |-> Head(tasks), key |-> calls[Head(tasks)].avatar, cancelled |-> FALSE]
    /\ UNCHANGED <<hooks, calls, fifo, shared, acts, faults>>

\* onDone of the task that runs.
Done(ans) ==
    /\ calls' = Told(calls, worker.job, ans)
    /\ shared' = [shared EXCEPT ![worker.key] = NoOne]
    /\ worker' = [worker EXCEPT !.pc = "after"]

Begin ==
    /\ worker.pc = "taken"
    /\ IF worker.cancelled THEN Done("cancelled")
       ELSE worker' = [worker EXCEPT !.pc = "work"] /\ UNCHANGED <<calls, shared>>
    /\ UNCHANGED <<hooks, fifo, tasks, acts, faults>>

\* The extraction ends.  One whose token was cancelled may have got past its
\* last look at it; if not, it is reported as a failure like any other.
Extracted ==
    /\ worker.pc = "work"
    /\ \E ans \in {"ready", "failed"} : Done(ans)
    /\ UNCHANGED <<hooks, fifo, tasks, acts, faults>>

ClearActive ==
    /\ worker.pc = "after"
    /\ worker' = Idle
    /\ UNCHANGED <<hooks, calls, fifo, shared, tasks, acts, faults>>

-----------------------------------------------------------------------------
Page(c) == HearStatus(c) \/ HearPreview(c) \/ Drop(c)
Handler(c) == RunStatus(c) \/ RunPreview(c) \/ RunAbort(c) \/ Submit(c)
Work == Pop \/ Begin \/ Extracted \/ ClearActive

Next ==
    \/ \E h \in Hooks : \E a \in Shows[h], urls \in BOOLEAN : Turn(h, a, urls)
    \/ \E h \in Hooks : Unmount(h) \/ Again(h)
    \/ \E c \in Calls : Page(c) \/ GiveUp(c) \/ Handler(c)
    \/ Take
    \/ Work

\* The page handles its messages and timers, the threads go on, and an
\* extraction ends.
Fairness ==
    /\ \A c \in Calls : WF_vars(Page(c)) /\ WF_vars(Handler(c))
    /\ \A h \in Hooks : WF_vars(Again(h))
    /\ WF_vars(Take)
    /\ WF_vars(Work)

Spec == Init /\ [][Next]_vars /\ Fairness

-----------------------------------------------------------------------------
(* Properties *)

\* The tasks whose onDone is still to come.
Running == IF worker.pc \in {"taken", "work"} THEN {worker.job} ELSE {}
Unfinished == {c \in Calls : calls[c].host = "own"} \cup {tasks[i] : i \in 1..Len(tasks)} \cup Running

\* Nobody waits for a promise that nobody will keep.  Every entry of the map is
\* that of a task that is about to be submitted, queued or running, every such
\* task has the entry of its avatar, and every waiting thread waits for one of
\* them: onDone erases by avatar, so a second task for it, or one that ends
\* twice or never, would take the entry of another or leave its waiters behind.
SharedIsServed ==
    /\ \A c \in Unfinished : shared[calls[c].avatar] = c
    /\ \A a \in Avatars : shared[a] # NoOne => shared[a] \in Unfinished
    /\ \A c \in Calls : calls[c].host = "wait" => calls[c].of \in Unfinished

\* A hook shows the preview of its own avatar, whatever the order in which the
\* answers of its earlier avatars come back.
ShowsItsOwn ==
    \A h \in Hooks : hooks[h].st = "ready" => hooks[h].on /\ hooks[h].shows = hooks[h].avatar

\* Every attempt of a hook ends, with a preview, an error or another attempt,
\* and every request gives its thread back, however many threads are held by
\* requests in front of one worker and the aborts behind them.
AttemptsEnd ==
    /\ \A h \in Hooks : []<>~(hooks[h].urls /\ hooks[h].st = "loading" /\ ~hooks[h].timer)
    /\ \A c \in Calls : []<>(calls[c].host # "wait")

\* "cancelled — user switched avatars mid-flight": an extraction that was
\* cancelled is told as "cancelled", which does not hold once it has begun.
CancelIsTold ==
    [][worker.pc = "work" /\ worker.cancelled /\ worker'.pc = "after" =>
        \A c \in Calls : calls[c].host = "wait" /\ calls'[c].host = "back" => calls'[c].ans # "failed"]_vars
=============================================================================
