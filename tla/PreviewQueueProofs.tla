------------------------- MODULE PreviewQueueProofs -------------------------
(***************************************************************************)
(* Proofs about PreviewQueue, for any avatars, hooks, calls and threads:   *)
(* every variable keeps its type, whoever waits for a promise waits for    *)
(* one that will be kept, and a hook shows the preview of its own avatar.  *)
(***************************************************************************)
EXTENDS PreviewQueue, FiniteSetTheorems, SequenceTheorems, TLAPS

\* TypeOK without the count of threads.
CallsTyped == calls \in [Calls -> CallRecord]
FifoTyped == fifo \in Seq(Calls)
TasksTyped == tasks \in Seq(Calls)
SharedTyped == shared \in [Avatars -> Maybe(Calls)]
HooksTyped == hooks \in [Hooks -> Hook]
WorkerTyped == worker \in Worker
CountsTyped == acts \in 0..MaxActs /\ faults \in 0..MaxFaults
Types ==
    CallsTyped /\ FifoTyped /\ TasksTyped /\ SharedTyped /\ HooksTyped /\ WorkerTyped /\ CountsTyped

BusyOk == Cardinality(Busy) <= Threads

\* A slot without a call has no promise, and a call is about an avatar.
Named ==
    \A c \in Calls : /\ calls[c].host = "none" => ~calls[c].open
                     /\ calls[c].host # "none" => calls[c].avatar \in Avatars

\* Only a hook that is on has an avatar to ask for, and a timer.
HooksOk ==
    \A h \in Hooks : /\ hooks[h].on => hooks[h].avatar \in Avatars
                     /\ hooks[h].timer => hooks[h].on

\* A call whose effect was not cleaned up is about what its hook shows.
LiveOk ==
    \A c \in Calls : calls[c].live =>
        /\ calls[c].hook \in Hooks
        /\ hooks[calls[c].hook].on
        /\ hooks[calls[c].hook].avatar = calls[c].avatar

\* The pool's queue holds each call that is queued once, and no other.
FifoIs(f, cs) ==
    /\ \A i \in 1..Len(f) : cs[f[i]].host = "queued"
    /\ \A i, j \in 1..Len(f) : i # j => f[i] # f[j]
FifoOk == FifoIs(fifo, calls)

\* The threads of the tasks that are queued or run wait for their own promise.
Waits(c) == calls[c].host = "wait" /\ calls[c].of = c
TasksOk ==
    /\ \A i \in 1..Len(tasks) : Waits(tasks[i])
    /\ \A i, j \in 1..Len(tasks) : i # j => tasks[i] # tasks[j]
WorkerOk ==
    worker.pc \in {"taken", "work"} =>
        /\ worker.job \in Calls
        /\ Waits(worker.job)
        /\ worker.key = calls[worker.job].avatar
        /\ \A i \in 1..Len(tasks) : tasks[i] # worker.job

\* An entry of the map is about its avatar.
EntriesOk == \A a \in Avatars : shared[a] # NoOne => calls[shared[a]].avatar = a

\* The owner of a promise waits for it.
OwnOk == \A c \in Calls : calls[c].host = "own" => calls[c].of = c

Promises == TasksOk /\ WorkerOk /\ EntriesOk /\ OwnOk /\ SharedIsServed
Inv == Types /\ BusyOk /\ Named /\ HooksOk /\ LiveOk /\ FifoOk /\ Promises /\ ShowsItsOwn

-----------------------------------------------------------------------------
(* Records and sequences                                                   *)

LEMMA NoOneIsNone == NoOne \notin Calls /\ NoOne \notin Avatars
  BY PreviewAssumption

LEMMA NoCallIsRecord ==
  /\ NoCall \in CallRecord
  /\ NoCall.host = "none" /\ NoCall.open = FALSE /\ NoCall.live = FALSE /\ NoCall.avatar = NoOne
  BY DEF NoCall, CallRecord, Maybe

LEMMA AskedIsRecord ==
  ASSUME NEW a \in Avatars, NEW h \in Maybe(Hooks), NEW live \in BOOLEAN
  PROVE  LET x == Asked("preview", a, h, live) IN
           x \in CallRecord /\ x.host = "queued" /\ x.avatar = a /\ x.hook = h /\ x.live = live
  BY DEF Asked, NoCall, CallRecord, Maybe

LEMMA HookRecords ==
  /\ Off \in Hook /\ ~Off.on /\ ~Off.timer /\ Off.st = "loading"
  /\ \A a \in Avatars, urls \in BOOLEAN :
        LET x == Loading(a, urls) IN
          x \in Hook /\ x.on /\ x.avatar = a /\ ~x.timer /\ x.st = "loading"
<1>1. Off \in Hook /\ ~Off.on /\ ~Off.timer /\ Off.st = "loading"
  BY DEF Off, Hook, Maybe
<1>2. ASSUME NEW a \in Avatars, NEW urls \in BOOLEAN
      PROVE  LET x == Loading(a, urls) IN
               x \in Hook /\ x.on /\ x.avatar = a /\ ~x.timer /\ x.st = "loading"
  BY DEF Off, Loading, Hook, Maybe
<1> QED
  BY <1>1, <1>2

\* What Told leaves of a call.
LEMMA ToldIs ==
  ASSUME NEW cs \in [Calls -> CallRecord], NEW p \in Calls, NEW ans \in {"ready", "cancelled", "failed"}
  PROVE  /\ Told(cs, p, ans) \in [Calls -> CallRecord]
         /\ \A c \in Calls :
              LET y == Told(cs, p, ans)[c] IN
              /\ y.open = cs[c].open /\ y.avatar = cs[c].avatar /\ y.hook = cs[c].hook
              /\ y.live = cs[c].live /\ y.of = cs[c].of
              /\ y.host = IF cs[c].host = "wait" /\ cs[c].of = p THEN "back" ELSE cs[c].host
<1> DEFINE T == Told(cs, p, ans)
<1>1. ASSUME NEW c \in Calls
      PROVE  /\ T[c] \in CallRecord
             /\ T[c].open = cs[c].open /\ T[c].avatar = cs[c].avatar /\ T[c].hook = cs[c].hook
             /\ T[c].live = cs[c].live /\ T[c].of = cs[c].of
             /\ T[c].host = IF cs[c].host = "wait" /\ cs[c].of = p THEN "back" ELSE cs[c].host
  <2>1. cs[c] \in CallRecord
    OBVIOUS
  <2>2. CASE cs[c].host = "wait" /\ cs[c].of = p
    <3>1. T[c] = [cs[c] EXCEPT !.host = "back", !.ans = ans]
      BY <2>2 DEF Told
    <3> QED
      BY <2>1, <2>2, <3>1 DEF CallRecord
  <2>3. CASE ~(cs[c].host = "wait" /\ cs[c].of = p)
    BY <2>1, <2>3 DEF Told
  <2> QED
    BY <2>2, <2>3
<1>2. T \in [Calls -> CallRecord]
  <2>1. T = [c \in Calls |-> T[c]]
    BY DEF Told
  <2> HIDE DEF T
  <2> QED
    BY <1>1, <2>1
<1> QED
  BY <1>1, <1>2

LEMMA RemoveIs ==
  ASSUME NEW s \in Seq(Calls), NEW i \in 1..Len(s)
  PROVE  LET t == RemoveAt(s, i) IN
         /\ t \in Seq(Calls) /\ Len(t) = Len(s) - 1
         /\ \A j \in 1..Len(t) : t[j] = s[IF j < i THEN j ELSE j + 1]
<1> DEFINE a == SubSeq(s, 1, i - 1)
           b == SubSeq(s, i + 1, Len(s))
<1>1. Len(s) \in Nat /\ i \in Nat /\ i >= 1 /\ i <= Len(s) /\ \A j \in 1..Len(s) : s[j] \in Calls
  BY LenProperties, ElementOfSeq
<1>2. /\ a \in Seq(Calls) /\ Len(a) = i - 1
      /\ \A j \in 1..(i - 1) : a[j] = s[j]
  <2>1. 1 \in Int /\ i - 1 \in Int /\ \A j \in 1..(i - 1) : s[j] \in Calls
    BY <1>1
  <2>2. /\ a \in Seq(Calls) /\ Len(a) = (IF 1 <= i - 1 THEN i - 1 - 1 + 1 ELSE 0)
        /\ \A j \in 1..(i - 1 - 1 + 1) : a[j] = s[1 + j - 1]
    BY <2>1, SubSeqProperties
  <2> HIDE DEF a
  <2> QED
    BY <1>1, <2>2
<1>3. /\ b \in Seq(Calls) /\ Len(b) = Len(s) - i
      /\ \A j \in 1..(Len(s) - i) : b[j] = s[i + j]
  <2>1. i + 1 \in Int /\ Len(s) \in Int /\ \A j \in (i + 1)..Len(s) : s[j] \in Calls
    BY <1>1
  <2>2. /\ b \in Seq(Calls) /\ Len(b) = (IF i + 1 <= Len(s) THEN Len(s) - (i + 1) + 1 ELSE 0)
        /\ \A j \in 1..(Len(s) - (i + 1) + 1) : b[j] = s[i + 1 + j - 1]
    BY <2>1, SubSeqProperties
  <2> HIDE DEF b
  <2> QED
    BY <1>1, <2>2
<1>4. RemoveAt(s, i) = a \o b
  BY DEF RemoveAt
<1> HIDE DEF a, b
<1> DEFINE t == a \o b
<1>5. /\ t \in Seq(Calls) /\ Len(t) = Len(a) + Len(b)
      /\ \A j \in 1..(Len(a) + Len(b)) : t[j] = IF j <= Len(a) THEN a[j] ELSE b[j - Len(a)]
  BY <1>2, <1>3, ConcatProperties
<1> HIDE DEF t
<1>6. Len(t) = Len(s) - 1
  BY <1>1, <1>2, <1>3, <1>5
<1>7. ASSUME NEW j \in 1..Len(t)
      PROVE  t[j] = s[IF j < i THEN j ELSE j + 1]
  <2>1. j \in Nat /\ j \in 1..(Len(a) + Len(b))
    BY <1>1, <1>5, <1>6
  <2>2. CASE j < i
    BY <2>1, <2>2, <1>1, <1>2, <1>5
  <2>3. CASE ~(j < i)
    <3>1. j - (i - 1) \in 1..(Len(s) - i) /\ ~(j <= Len(a)) /\ i + (j - (i - 1)) = j + 1
      BY <2>1, <2>3, <1>1, <1>2, <1>6
    <3>2. t[j] = b[j - (i - 1)] /\ b[j - (i - 1)] = s[i + (j - (i - 1))]
      BY <2>1, <3>1, <1>2, <1>3, <1>5
    <3> QED
      BY <2>3, <3>1, <3>2
  <2> QED
    BY <2>2, <2>3
<1> QED
  BY <1>4, <1>5, <1>6, <1>7 DEF t

-----------------------------------------------------------------------------
(* The pool's queue                                                        *)

LEMMA AppendsNew ==
  ASSUME NEW f \in Seq(Calls), NEW cs, FifoIs(f, cs), NEW c \in Calls, cs[c].host = "queued",
         \A i \in 1..Len(f) : f[i] # c
  PROVE  /\ FifoIs(Append(f, c), cs) /\ Append(f, c) \in Seq(Calls)
         /\ \A d : d # c /\ (\A i \in 1..Len(f) : f[i] # d) =>
              \A i \in 1..Len(Append(f, c)) : Append(f, c)[i] # d
<1> DEFINE g == Append(f, c)
<1>1. /\ g \in Seq(Calls) /\ Len(g) = Len(f) + 1
      /\ \A i \in 1..Len(f) : g[i] = f[i]
      /\ g[Len(f) + 1] = c /\ Len(f) \in Nat
  BY AppendProperties, LenProperties
<1> HIDE DEF g
<1>2. FifoIs(g, cs)
  BY <1>1 DEF FifoIs
<1>3. \A d : d # c /\ (\A i \in 1..Len(f) : f[i] # d) => \A i \in 1..Len(g) : g[i] # d
  BY <1>1
<1> QED
  BY <1>1, <1>2, <1>3 DEF g

LEMMA CarriedOver ==
  ASSUME NEW f \in Seq(Calls), NEW cs, FifoIs(f, cs), NEW ds,
         \A c \in Calls : cs[c].host = "queued" => ds[c].host = "queued"
  PROVE  FifoIs(f, ds)
<1>1. \A i \in 1..Len(f) : f[i] \in Calls
  BY ElementOfSeq
<1> QED
  BY <1>1 DEF FifoIs

\* A call that was not queued is appended.
LEMMA Enqueued ==
  ASSUME FifoTyped, FifoOk, NEW c \in Calls, calls[c].host # "queued", calls'[c].host = "queued",
         \A d \in Calls : calls[d].host = "queued" => calls'[d].host = "queued",
         fifo' = Append(fifo, c)
  PROVE  FifoTyped' /\ FifoOk'
<1>1. FifoIs(fifo, calls') /\ \A i \in 1..Len(fifo) : fifo[i] # c
  BY CarriedOver DEF FifoTyped, FifoOk, FifoIs
<1> QED
  BY <1>1, AppendsNew DEF FifoTyped, FifoOk

\* The queue is left alone.
LEMMA FifoStays ==
  ASSUME FifoTyped, FifoOk, fifo' = fifo,
         \A d \in Calls : calls[d].host = "queued" => calls'[d].host = "queued"
  PROVE  FifoTyped' /\ FifoOk'
  BY CarriedOver DEF FifoTyped, FifoOk

-----------------------------------------------------------------------------
(* What most steps leave alone                                             *)

LEMMA BusyKeeps ==
  ASSUME BusyOk, \A c \in Calls : calls'[c].host \in {"taken", "own", "wait"} => c \in Busy
  PROVE  BusyOk'
<1>1. Busy' \subseteq Busy /\ IsFiniteSet(Busy)
  <2>1. Busy \subseteq Calls
    BY DEF Busy
  <2> QED
    BY <2>1, PreviewAssumption, FS_Subset DEF Busy
<1>2. Cardinality(Busy') <= Cardinality(Busy) /\ Cardinality(Busy) \in Nat /\ Cardinality(Busy') \in Nat
  BY <1>1, FS_Subset, FS_CardinalityType
<1> QED
  BY <1>2, PreviewAssumption DEF BusyOk

\* A step that leaves the promises and those who own or await one alone.
LEMMA QuietStep ==
  ASSUME Types, Promises, shared' = shared, tasks' = tasks,
         worker'.pc = worker.pc, worker'.job = worker.job, worker'.key = worker.key,
         \A c \in Calls : calls[c].host \in {"own", "wait"} \/ calls'[c].host \in {"own", "wait"} =>
             /\ calls'[c].host = calls[c].host /\ calls'[c].of = calls[c].of
             /\ calls'[c].avatar = calls[c].avatar
  PROVE  Promises'
<1>1. \A i \in 1..Len(tasks) : tasks[i] \in Calls
  BY ElementOfSeq DEF Types, TasksTyped
<1>2. \A c \in Unfinished : /\ c \in Calls /\ calls[c].host \in {"own", "wait"}
  BY <1>1 DEF Unfinished, Running, Promises, TasksOk, WorkerOk, Waits
<1>3. Unfinished' = Unfinished
  <2>1. {c \in Calls : calls'[c].host = "own"} = {c \in Calls : calls[c].host = "own"}
    OBVIOUS
  <2> QED
    BY <2>1 DEF Unfinished, Running
<1>4. TasksOk'
  BY <1>1 DEF Promises, TasksOk, Waits
<1>5. WorkerOk'
  BY DEF Promises, WorkerOk, Waits
<1>6. EntriesOk'
  BY <1>2 DEF Promises, EntriesOk, SharedIsServed
<1>7. SharedIsServed'
  BY <1>2, <1>3 DEF Promises, SharedIsServed
<1>8. OwnOk'
  BY DEF Promises, OwnOk
<1> QED
  BY <1>4, <1>5, <1>6, <1>7, <1>8 DEF Promises

\* Every call is gone, left alone, or about what one that was there is about.
Follows ==
    \A c \in Calls : \/ calls'[c] = NoCall
                     \/ calls'[c] = calls[c]
                     \/ /\ calls'[c].host # "none"
                        /\ \E e \in Calls : /\ calls[e].host # "none"
                                            /\ calls'[c].avatar = calls[e].avatar
                                            /\ calls'[c].hook = calls[e].hook
                                            /\ calls'[c].live => calls[e].live

\* A step that leaves the hooks alone.
LEMMA HostStep ==
  ASSUME HooksTyped, Named, HooksOk, LiveOk, ShowsItsOwn, hooks' = hooks, Follows
  PROVE  HooksTyped' /\ Named' /\ HooksOk' /\ LiveOk' /\ ShowsItsOwn'
<1>1. Named'
  BY NoCallIsRecord DEF Named, Follows
<1>2. HooksTyped' /\ HooksOk' /\ ShowsItsOwn'
  BY DEF HooksTyped, HooksOk, ShowsItsOwn
<1>3. LiveOk'
  BY NoCallIsRecord DEF LiveOk, Follows
<1> QED
  BY <1>1, <1>2, <1>3

\* A step in which one hook hears of its own avatar.
LEMMA HookStep ==
  ASSUME HooksTyped, Named, HooksOk, LiveOk, ShowsItsOwn, Follows,
         NEW k \in Hooks, hooks[k].on, NEW r \in Hook, r.on, r.avatar = hooks[k].avatar,
         r.st = "ready" => r.shows = r.avatar, hooks' = [hooks EXCEPT ![k] = r]
  PROVE  HooksTyped' /\ Named' /\ HooksOk' /\ LiveOk' /\ ShowsItsOwn'
<1>1. Named'
  BY NoCallIsRecord DEF Named, Follows
<1>2. HooksTyped' /\ \A h \in Hooks : hooks'[h] = IF h = k THEN r ELSE hooks[h]
  BY DEF HooksTyped
<1>3. HooksOk' /\ ShowsItsOwn'
  BY <1>2 DEF HooksOk, ShowsItsOwn
<1>4. LiveOk'
  BY <1>2, NoCallIsRecord DEF LiveOk, Follows
<1> QED
  BY <1>1, <1>2, <1>3, <1>4

\* Inv', from its parts.
LEMMA PartsMakeInv ==
  ASSUME CallsTyped', FifoTyped', TasksTyped', SharedTyped', HooksTyped', WorkerTyped', CountsTyped',
         BusyOk', Named', HooksOk', LiveOk', FifoOk', Promises', ShowsItsOwn'
  PROVE  Inv'
<1>1. Types'
  BY DEF Types
<1> QED
  BY <1>1 DEF Inv

-----------------------------------------------------------------------------
(* The hook                                                                *)

LEMMA FreeSlots ==
  ASSUME NEW S \in SUBSET Free, S # {}
  PROVE  Slot(S) \in S /\ Slot(S) \in Calls /\ calls[Slot(S)] = NoCall
  BY DEF Slot, Free

\* The effect runs again.
LEMMA RenewKeeps ==
  ASSUME Inv, NEW h \in Hooks, NEW new \in Hook, new.on => new.avatar \in Avatars,
         ~new.timer, new.st = "loading", Renew(h, new), CountsTyped'
  PROVE  Inv'
<1> DEFINE stops == hooks[h].on
           asks == new.on /\ new.urls
           i == Slot(Free)
           j == IF stops THEN Slot(Free \ {i}) ELSE i
           x == Asked("abort", hooks[h].avatar, h, FALSE)
           y == Asked("status", new.avatar, h, TRUE)
           f == fifo \o (IF stops THEN <<i>> ELSE <<>>)
<1>1. /\ calls \in [Calls -> CallRecord] /\ hooks \in [Hooks -> Hook] /\ fifo \in Seq(Calls)
      /\ hooks[h] \in Hook
  BY DEF Inv, Types, CallsTyped, HooksTyped, FifoTyped
<1>2. /\ stops => Free # {}
      /\ asks => Free \ (IF stops THEN {i} ELSE {}) # {}
      /\ hooks' = [hooks EXCEPT ![h] = new]
      /\ calls' = [c \in Calls |->
                IF stops /\ c = i THEN x
                ELSE IF asks /\ c = j THEN y
                ELSE IF calls[c].hook = h THEN [calls[c] EXCEPT !.live = FALSE] ELSE calls[c]]
      /\ fifo' = f \o (IF asks THEN <<j>> ELSE <<>>)
      /\ shared' = shared /\ tasks' = tasks /\ worker' = worker
  BY DEF Renew
<1>3. stops => i \in Calls /\ calls[i] = NoCall
  BY <1>2, FreeSlots
<1>4. asks => j \in Calls /\ calls[j] = NoCall /\ (stops => j # i)
  <2>1. CASE ~stops
    BY <1>2, <2>1, FreeSlots
  <2>2. CASE stops
    BY <1>2, <2>2, FreeSlots
  <2> QED
    BY <2>1, <2>2
<1>5. stops => x \in CallRecord /\ x.host = "queued" /\ x.avatar \in Avatars /\ ~x.live
  <2>1. stops => hooks[h].avatar \in Avatars
    BY DEF Inv, HooksOk
  <2>2. ASSUME NEW a \in Avatars
        PROVE  LET z == Asked("abort", a, h, FALSE) IN
               z \in CallRecord /\ z.host = "queued" /\ z.avatar = a /\ z.live = FALSE
    BY DEF Asked, NoCall, CallRecord, Maybe
  <2> QED
    BY <2>1, <2>2
<1>6. asks => y \in CallRecord /\ y.host = "queued" /\ y.avatar = new.avatar /\ y.avatar \in Avatars /\ y.hook = h
  <2>1. ASSUME NEW a \in Avatars
        PROVE  LET z == Asked("status", a, h, TRUE) IN
               z \in CallRecord /\ z.host = "queued" /\ z.avatar = a /\ z.hook = h
    BY DEF Asked, NoCall, CallRecord, Maybe
  <2> QED
    BY <2>1
<1> HIDE DEF x, y, i, j
<1>7. ASSUME NEW c \in Calls, ~(stops /\ c = i), ~(asks /\ c = j)
      PROVE  /\ calls'[c] \in CallRecord
             /\ calls'[c].host = calls[c].host /\ calls'[c].open = calls[c].open
             /\ calls'[c].of = calls[c].of /\ calls'[c].avatar = calls[c].avatar
             /\ calls'[c].hook = calls[c].hook
             /\ calls'[c].live => calls[c].live /\ calls[c].hook # h
  <2>1. calls[c] \in CallRecord
    BY <1>1
  <2>2. calls'[c] = IF calls[c].hook = h THEN [calls[c] EXCEPT !.live = FALSE] ELSE calls[c]
    BY <1>2, <1>7
  <2> QED
    BY <2>1, <2>2 DEF CallRecord
<1>8. /\ stops => calls'[i] = x
      /\ asks => calls'[j] = y
  BY <1>2, <1>3, <1>4
<1>9. ASSUME NEW c \in Calls
      PROVE  \/ stops /\ c = i /\ calls'[c] = x /\ calls[c] = NoCall
             \/ asks /\ c = j /\ calls'[c] = y /\ calls[c] = NoCall
             \/ ~(stops /\ c = i) /\ ~(asks /\ c = j)
  BY <1>3, <1>4, <1>8
<1>10. CallsTyped'
  <2>1. \A c \in Calls : calls'[c] \in CallRecord
    BY <1>5, <1>6, <1>7, <1>9
  <2> QED
    BY <1>2, <2>1 DEF CallsTyped
<1>11. HooksTyped' /\ HooksOk' /\ ShowsItsOwn'
  <2>1. \A k \in Hooks : hooks'[k] = IF k = h THEN new ELSE hooks[k]
    BY <1>1, <1>2
  <2>2. hooks' \in [Hooks -> Hook]
    BY <1>1, <1>2
  <2> QED
    BY <2>1, <2>2 DEF HooksTyped, HooksOk, ShowsItsOwn, Inv
<1>12. LiveOk'
  <2> SUFFICES ASSUME NEW c \in Calls, calls'[c].live
               PROVE  /\ calls'[c].hook \in Hooks
                      /\ hooks'[calls'[c].hook].on
                      /\ hooks'[calls'[c].hook].avatar = calls'[c].avatar
    BY DEF LiveOk
  <2>1. CASE asks /\ c = j /\ calls'[c] = y
    BY <1>1, <1>2, <1>6, <2>1
  <2>2. CASE ~(stops /\ c = i) /\ ~(asks /\ c = j)
    <3>1. /\ calls[c].live /\ calls[c].hook # h
          /\ calls'[c].hook = calls[c].hook /\ calls'[c].avatar = calls[c].avatar
      BY <1>7, <2>2
    <3> QED
      BY <1>1, <1>2, <3>1 DEF Inv, LiveOk
  <2> QED
    BY <1>5, <1>9, <2>1, <2>2
<1>13. Named'
  BY <1>5, <1>6, <1>7, <1>9 DEF Named, Inv
<1>14. BusyOk'
  <2>1. \A c \in Calls : calls'[c].host \in {"taken", "own", "wait"} => c \in Busy
    BY <1>5, <1>6, <1>7, <1>9 DEF Busy
  <2> QED
    BY <2>1, BusyKeeps DEF Inv
<1>15. Promises'
  <2>1. \A c \in Calls : calls[c].host \in {"own", "wait"} \/ calls'[c].host \in {"own", "wait"} =>
             /\ calls'[c].host = calls[c].host /\ calls'[c].of = calls[c].of
             /\ calls'[c].avatar = calls[c].avatar
    BY <1>5, <1>6, <1>7, <1>9, NoCallIsRecord
  <2> QED
    BY <1>2, <2>1, QuietStep DEF Inv
<1>16. FifoTyped' /\ FifoOk'
  <2>1. FifoIs(fifo, calls') /\ \A k \in 1..Len(fifo) : calls[fifo[k]].host = "queued"
    <3>1. \A c \in Calls : calls[c].host = "queued" => calls'[c].host = "queued"
      BY <1>5, <1>6, <1>7, <1>9
    <3> QED
      BY <1>1, <3>1, CarriedOver DEF Inv, FifoOk, FifoIs
  <2>2. \A c \in Calls : calls[c] = NoCall => \A k \in 1..Len(fifo) : fifo[k] # c
    BY <2>1, NoCallIsRecord
  <2>3. /\ f \in Seq(Calls) /\ FifoIs(f, calls')
        /\ asks => \A k \in 1..Len(f) : f[k] # j
    <3>1. CASE stops
      <4>1. f = Append(fifo, i)
        BY <1>1, <1>3, <3>1, AppendIsConcat
      <4>2. calls'[i].host = "queued"
        BY <1>5, <1>8, <3>1
      <4> QED
        BY <1>1, <1>3, <1>4, <2>1, <2>2, <3>1, <4>1, <4>2, AppendsNew
    <3>2. CASE ~stops
      <4>1. f = fifo
        BY <1>1, <3>2, ConcatEmptySeq
      <4> QED
        BY <1>1, <1>4, <2>1, <2>2, <4>1
    <3> QED
      BY <3>1, <3>2
  <2> HIDE DEF f
  <2>4. CASE asks
    <3>1. fifo' = Append(f, j)
      BY <1>2, <1>4, <2>3, <2>4, AppendIsConcat
    <3>2. calls'[j].host = "queued"
      BY <1>6, <1>8, <2>4
    <3> QED
      BY <1>4, <2>3, <2>4, <3>1, <3>2, AppendsNew DEF FifoTyped, FifoOk
  <2>5. CASE ~asks
    <3>1. fifo' = f
      BY <1>2, <2>3, <2>5, ConcatEmptySeq
    <3> QED
      BY <2>3, <3>1 DEF FifoTyped, FifoOk
  <2> QED
    BY <2>4, <2>5
<1>17. TasksTyped' /\ SharedTyped' /\ WorkerTyped'
  BY <1>2 DEF Inv, Types, TasksTyped, SharedTyped, WorkerTyped
<1> QED
  BY <1>10, <1>11, <1>12, <1>13, <1>14, <1>15, <1>16, <1>17, PartsMakeInv

LEMMA HearStatusKeeps == ASSUME Inv, NEW c \in Calls, HearStatus(c) PROVE Inv'
<1> DEFINE x == calls[c]
<1>1. /\ calls \in [Calls -> CallRecord] /\ hooks \in [Hooks -> Hook] /\ x \in CallRecord
      /\ x.host = "back" /\ x.avatar \in Avatars /\ NoCall \in CallRecord
  BY NoCallIsRecord DEF Inv, Types, CallsTyped, HooksTyped, HearStatus, Named
<1>2. x.live => /\ x.hook \in Hooks /\ hooks[x.hook].on /\ hooks[x.hook].avatar = x.avatar
                /\ hooks[x.hook] \in Hook
  BY <1>1 DEF Inv, LiveOk
<1>3. CASE x.live /\ x.ans # "cached"
  <2> DEFINE y == Asked("preview", x.avatar, x.hook, TRUE)
  <2>1. y \in CallRecord /\ y.host = "queued" /\ y.avatar = x.avatar /\ y.hook = x.hook
    BY <1>1, <1>2, <1>3 DEF Asked, NoCall, CallRecord, Maybe
  <2>2. calls' = [calls EXCEPT ![c] = y] /\ fifo' = Append(fifo, c) /\ hooks' = hooks
    BY <1>3 DEF HearStatus
  <2> HIDE DEF y
  <2>3. calls' \in [Calls -> CallRecord] /\ calls'[c] = y /\ \A d \in Calls : d # c => calls'[d] = calls[d]
    BY <1>1, <2>1, <2>2
  <2>4. Follows
    BY <1>1, <1>3, <2>1, <2>3 DEF Follows
  <2>5. FifoTyped' /\ FifoOk'
    BY <1>1, <2>1, <2>2, <2>3, Enqueued DEF Inv, Types
  <2>6. BusyOk' /\ Promises'
    <3>1. /\ UNCHANGED <<shared, tasks, worker>>
          /\ calls'[c].host = "queued" /\ calls[c].host = "back"
      BY <1>1, <2>1, <2>3 DEF HearStatus
    <3> QED
      BY <2>3, <3>1, BusyKeeps, QuietStep DEF Inv, Busy
  <2> QED
    BY <2>2, <2>3, <2>4, <2>5, <2>6, HostStep, PartsMakeInv
    DEF Inv, Types, HearStatus, CallsTyped, TasksTyped, SharedTyped, WorkerTyped, CountsTyped
<1>4. CASE ~x.live \/ x.ans = "cached"
  <2>1. calls' = [calls EXCEPT ![c] = NoCall] /\ fifo' = fifo /\ UNCHANGED <<shared, tasks, worker, acts, faults>>
    BY <1>4 DEF HearStatus
  <2>2. calls' \in [Calls -> CallRecord] /\ calls'[c] = NoCall /\ \A d \in Calls : d # c => calls'[d] = calls[d]
    BY <1>1, <2>1
  <2>3. Follows
    BY <2>2 DEF Follows
  <2>4. FifoTyped' /\ FifoOk' /\ BusyOk' /\ Promises'
    BY <1>1, <2>1, <2>2, NoCallIsRecord, FifoStays, BusyKeeps, QuietStep DEF Inv, Types, Busy
  <2>5. HooksTyped' /\ Named' /\ HooksOk' /\ LiveOk' /\ ShowsItsOwn'
    <3>1. CASE ~x.live
      <4>1. hooks' = hooks
        BY <3>1 DEF HearStatus
      <4> QED
        BY <2>3, <4>1, HostStep DEF Inv, Types
    <3>2. CASE x.live /\ x.ans = "cached"
      <4> DEFINE r == [hooks[x.hook] EXCEPT !.st = "ready", !.shows = x.avatar]
      <4>1. hooks' = [hooks EXCEPT ![x.hook] = r]
        BY <1>1, <1>2, <3>2 DEF HearStatus
      <4>2. r \in Hook /\ r.on /\ r.avatar = hooks[x.hook].avatar /\ r.shows = r.avatar
        BY <1>1, <1>2, <3>2 DEF Hook, Maybe
      <4> HIDE DEF r
      <4> QED
        BY <1>2, <2>3, <3>2, <4>1, <4>2, HookStep DEF Inv, Types
    <3> QED
      BY <1>4, <3>1, <3>2
  <2> QED
    BY <2>1, <2>2, <2>4, <2>5, PartsMakeInv
    DEF Inv, Types, CallsTyped, TasksTyped, SharedTyped, WorkerTyped, CountsTyped
<1> QED
  BY <1>3, <1>4

\* What a hook makes of an answer.
LEMMA RespondedIs ==
  ASSUME NEW k \in Hook, k.on, NEW ans, NEW a \in Avatars, a = k.avatar
  PROVE  LET r == Responded(k, ans, a) IN
           r \in Hook /\ r.on /\ r.avatar = k.avatar /\ (r.st = "ready" => r.shows = r.avatar)
<1>1. CASE ans = "ready"
  BY <1>1 DEF Responded, Hook, Maybe
<1>2. CASE ans = "cancelled"
  BY <1>2 DEF Responded, Hook, Maybe
<1>3. CASE ans # "ready" /\ ans # "cancelled"
  BY <1>3 DEF Responded, Hook, Maybe
<1> QED
  BY <1>1, <1>2, <1>3

LEMMA HearPreviewKeeps == ASSUME Inv, NEW c \in Calls, HearPreview(c) PROVE Inv'
<1> DEFINE x == calls[c]
<1>1. /\ calls \in [Calls -> CallRecord] /\ hooks \in [Hooks -> Hook] /\ x \in CallRecord
      /\ x.host = "back" /\ x.avatar \in Avatars /\ NoCall \in CallRecord
  BY NoCallIsRecord DEF Inv, Types, CallsTyped, HooksTyped, HearPreview, Named
<1>2. calls' = [calls EXCEPT ![c] = NoCall] /\ fifo' = fifo /\ UNCHANGED <<shared, tasks, worker, acts, faults>>
  BY DEF HearPreview
<1>3. calls' \in [Calls -> CallRecord] /\ calls'[c] = NoCall /\ \A d \in Calls : d # c => calls'[d] = calls[d]
  BY <1>1, <1>2
<1>4. Follows
  BY <1>3 DEF Follows
<1>5. FifoTyped' /\ FifoOk' /\ BusyOk' /\ Promises'
  BY <1>1, <1>2, <1>3, NoCallIsRecord, FifoStays, BusyKeeps, QuietStep DEF Inv, Types, Busy
<1>6. HooksTyped' /\ Named' /\ HooksOk' /\ LiveOk' /\ ShowsItsOwn'
  <2>1. CASE ~x.live
    <3>1. hooks' = hooks
      BY <2>1 DEF HearPreview
    <3> QED
      BY <1>4, <3>1, HostStep DEF Inv, Types
  <2>2. CASE x.live
    <3> DEFINE r == Responded(hooks[x.hook], x.ans, x.avatar)
    <3>1. x.hook \in Hooks /\ hooks[x.hook].on /\ hooks[x.hook].avatar = x.avatar /\ hooks[x.hook] \in Hook
      BY <1>1, <2>2 DEF Inv, LiveOk
    <3>2. hooks' = [hooks EXCEPT ![x.hook] = r]
      BY <1>1, <2>2, <3>1 DEF HearPreview
    <3>3. r \in Hook /\ r.on /\ r.avatar = hooks[x.hook].avatar /\ (r.st = "ready" => r.shows = r.avatar)
      BY <1>1, <3>1, RespondedIs
    <3> HIDE DEF r
    <3> QED
      BY <1>4, <3>1, <3>2, <3>3, HookStep DEF Inv, Types
  <2> QED
    BY <2>1, <2>2
<1> QED
  BY <1>2, <1>3, <1>5, <1>6, PartsMakeInv
  DEF Inv, Types, CallsTyped, TasksTyped, SharedTyped, WorkerTyped, CountsTyped

LEMMA GiveUpKeeps == ASSUME Inv, NEW c \in Calls, GiveUp(c) PROVE Inv'
<1> DEFINE x == calls[c]
           z == [x EXCEPT !.open = FALSE]
<1>1. /\ calls \in [Calls -> CallRecord] /\ hooks \in [Hooks -> Hook] /\ x \in CallRecord
      /\ x.open /\ x.host # "none" /\ x.avatar \in Avatars
  BY DEF Inv, Types, CallsTyped, HooksTyped, GiveUp, Named
<1>2. /\ z \in CallRecord /\ z.host = x.host /\ z.avatar = x.avatar /\ z.hook = x.hook
      /\ z.of = x.of /\ z.live = x.live
  BY <1>1 DEF CallRecord
<1>3. UNCHANGED <<shared, tasks, worker, acts>> /\ faults' \in 0..MaxFaults
  BY PreviewAssumption DEF GiveUp, Inv, Types, CountsTyped
<1> HIDE DEF z
<1>4. CASE x.what = "status"
  <2> DEFINE d == Slot(Free)
             y == Asked("preview", x.avatar, x.hook, x.live)
  <2>1. d \in Calls /\ calls[d] = NoCall /\ d # c
    BY <1>1, <1>4, FreeSlots, NoCallIsRecord DEF GiveUp
  <2>2. y \in CallRecord /\ y.host = "queued" /\ y.avatar = x.avatar /\ y.hook = x.hook /\ y.live = x.live
    <3>1. x.hook \in Maybe(Hooks) /\ x.live \in BOOLEAN
      BY <1>1 DEF CallRecord
    <3> QED
      BY <1>1, <3>1, AskedIsRecord
  <2>3. calls' = [calls EXCEPT ![c].open = FALSE, ![d] = y] /\ fifo' = Append(fifo, d) /\ hooks' = hooks
    BY <1>4 DEF GiveUp
  <2> HIDE DEF d, y
  <2>4. /\ calls' \in [Calls -> CallRecord] /\ calls'[c] = z /\ calls'[d] = y
        /\ \A e \in Calls : e # c /\ e # d => calls'[e] = calls[e]
    <3>1. calls' = [e \in Calls |-> IF e = d THEN y ELSE IF e = c THEN z ELSE calls[e]]
      BY <1>1, <2>1, <2>3 DEF z
    <3> QED
      BY <1>1, <1>2, <2>1, <2>2, <3>1
  <2>5. Follows
    BY <1>1, <1>2, <2>1, <2>2, <2>4 DEF Follows
  <2>6. FifoTyped' /\ FifoOk'
    BY ZenonT(30), <1>2, <2>1, <2>2, <2>3, <2>4, NoCallIsRecord, Enqueued DEF Inv, Types
  <2>7. BusyOk' /\ Promises'
    <3>1. \A e \in Calls : \/ calls'[e].host = calls[e].host /\ calls'[e].of = calls[e].of
                                /\ calls'[e].avatar = calls[e].avatar
                           \/ calls[e].host = "none" /\ calls'[e].host = "queued"
      BY <1>2, <2>1, <2>2, <2>4, NoCallIsRecord
    <3> QED
      BY <1>3, <3>1, BusyKeeps, QuietStep DEF Inv, Busy
  <2> QED
    BY <1>3, <2>3, <2>4, <2>5, <2>6, <2>7, HostStep, PartsMakeInv
    DEF Inv, Types, CallsTyped, TasksTyped, SharedTyped, WorkerTyped, CountsTyped
<1>5. CASE x.what # "status"
  <2>1. calls' = [calls EXCEPT ![c] = z] /\ fifo' = fifo
    BY <1>5 DEF GiveUp, z
  <2>2. calls' \in [Calls -> CallRecord] /\ calls'[c] = z /\ \A d \in Calls : d # c => calls'[d] = calls[d]
    BY <1>1, <1>2, <2>1
  <2>3. Follows
    BY <1>1, <1>2, <2>2 DEF Follows
  <2>4. FifoTyped' /\ FifoOk' /\ BusyOk' /\ Promises'
    <3>1. \A e \in Calls : calls'[e].host = calls[e].host /\ calls'[e].of = calls[e].of
                                /\ calls'[e].avatar = calls[e].avatar
      BY <1>2, <2>2
    <3> QED
      BY <1>3, <2>1, <3>1, FifoStays, BusyKeeps, QuietStep DEF Inv, Types, Busy
  <2>5. HooksTyped' /\ Named' /\ HooksOk' /\ LiveOk' /\ ShowsItsOwn'
    <3>1. CASE ~x.live
      <4>1. hooks' = hooks
        BY <1>5, <3>1 DEF GiveUp
      <4> QED
        BY <2>3, <4>1, HostStep DEF Inv, Types
    <3>2. CASE x.live
      <4> DEFINE r == [hooks[x.hook] EXCEPT !.st = "error"]
      <4>1. x.hook \in Hooks /\ hooks[x.hook].on /\ hooks[x.hook] \in Hook
        BY <1>1, <3>2 DEF Inv, LiveOk
      <4>2. hooks' = [hooks EXCEPT ![x.hook] = r]
        BY <1>1, <1>5, <3>2, <4>1 DEF GiveUp
      <4>3. r \in Hook /\ r.on /\ r.avatar = hooks[x.hook].avatar /\ r.st # "ready"
        BY <4>1 DEF Hook
      <4> HIDE DEF r
      <4> QED
        BY <2>3, <4>1, <4>2, <4>3, HookStep DEF Inv, Types
    <3> QED
      BY <3>1, <3>2
  <2> QED
    BY <1>3, <2>2, <2>4, <2>5, PartsMakeInv
    DEF Inv, Types, CallsTyped, TasksTyped, SharedTyped, WorkerTyped, CountsTyped
<1> QED
  BY <1>4, <1>5

LEMMA DropKeeps == ASSUME Inv, NEW c \in Calls, Drop(c) PROVE Inv'
<1>1. /\ calls \in [Calls -> CallRecord] /\ calls[c].host = "back" /\ NoCall \in CallRecord
      /\ calls' = [calls EXCEPT ![c] = NoCall]
      /\ UNCHANGED <<hooks, fifo, shared, tasks, worker, acts, faults>>
  BY NoCallIsRecord DEF Drop, Inv, Types, CallsTyped
<1>2. calls' \in [Calls -> CallRecord] /\ calls'[c] = NoCall /\ \A d \in Calls : d # c => calls'[d] = calls[d]
  BY <1>1
<1>3. Follows
  BY <1>2 DEF Follows
<1>4. FifoTyped' /\ FifoOk' /\ BusyOk' /\ Promises'
  BY <1>1, <1>2, NoCallIsRecord, FifoStays, BusyKeeps, QuietStep DEF Inv, Types, Busy
<1> QED
  BY <1>1, <1>2, <1>3, <1>4, HostStep, PartsMakeInv
  DEF Inv, Types, CallsTyped, TasksTyped, SharedTyped, WorkerTyped, CountsTyped

-----------------------------------------------------------------------------
(* The handlers                                                            *)

LEMMA TakeKeeps == ASSUME Inv, Take PROVE Inv'
<1> DEFINE c == Head(fifo)
           z == [calls[c] EXCEPT !.host = "taken"]
<1>1. /\ calls \in [Calls -> CallRecord] /\ fifo \in Seq(Calls) /\ fifo # <<>>
      /\ Cardinality(Busy) < Threads
      /\ calls' = [calls EXCEPT ![c].host = "taken"] /\ fifo' = Tail(fifo)
      /\ UNCHANGED <<hooks, shared, tasks, worker, acts, faults>>
  BY DEF Take, Inv, Types, CallsTyped, FifoTyped
<1>2. /\ c \in Calls /\ Tail(fifo) \in Seq(Calls) /\ Len(fifo) \in Nat /\ Len(fifo) >= 1
      /\ Len(Tail(fifo)) = Len(fifo) - 1 /\ c = fifo[1]
      /\ \A i \in 1..(Len(fifo) - 1) : Tail(fifo)[i] = fifo[i + 1]
  <2>1. fifo # <<>> => Len(fifo) \in Nat /\ Len(fifo) >= 1
    BY <1>1, EmptySeq, LenProperties
  <2>2. c \in Calls /\ Tail(fifo) \in Seq(Calls) /\ c = fifo[1]
    BY <1>1, HeadTailProperties
  <2> QED
    BY <1>1, <2>1, <2>2, HeadTailProperties
<1>3. calls[c].host = "queued"
  BY <1>2 DEF Inv, FifoOk, FifoIs
<1>4. /\ z \in CallRecord /\ z.host = "taken" /\ z.avatar = calls[c].avatar /\ z.hook = calls[c].hook
      /\ z.of = calls[c].of /\ z.live = calls[c].live
  <2>1. calls[c] \in CallRecord
    BY <1>1, <1>2
  <2> HIDE DEF c
  <2> QED
    BY <2>1 DEF CallRecord
<1> HIDE DEF c
<1>5. calls' \in [Calls -> CallRecord] /\ calls'[c] = z /\ \A d \in Calls : d # c => calls'[d] = calls[d]
  BY <1>1, <1>2, <1>4
<1> HIDE DEF z
<1>6. Follows
  BY <1>2, <1>3, <1>4, <1>5 DEF Follows
<1>7. FifoTyped' /\ FifoOk'
  <2>1. \A i \in 1..Len(Tail(fifo)) :
           /\ i + 1 \in 1..Len(fifo) /\ i + 1 # 1 /\ 1 \in 1..Len(fifo) /\ Tail(fifo)[i] = fifo[i + 1]
    BY <1>2
  <2>2. \A i \in 1..Len(Tail(fifo)) : Tail(fifo)[i] \in Calls /\ Tail(fifo)[i] # c /\ calls[Tail(fifo)[i]].host = "queued"
    BY <1>1, <1>2, <2>1, ElementOfSeq DEF Inv, FifoOk, FifoIs
  <2>3. \A i, j \in 1..Len(Tail(fifo)) : i # j => Tail(fifo)[i] # Tail(fifo)[j]
    <3>1. \A i, j \in 1..Len(Tail(fifo)) : i # j => i + 1 # j + 1
      BY <1>2
    <3> QED
      BY <2>1, <3>1 DEF Inv, FifoOk, FifoIs
  <2> QED
    BY <1>1, <1>2, <1>5, <2>2, <2>3 DEF FifoTyped, FifoOk, FifoIs
<1>8. BusyOk'
  <2>1. Busy \subseteq Calls /\ Busy' \subseteq Busy \cup {c}
    BY <1>5 DEF Busy
  <2>2. IsFiniteSet(Busy) /\ Cardinality(Busy) \in Nat
    BY <2>1, PreviewAssumption, FS_Subset, FS_CardinalityType
  <2>3. c \notin Busy
    BY <1>3 DEF Busy
  <2>4. IsFiniteSet(Busy \cup {c}) /\ Cardinality(Busy \cup {c}) = Cardinality(Busy) + 1
    BY <2>2, <2>3, FS_AddElement
  <2>5. Cardinality(Busy') <= Cardinality(Busy \cup {c}) /\ Cardinality(Busy') \in Nat
    BY <2>1, <2>4, FS_Subset, FS_CardinalityType
  <2> QED
    BY <1>1, <2>2, <2>4, <2>5, PreviewAssumption DEF BusyOk
<1>9. Promises'
  <2>1. \A e \in Calls : \/ calls'[e] = calls[e]
                         \/ calls[e].host = "queued" /\ calls'[e].host = "taken"
    BY <1>3, <1>4, <1>5
  <2> QED
    BY <1>1, <2>1, QuietStep DEF Inv
<1> QED
  BY <1>1, <1>5, <1>6, <1>7, <1>8, <1>9, HostStep, PartsMakeInv
  DEF Inv, Types, CallsTyped, TasksTyped, SharedTyped, WorkerTyped, CountsTyped

LEMMA RunStatusKeeps == ASSUME Inv, NEW c \in Calls, RunStatus(c) PROVE Inv'
<1> PICK ans \in {"cached", "none"} : calls' = [calls EXCEPT ![c].host = "back", ![c].ans = ans]
  BY DEF RunStatus
<1> DEFINE z == [calls[c] EXCEPT !.host = "back", !.ans = ans]
<1>1. /\ calls \in [Calls -> CallRecord] /\ calls[c].host = "taken"
      /\ UNCHANGED <<hooks, fifo, shared, tasks, worker, acts, faults>>
  BY DEF RunStatus, Inv, Types, CallsTyped
<1>2. /\ z \in CallRecord /\ z.host = "back" /\ z.avatar = calls[c].avatar /\ z.hook = calls[c].hook
      /\ z.live = calls[c].live
  <2>1. calls[c] \in CallRecord
    BY <1>1
  <2> QED
    BY <2>1 DEF CallRecord
<1>3. calls' \in [Calls -> CallRecord] /\ calls'[c] = z /\ \A d \in Calls : d # c => calls'[d] = calls[d]
  BY <1>1, <1>2
<1> HIDE DEF z
<1>4. Follows
  BY <1>1, <1>2, <1>3 DEF Follows
<1>5. FifoTyped' /\ FifoOk' /\ BusyOk' /\ Promises'
  BY <1>1, <1>2, <1>3, FifoStays, BusyKeeps, QuietStep DEF Inv, Types, Busy
<1> QED
  BY <1>1, <1>3, <1>4, <1>5, HostStep, PartsMakeInv
  DEF Inv, Types, CallsTyped, TasksTyped, SharedTyped, WorkerTyped, CountsTyped

-----------------------------------------------------------------------------
(* The promises                                                            *)

\* Who has a promise to keep waits for it, and the map names it.
LEMMA UnfinishedIs ==
  ASSUME Types, Promises
  PROVE  /\ \A i \in 1..Len(tasks) : tasks[i] \in Calls
         /\ \A c \in Unfinished : /\ c \in Calls /\ calls[c].host \in {"own", "wait"} /\ calls[c].of = c
                                  /\ shared[calls[c].avatar] = c
<1>1. \A i \in 1..Len(tasks) : tasks[i] \in Calls
  BY ElementOfSeq DEF Types, TasksTyped
<1> QED
  BY <1>1 DEF Unfinished, Running, Promises, TasksOk, WorkerOk, Waits, OwnOk, SharedIsServed

LEMMA RunPreviewKeeps == ASSUME Inv, NEW c \in Calls, RunPreview(c) PROVE Inv'
<1> DEFINE a == calls[c].avatar
           join == [calls[c] EXCEPT !.host = "wait", !.of = shared[a]]
           own == [calls[c] EXCEPT !.host = "own", !.of = c]
           z == IF shared[a] # NoOne THEN join ELSE own
<1>1. /\ calls \in [Calls -> CallRecord] /\ calls[c] \in CallRecord /\ calls[c].host = "taken"
      /\ a \in Avatars /\ shared \in [Avatars -> Maybe(Calls)] /\ shared[a] \in Maybe(Calls)
      /\ UNCHANGED <<hooks, fifo, tasks, worker, acts, faults>>
  BY DEF RunPreview, Inv, Types, CallsTyped, SharedTyped, Named
<1>2. /\ z \in CallRecord /\ z.avatar = a /\ z.hook = calls[c].hook /\ z.live = calls[c].live
      /\ shared[a] # NoOne => z.host = "wait" /\ z.of = shared[a]
      /\ shared[a] = NoOne => z.host = "own" /\ z.of = c
  BY <1>1 DEF CallRecord, Maybe
<1>3. calls' = [calls EXCEPT ![c] = z]
  BY DEF RunPreview
<1>4. shared' = IF shared[a] # NoOne THEN shared ELSE [shared EXCEPT ![a] = c]
  BY DEF RunPreview
<1>5. c \in Calls /\ shared \in [Avatars -> Maybe(Calls)] /\ a \in Avatars
  BY <1>1
<1> HIDE DEF z
<1>6. calls' \in [Calls -> CallRecord] /\ calls'[c] = z /\ \A d \in Calls : d # c => calls'[d] = calls[d]
  BY <1>1, <1>2, <1>3
<1>7. Follows
  BY <1>1, <1>2, <1>6 DEF Follows
<1>8. FifoTyped' /\ FifoOk' /\ BusyOk'
  BY <1>1, <1>2, <1>6, FifoStays, BusyKeeps DEF Inv, Types, Busy
<1>9. SharedTyped'
  BY <1>1, <1>4 DEF SharedTyped, Maybe
<1>10. c \notin Unfinished
  BY <1>1, UnfinishedIs DEF Inv
<1>11. /\ \A i \in 1..Len(tasks) : tasks[i] \in Calls /\ tasks[i] # c
       /\ worker.pc \in {"taken", "work"} => worker.job # c
  BY <1>10, UnfinishedIs DEF Inv, Unfinished, Running
<1>12. TasksOk' /\ WorkerOk' /\ OwnOk'
  BY <1>1, <1>2, <1>6, <1>11 DEF Inv, Promises, TasksOk, WorkerOk, OwnOk, Waits
<1>13. EntriesOk' /\ SharedIsServed'
  <2>1. CASE shared[a] # NoOne
    <3>1. Unfinished' = Unfinished
      <4>1. {d \in Calls : calls'[d].host = "own"} = {d \in Calls : calls[d].host = "own"}
        BY <1>1, <1>2, <1>6, <2>1
      <4> QED
        BY <1>1, <4>1 DEF Unfinished, Running
    <3>2. \A d \in Calls : calls'[d].avatar = calls[d].avatar
      BY <1>2, <1>6
    <3>3. shared[a] \in Unfinished
      BY <1>1, <2>1 DEF Inv, Promises, SharedIsServed
    <3>4. EntriesOk'
      BY <1>1, <1>4, <2>1, <3>2 DEF Inv, Promises, EntriesOk, Maybe
    <3>5. SharedIsServed'
      <4>1. \A d \in Unfinished' : shared'[calls'[d].avatar] = d
        BY <1>4, <2>1, <3>1, <3>2, UnfinishedIs DEF Inv
      <4>2. \A b \in Avatars : shared'[b] # NoOne => shared'[b] \in Unfinished'
        BY <1>4, <2>1, <3>1 DEF Inv, Promises, SharedIsServed
      <4>3. \A d \in Calls : calls'[d].host = "wait" => calls'[d].of \in Unfinished'
        BY <1>2, <1>6, <2>1, <3>1, <3>3 DEF Inv, Promises, SharedIsServed
      <4> QED
        BY <4>1, <4>2, <4>3 DEF SharedIsServed
    <3> QED
      BY <3>4, <3>5
  <2>2. CASE shared[a] = NoOne
    <3>1. Unfinished' = Unfinished \cup {c}
      <4>1. {d \in Calls : calls'[d].host = "own"} = {d \in Calls : calls[d].host = "own"} \cup {c}
        BY <1>2, <1>6, <2>2
      <4> QED
        BY <1>1, <4>1 DEF Unfinished, Running
    <3>2. shared'[a] = c /\ \A b \in Avatars : b # a => shared'[b] = shared[b]
      BY <1>1, <1>4, <2>2
    <3>3. \A d \in Calls : calls'[d].avatar = calls[d].avatar
      BY <1>2, <1>6
    <3>4. \A d \in Unfinished : d \in Calls /\ calls[d].avatar # a /\ calls[d].avatar \in Avatars
                                /\ shared[calls[d].avatar] = d
      BY <2>2, NoOneIsNone, UnfinishedIs DEF Inv, Named
    <3>5. EntriesOk'
      BY <1>1, <3>2, <3>3 DEF Inv, Promises, EntriesOk, Maybe
    <3>6. SharedIsServed'
      <4>1. \A d \in Unfinished' : shared'[calls'[d].avatar] = d
        BY <3>1, <3>2, <3>3, <3>4
      <4>2. \A b \in Avatars : shared'[b] # NoOne => shared'[b] \in Unfinished'
        BY <3>1, <3>2 DEF Inv, Promises, SharedIsServed
      <4>3. \A d \in Calls : calls'[d].host = "wait" => calls'[d].of \in Unfinished'
        BY <1>2, <1>6, <2>2, <3>1 DEF Inv, Promises, SharedIsServed
      <4> QED
        BY <4>1, <4>2, <4>3 DEF SharedIsServed
    <3> QED
      BY <3>5, <3>6
  <2> QED
    BY <2>1, <2>2
<1> QED
  BY <1>1, <1>6, <1>7, <1>8, <1>9, <1>12, <1>13, HostStep, PartsMakeInv
  DEF Inv, Promises, Types, CallsTyped, TasksTyped, WorkerTyped, CountsTyped

\* A promise is kept, or given up: its entry goes, and all who wait for it.
LEMMA PromiseEnds ==
  ASSUME Types, Named, Promises, NEW p \in Unfinished, NEW a \in Avatars, a = calls[p].avatar,
         shared' = [shared EXCEPT ![a] = NoOne], Unfinished' = Unfinished \ {p},
         \A c \in Calls :
            IF calls[c].host = "wait" /\ calls[c].of = p THEN calls'[c].host = "back"
            ELSE calls[c].host \in {"own", "wait"} \/ calls'[c].host \in {"own", "wait"} =>
                   /\ calls'[c].host = calls[c].host /\ calls'[c].of = calls[c].of
                   /\ calls'[c].avatar = calls[c].avatar
  PROVE  EntriesOk' /\ OwnOk' /\ SharedIsServed'
<1>1. shared \in [Avatars -> Maybe(Calls)]
  BY DEF Types, SharedTyped
<1>2. shared'[a] = NoOne /\ \A b \in Avatars : b # a => shared'[b] = shared[b]
  BY <1>1
<1>3. \A d \in Unfinished : d \in Calls /\ shared[calls[d].avatar] = d /\ calls[d].avatar \in Avatars
                            /\ calls[d].host \in {"own", "wait"} /\ calls[d].of = d
  BY UnfinishedIs DEF Named
<1>4. \A d \in Unfinished : d # p => calls[d].avatar # a /\ calls'[d].avatar = calls[d].avatar
  BY <1>3
<1>5. EntriesOk'
  BY <1>2, <1>3, <1>4 DEF Promises, EntriesOk, SharedIsServed
<1>6. OwnOk'
  BY DEF Promises, OwnOk
<1>7. SharedIsServed'
  <2>1. \A d \in Unfinished' : shared'[calls'[d].avatar] = d
    BY <1>2, <1>3, <1>4
  <2>2. \A b \in Avatars : shared'[b] # NoOne => shared'[b] \in Unfinished'
    BY <1>2, <1>3 DEF Promises, SharedIsServed, EntriesOk
  <2>3. \A d \in Calls : calls'[d].host = "wait" => calls'[d].of \in Unfinished'
    BY DEF Promises, SharedIsServed
  <2> QED
    BY <2>1, <2>2, <2>3 DEF SharedIsServed
<1> QED
  BY <1>5, <1>6, <1>7

LEMMA MarkedIs ==
  ASSUME WorkerTyped, NEW a
  PROVE  LET w == Marked(a) IN
         w \in Worker /\ w.pc = worker.pc /\ w.job = worker.job /\ w.key = worker.key
  BY DEF Marked, WorkerTyped, Worker

\* The owner submits: there is no other task for its avatar.
LEMMA SubmitKeeps == ASSUME Inv, NEW c \in Calls, Submit(c) PROVE Inv'
<1> DEFINE a == calls[c].avatar
           z == [calls[c] EXCEPT !.host = "wait"]
<1>1. /\ calls \in [Calls -> CallRecord] /\ calls[c] \in CallRecord /\ calls[c].host = "own"
      /\ calls[c].of = c /\ c \in Unfinished /\ shared[a] = c
      /\ tasks \in Seq(Calls) /\ UNCHANGED <<hooks, fifo, acts, faults>>
  BY UnfinishedIs DEF Submit, Inv, Types, CallsTyped, TasksTyped, Promises, OwnOk, Unfinished
<1>2. Queued(a) = {}
  <2> SUFFICES ASSUME NEW i \in Queued(a) PROVE FALSE
    OBVIOUS
  <2>1. i \in 1..Len(tasks) /\ calls[tasks[i]].avatar = a /\ tasks[i] \in Unfinished /\ Waits(tasks[i])
    BY DEF Queued, Unfinished, Inv, Promises, TasksOk
  <2>2. tasks[i] = c
    BY <1>1, <2>1, UnfinishedIs DEF Inv
  <2> QED
    BY <1>1, <2>1, <2>2 DEF Waits
<1>3. tasks' = Append(tasks, c) /\ calls' = [calls EXCEPT ![c] = z] /\ shared' = shared /\ worker' = Marked(a)
  BY <1>2 DEF Submit
<1>4. /\ z \in CallRecord /\ z.host = "wait" /\ z.avatar = a /\ z.of = c
      /\ z.hook = calls[c].hook /\ z.live = calls[c].live
  BY <1>1 DEF CallRecord
<1> HIDE DEF z
<1>5. calls' \in [Calls -> CallRecord] /\ calls'[c] = z /\ \A d \in Calls : d # c => calls'[d] = calls[d]
  BY <1>1, <1>3, <1>4
<1>6. worker' \in Worker /\ worker'.pc = worker.pc /\ worker'.job = worker.job /\ worker'.key = worker.key
  BY <1>3, MarkedIs DEF Inv, Types
<1>7. Follows
  BY <1>1, <1>4, <1>5 DEF Follows
<1>8. FifoTyped' /\ FifoOk' /\ BusyOk'
  BY <1>1, <1>4, <1>5, FifoStays, BusyKeeps DEF Inv, Types, Busy
<1>9. /\ tasks' \in Seq(Calls) /\ Len(tasks) \in Nat /\ Len(tasks') = Len(tasks) + 1
      /\ \A i \in 1..Len(tasks) : tasks'[i] = tasks[i] /\ tasks[i] \in Calls /\ tasks[i] # c
      /\ tasks'[Len(tasks) + 1] = c
      /\ worker.pc \in {"taken", "work"} => worker.job # c
  BY <1>1, <1>3, AppendProperties, LenProperties, UnfinishedIs
  DEF Inv, Promises, TasksOk, WorkerOk, Waits
<1>10. TasksOk' /\ WorkerOk' /\ OwnOk'
  <2>1. ASSUME NEW i \in 1..Len(tasks')
        PROVE  calls'[tasks'[i]].host = "wait" /\ calls'[tasks'[i]].of = tasks'[i]
    <3>1. CASE i \in 1..Len(tasks)
      BY <1>5, <1>9, <3>1 DEF Inv, Promises, TasksOk, Waits
    <3>2. CASE i = Len(tasks) + 1
      BY <1>4, <1>5, <1>9, <3>2
    <3> QED
      BY <1>9, <3>1, <3>2
  <2>2. \A i, j \in 1..Len(tasks') : i # j => tasks'[i] # tasks'[j]
    BY <1>9 DEF Inv, Promises, TasksOk
  <2>3. WorkerOk'
    BY <1>5, <1>6, <1>9 DEF Inv, Promises, WorkerOk, Waits
  <2>4. OwnOk'
    BY <1>4, <1>5 DEF Inv, Promises, OwnOk
  <2> QED
    BY <2>1, <2>2, <2>3, <2>4 DEF TasksOk, Waits
<1>11. Unfinished' = Unfinished
  <2>1. {tasks'[i] : i \in 1..Len(tasks')} = {tasks[i] : i \in 1..Len(tasks)} \cup {c}
    BY <1>9
  <2>2. {d \in Calls : calls'[d].host = "own"} \cup {c} = {d \in Calls : calls[d].host = "own"}
    BY <1>1, <1>4, <1>5
  <2>3. Running' = Running
    BY <1>6 DEF Running
  <2> QED
    BY <2>1, <2>2, <2>3 DEF Unfinished
<1>12. EntriesOk' /\ SharedIsServed'
  <2>1. \A d \in Calls : calls'[d].avatar = calls[d].avatar /\ calls'[d].of = calls[d].of
    BY <1>1, <1>4, <1>5
  <2>2. \A d \in Calls : calls'[d].host = "wait" => calls'[d].of \in Unfinished
    BY <1>1, <1>4, <1>5 DEF Inv, Promises, SharedIsServed
  <2>3. \A d \in Unfinished : d \in Calls /\ shared[calls[d].avatar] = d
    BY UnfinishedIs DEF Inv
  <2> QED
    BY <1>3, <1>11, <2>1, <2>2, <2>3 DEF Inv, Promises, EntriesOk, SharedIsServed
<1> QED
  BY <1>1, <1>3, <1>5, <1>6, <1>7, <1>8, <1>9, <1>10, <1>12, HostStep, PartsMakeInv
  DEF Inv, Promises, Types, CallsTyped, TasksTyped, SharedTyped, WorkerTyped, CountsTyped

\* Cancel.
LEMMA RunAbortKeeps == ASSUME Inv, NEW c \in Calls, RunAbort(c) PROVE Inv'
<1> DEFINE a == calls[c].avatar
           gone == [calls EXCEPT ![c] = NoCall]
<1>1. /\ calls \in [Calls -> CallRecord] /\ calls[c].host = "taken" /\ a \in Avatars
      /\ tasks \in Seq(Calls) /\ shared \in [Avatars -> Maybe(Calls)]
      /\ worker' = Marked(a) /\ UNCHANGED <<hooks, fifo, acts, faults>>
  BY DEF RunAbort, Inv, Types, CallsTyped, TasksTyped, SharedTyped, Named
<1>2. worker' \in Worker /\ worker'.pc = worker.pc /\ worker'.job = worker.job /\ worker'.key = worker.key
  BY <1>1, MarkedIs DEF Inv, Types
<1>3. /\ gone \in [Calls -> CallRecord] /\ gone[c] = NoCall
      /\ \A d \in Calls : d # c => gone[d] = calls[d]
  BY <1>1, NoCallIsRecord
<1>4. CASE Queued(a) = {}
  <2>1. calls' = gone /\ tasks' = tasks /\ shared' = shared
    BY <1>4 DEF RunAbort
  <2> HIDE DEF gone
  <2>2. Follows
    BY <1>3, <2>1 DEF Follows
  <2>3. FifoTyped' /\ FifoOk' /\ BusyOk' /\ Promises'
    BY <1>1, <1>2, <1>3, <2>1, NoCallIsRecord, FifoStays, BusyKeeps, QuietStep DEF Inv, Types, Busy
  <2> QED
    BY <1>1, <1>2, <1>3, <2>1, <2>2, <2>3, HostStep, PartsMakeInv
    DEF Inv, Types, CallsTyped, TasksTyped, SharedTyped, WorkerTyped, CountsTyped
<1>5. CASE Queued(a) # {}
  <2> DEFINE n == Drained(a)
             p == tasks[n]
             told == Told(gone, p, "cancelled")
  <2>1. tasks' = RemoveAt(tasks, n) /\ calls' = told /\ shared' = [shared EXCEPT ![a] = NoOne]
    BY <1>5 DEF RunAbort
  <2>2. n \in 1..Len(tasks) /\ calls[p].avatar = a
    <3>1. n \in Queued(a)
      BY <1>5 DEF Drained
    <3> QED
      BY <3>1 DEF Queued
  <2> HIDE DEF n
  <2>3. p \in Calls /\ p \in Unfinished /\ Waits(p)
    BY <2>2, UnfinishedIs DEF Inv, Promises, TasksOk, Unfinished
  <2> HIDE DEF p, gone
  <2>4. /\ told \in [Calls -> CallRecord]
        /\ \A d \in Calls :
             LET y == told[d] IN
             /\ y.open = gone[d].open /\ y.avatar = gone[d].avatar /\ y.hook = gone[d].hook
             /\ y.live = gone[d].live /\ y.of = gone[d].of
             /\ y.host = IF gone[d].host = "wait" /\ gone[d].of = p THEN "back" ELSE gone[d].host
    BY <1>3, <2>3, ToldIs
  <2>5. told[c] = NoCall
    BY <1>3, NoCallIsRecord DEF Told
  <2> HIDE DEF told
  <2>6. ASSUME NEW d \in Calls, d # c
        PROVE  /\ calls'[d].avatar = calls[d].avatar /\ calls'[d].hook = calls[d].hook
               /\ calls'[d].live = calls[d].live /\ calls'[d].of = calls[d].of
               /\ calls'[d].open = calls[d].open
               /\ calls'[d].host = IF calls[d].host = "wait" /\ calls[d].of = p THEN "back" ELSE calls[d].host
    BY <1>3, <2>1, <2>4, <2>6
  <2>7. calls' \in [Calls -> CallRecord] /\ calls'[c] = NoCall
    BY <2>1, <2>4, <2>5
  <2>8. Named' /\ HooksTyped' /\ HooksOk' /\ LiveOk' /\ ShowsItsOwn'
    <3>1. Named' /\ LiveOk'
      BY <1>1, <2>6, <2>7, NoCallIsRecord DEF Inv, Named, LiveOk
    <3> QED
      BY <1>1, <3>1 DEF Inv, Types, HooksTyped, HooksOk, ShowsItsOwn
  <2>9. FifoTyped' /\ FifoOk' /\ BusyOk'
    BY <1>1, <2>6, <2>7, NoCallIsRecord, FifoStays, BusyKeeps DEF Inv, Types, Busy
  <2>10. /\ tasks' \in Seq(Calls) /\ Len(tasks') = Len(tasks) - 1 /\ Len(tasks) \in Nat /\ n \in Nat
         /\ \A j \in 1..Len(tasks') : tasks'[j] = tasks[IF j < n THEN j ELSE j + 1]
         /\ \A j \in 1..Len(tasks') : (IF j < n THEN j ELSE j + 1) \in 1..Len(tasks)
    <3>1. /\ tasks' \in Seq(Calls) /\ Len(tasks') = Len(tasks) - 1
          /\ \A j \in 1..Len(tasks') : tasks'[j] = tasks[IF j < n THEN j ELSE j + 1]
      BY <1>1, <2>1, <2>2, RemoveIs
    <3>2. Len(tasks) \in Nat /\ n \in Nat
      BY <1>1, <2>2, LenProperties
    <3> QED
      BY <2>2, <3>1, <3>2
  <2>11. \A j \in 1..Len(tasks') :
            /\ tasks'[j] \in Calls /\ tasks'[j] # p /\ tasks'[j] # c /\ Waits(tasks'[j])
            /\ worker.pc \in {"taken", "work"} => tasks'[j] # worker.job
    <3>1. \A j \in 1..Len(tasks') : (IF j < n THEN j ELSE j + 1) # n
      BY <2>10
    <3>2. \A j \in 1..Len(tasks) : /\ tasks[j] \in Calls /\ Waits(tasks[j]) /\ tasks[j] # c
                                   /\ j # n => tasks[j] # p
                                   /\ worker.pc \in {"taken", "work"} => tasks[j] # worker.job
      BY <1>1, <2>2, UnfinishedIs DEF Inv, Promises, TasksOk, WorkerOk, Waits, p
    <3> QED
      BY <2>10, <3>1, <3>2
  <2>12. \A j, k \in 1..Len(tasks') : j # k => tasks'[j] # tasks'[k]
    <3>1. \A j, k \in 1..Len(tasks') : j # k =>
             (IF j < n THEN j ELSE j + 1) # (IF k < n THEN k ELSE k + 1)
      BY <2>10
    <3> QED
      BY <2>10, <3>1 DEF Inv, Promises, TasksOk
  <2>13. worker.pc \in {"taken", "work"} =>
            worker.job \in Calls /\ worker.job # p /\ worker.job # c /\ Waits(worker.job)
    BY <1>1, <2>2 DEF Inv, Promises, WorkerOk, Waits, p
  <2>14. TasksOk' /\ WorkerOk'
    <3>1. \A d \in Calls : d # c /\ d # p /\ Waits(d) => calls'[d].host = "wait" /\ calls'[d].of = d
      BY <2>6 DEF Waits
    <3>2. TasksOk'
      BY <2>11, <2>12, <3>1 DEF TasksOk, Waits
    <3>3. WorkerOk'
      BY <1>2, <2>6, <2>11, <2>13, <3>1 DEF Inv, Promises, WorkerOk, Waits
    <3> QED
      BY <3>2, <3>3
  <2>15. Unfinished' = Unfinished \ {p}
    <3>1. {tasks'[j] : j \in 1..Len(tasks')} = {tasks[j] : j \in 1..Len(tasks)} \ {p}
      <4>1. ASSUME NEW k \in 1..Len(tasks), tasks[k] # p
            PROVE  \E j \in 1..Len(tasks') : tasks'[j] = tasks[k]
        <5>1. k # n /\ k \in Nat
          BY <2>2, <2>10, <4>1 DEF p
        <5>2. CASE k < n
          <6>1. k \in 1..Len(tasks')
            BY <2>2, <2>10, <5>1, <5>2
          <6> QED
            BY <2>10, <5>2, <6>1
        <5>3. CASE k > n
          <6>1. k - 1 \in 1..Len(tasks') /\ ~(k - 1 < n) /\ k - 1 + 1 = k
            BY <2>2, <2>10, <5>1, <5>3
          <6> QED
            BY <2>10, <5>3, <6>1
        <5> QED
          BY <2>10, <5>1, <5>2, <5>3
      <4>2. \A j \in 1..Len(tasks') : \E k \in 1..Len(tasks) : tasks'[j] = tasks[k]
        BY <2>10
      <4> QED
        BY <2>11, <4>1, <4>2
    <3>2. {d \in Calls : calls'[d].host = "own"} = {d \in Calls : calls[d].host = "own"}
      BY <1>1, <2>6, <2>7, NoCallIsRecord
    <3>3. calls[p].host # "own" /\ p \notin Running /\ Running' = Running
      BY <1>2, <2>3, <2>13 DEF Waits, Running
    <3> QED
      BY <3>1, <3>2, <3>3 DEF Unfinished
  <2>16. EntriesOk' /\ OwnOk' /\ SharedIsServed'
    <3>1. \A d \in Calls :
            IF calls[d].host = "wait" /\ calls[d].of = p THEN calls'[d].host = "back"
            ELSE calls[d].host \in {"own", "wait"} \/ calls'[d].host \in {"own", "wait"} =>
                   /\ calls'[d].host = calls[d].host /\ calls'[d].of = calls[d].of
                   /\ calls'[d].avatar = calls[d].avatar
      BY <1>1, <2>6, <2>7, NoCallIsRecord
    <3> QED
      BY <1>1, <2>1, <2>2, <2>3, <2>15, <3>1, PromiseEnds DEF Inv, p
  <2>17. TasksTyped' /\ SharedTyped' /\ CallsTyped' /\ WorkerTyped' /\ CountsTyped'
    BY <1>1, <1>2, <2>1, <2>7, <2>10
    DEF Inv, Types, TasksTyped, SharedTyped, CallsTyped, WorkerTyped, CountsTyped, Maybe
  <2> QED
    BY <2>8, <2>9, <2>14, <2>16, <2>17, PartsMakeInv DEF Promises
<1> QED
  BY <1>4, <1>5

LEMMA PopKeeps == ASSUME Inv, Pop PROVE Inv'
<1> DEFINE p == Head(tasks)
<1>1. /\ tasks \in Seq(Calls) /\ tasks # <<>> /\ worker.pc = "idle" /\ calls \in [Calls -> CallRecord]
      /\ tasks' = Tail(tasks)
      /\ worker' = [pc |-> "taken", job |-> p, key |-> calls[p].avatar, cancelled |-> FALSE]
      /\ UNCHANGED <<hooks, calls, fifo, shared, acts, faults>>
  BY DEF Pop, Inv, Types, TasksTyped, CallsTyped
<1>2. /\ p \in Calls /\ tasks' \in Seq(Calls) /\ Len(tasks) \in Nat /\ Len(tasks) >= 1 /\ p = tasks[1]
      /\ Len(tasks') = Len(tasks) - 1
      /\ \A i \in 1..Len(tasks') : tasks'[i] = tasks[i + 1]
  <2>1. Len(tasks) \in Nat /\ Len(tasks) >= 1
    BY <1>1, EmptySeq, LenProperties
  <2>2. p \in Calls /\ Tail(tasks) \in Seq(Calls) /\ p = tasks[1]
    BY <1>1, HeadTailProperties
  <2> QED
    BY <1>1, <2>1, <2>2, HeadTailProperties
<1> HIDE DEF p
<1>3. Waits(p) /\ calls[p].avatar \in Avatars
  BY <1>2 DEF Inv, Promises, TasksOk, Waits, Named
<1>4. WorkerTyped'
  BY <1>1, <1>2, <1>3 DEF WorkerTyped, Worker, Maybe
<1>5. \A i \in 1..Len(tasks') : i + 1 \in 1..Len(tasks) /\ i + 1 # 1 /\ 1 \in 1..Len(tasks)
  BY <1>2
<1>6. TasksOk'
  <2>1. \A i, j \in 1..Len(tasks') : i # j => i + 1 # j + 1
    BY <1>2
  <2> QED
    BY <1>1, <1>2, <1>5, <2>1 DEF Inv, Promises, TasksOk, Waits
<1>7. \A i \in 1..Len(tasks') : tasks'[i] # p
  BY <1>2, <1>5 DEF Inv, Promises, TasksOk
<1>8. WorkerOk'
  BY <1>1, <1>2, <1>3, <1>7 DEF WorkerOk, Waits
<1>9. Unfinished' = Unfinished
  <2>1. {tasks'[i] : i \in 1..Len(tasks')} \cup {p} = {tasks[i] : i \in 1..Len(tasks)}
    <3>1. ASSUME NEW k \in 1..Len(tasks), tasks[k] # p
          PROVE  \E j \in 1..Len(tasks') : tasks'[j] = tasks[k]
      <4>1. k - 1 \in 1..Len(tasks') /\ k - 1 + 1 = k
        BY <1>2, <3>1
      <4> QED
        BY <1>2, <4>1
    <3>2. \A j \in 1..Len(tasks') : \E k \in 1..Len(tasks) : tasks'[j] = tasks[k]
      BY <1>2, <1>5
    <3>3. \E k \in 1..Len(tasks) : p = tasks[k]
      BY <1>2
    <3> QED
      BY SMTT(30), <3>1, <3>2, <3>3
  <2>2. Running = {} /\ Running' = {p}
    BY <1>1 DEF Running
  <2> QED
    BY <1>1, <2>1, <2>2 DEF Unfinished
<1>10. EntriesOk' /\ OwnOk' /\ SharedIsServed'
  BY <1>1, <1>9 DEF Inv, Promises, EntriesOk, OwnOk, SharedIsServed
<1>11. FifoTyped' /\ FifoOk' /\ BusyOk' /\ CallsTyped' /\ CountsTyped' /\ SharedTyped' /\ TasksTyped'
  BY <1>1, <1>2
  DEF Inv, Types, FifoTyped, FifoOk, BusyOk, Busy, CallsTyped, CountsTyped, SharedTyped, TasksTyped
<1>12. HooksTyped' /\ Named' /\ HooksOk' /\ LiveOk' /\ ShowsItsOwn'
  BY <1>1 DEF Inv, Types, HooksTyped, Named, HooksOk, LiveOk, ShowsItsOwn
<1> QED
  BY <1>4, <1>6, <1>8, <1>10, <1>11, <1>12, PartsMakeInv DEF Promises

\* onDone.
LEMMA DoneKeeps ==
  ASSUME Inv, worker.pc \in {"taken", "work"}, NEW ans \in {"ready", "cancelled", "failed"}, Done(ans),
         UNCHANGED <<hooks, fifo, tasks, acts, faults>>
  PROVE  Inv'
<1> DEFINE p == worker.job
           a == worker.key
           told == Told(calls, p, ans)
<1>1. /\ calls \in [Calls -> CallRecord] /\ worker \in Worker
      /\ p \in Calls /\ Waits(p) /\ a = calls[p].avatar /\ a \in Avatars
      /\ calls' = told /\ shared' = [shared EXCEPT ![a] = NoOne]
      /\ worker' = [worker EXCEPT !.pc = "after"]
  BY DEF Done, Inv, Types, CallsTyped, WorkerTyped, Promises, WorkerOk, Waits, Named
<1>2. p \in Unfinished /\ \A i \in 1..Len(tasks) : tasks[i] \in Calls /\ tasks[i] # p
  BY UnfinishedIs DEF Inv, Promises, WorkerOk, Unfinished, Running
<1>3. /\ told \in [Calls -> CallRecord]
      /\ \A d \in Calls :
           LET y == told[d] IN
           /\ y.open = calls[d].open /\ y.avatar = calls[d].avatar /\ y.hook = calls[d].hook
           /\ y.live = calls[d].live /\ y.of = calls[d].of
           /\ y.host = IF calls[d].host = "wait" /\ calls[d].of = p THEN "back" ELSE calls[d].host
  BY <1>1, ToldIs
<1>4. worker' \in Worker /\ worker'.pc = "after"
  BY <1>1 DEF Worker
<1> HIDE DEF told, p, a
<1>5. ASSUME NEW d \in Calls
      PROVE  /\ calls'[d].avatar = calls[d].avatar /\ calls'[d].hook = calls[d].hook
             /\ calls'[d].live = calls[d].live /\ calls'[d].of = calls[d].of
             /\ calls'[d].open = calls[d].open
             /\ calls'[d].host = IF calls[d].host = "wait" /\ calls[d].of = p THEN "back" ELSE calls[d].host
  BY <1>1, <1>3
<1>6. Named' /\ HooksTyped' /\ HooksOk' /\ LiveOk' /\ ShowsItsOwn'
  <2>1. Named' /\ LiveOk'
    BY <1>5 DEF Inv, Named, LiveOk
  <2> QED
    BY <2>1 DEF Inv, Types, HooksTyped, HooksOk, ShowsItsOwn
<1>7. FifoTyped' /\ FifoOk' /\ BusyOk'
  BY <1>5, FifoStays, BusyKeeps DEF Inv, Types, Busy
<1>8. TasksOk' /\ WorkerOk'
  BY <1>2, <1>4, <1>5 DEF Inv, Promises, TasksOk, WorkerOk, Waits
<1>9. Unfinished' = Unfinished \ {p}
  <2>1. {d \in Calls : calls'[d].host = "own"} = {d \in Calls : calls[d].host = "own"}
    BY <1>5
  <2>2. calls[p].host # "own" /\ Running = {p} /\ Running' = {}
    BY <1>1, <1>4 DEF Waits, Running, p
  <2> QED
    BY <1>2, <2>1, <2>2 DEF Unfinished
<1>10. EntriesOk' /\ OwnOk' /\ SharedIsServed'
  <2>1. \A d \in Calls :
          IF calls[d].host = "wait" /\ calls[d].of = p THEN calls'[d].host = "back"
          ELSE calls[d].host \in {"own", "wait"} \/ calls'[d].host \in {"own", "wait"} =>
                 /\ calls'[d].host = calls[d].host /\ calls'[d].of = calls[d].of
                 /\ calls'[d].avatar = calls[d].avatar
    BY <1>5
  <2> QED
    BY <1>1, <1>2, <1>9, <2>1, PromiseEnds DEF Inv
<1>11. TasksTyped' /\ SharedTyped' /\ CallsTyped' /\ WorkerTyped' /\ CountsTyped'
  BY <1>1, <1>3, <1>4
  DEF Inv, Types, TasksTyped, SharedTyped, CallsTyped, WorkerTyped, CountsTyped, Maybe
<1> QED
  BY <1>6, <1>7, <1>8, <1>10, <1>11, PartsMakeInv DEF Promises

\* A step of the worker alone that runs no other task and ends none.
LEMMA WorkerStep ==
  ASSUME Inv, WorkerTyped', WorkerOk', Running' = Running,
         UNCHANGED <<hooks, calls, fifo, shared, tasks, acts, faults>>
  PROVE  Inv'
<1>1. Unfinished' = Unfinished
  BY DEF Unfinished
<1>2. Promises'
  BY <1>1 DEF Inv, Promises, TasksOk, EntriesOk, OwnOk, SharedIsServed, Waits
<1>3. FifoTyped' /\ FifoOk' /\ BusyOk' /\ CallsTyped' /\ CountsTyped' /\ SharedTyped' /\ TasksTyped'
  BY DEF Inv, Types, FifoTyped, FifoOk, BusyOk, Busy, CallsTyped, CountsTyped, SharedTyped, TasksTyped
<1>4. HooksTyped' /\ Named' /\ HooksOk' /\ LiveOk' /\ ShowsItsOwn'
  BY DEF Inv, Types, HooksTyped, Named, HooksOk, LiveOk, ShowsItsOwn
<1> QED
  BY <1>2, <1>3, <1>4, PartsMakeInv

LEMMA WorkKeeps == ASSUME Inv, Work PROVE Inv'
<1>1. CASE Pop
  BY <1>1, PopKeeps
<1>2. CASE Begin
  <2>1. CASE worker.cancelled
    BY <1>2, <2>1, DoneKeeps DEF Begin
  <2>2. CASE ~worker.cancelled
    <3>1. /\ worker \in Worker /\ worker.pc = "taken" /\ worker' = [worker EXCEPT !.pc = "work"]
          /\ UNCHANGED <<hooks, calls, fifo, shared, tasks, acts, faults>>
      BY <1>2, <2>2 DEF Begin, Inv, Types, WorkerTyped
    <3>2. worker' \in Worker /\ worker'.pc = "work" /\ worker'.job = worker.job /\ worker'.key = worker.key
      BY <3>1 DEF Worker
    <3>3. WorkerTyped' /\ WorkerOk' /\ Running' = Running
      BY <3>1, <3>2 DEF Inv, Promises, WorkerTyped, WorkerOk, Waits, Running
    <3> QED
      BY <3>1, <3>3, WorkerStep
  <2> QED
    BY <2>1, <2>2
<1>3. CASE Extracted
  BY <1>3, DoneKeeps DEF Extracted
<1>4. CASE ClearActive
  <2>1. /\ worker.pc = "after" /\ worker' = Idle
        /\ UNCHANGED <<hooks, calls, fifo, shared, tasks, acts, faults>>
    BY <1>4 DEF ClearActive
  <2>2. WorkerTyped' /\ WorkerOk' /\ Running' = Running
    BY <2>1 DEF Idle, WorkerTyped, Worker, Maybe, WorkerOk, Running
  <2> QED
    BY <2>1, <2>2, WorkerStep
<1> QED
  BY <1>1, <1>2, <1>3, <1>4 DEF Work

-----------------------------------------------------------------------------
(* The specification                                                       *)

LEMMA InitInv == Init => Inv
<1> SUFFICES ASSUME Init PROVE Inv
  OBVIOUS
<1>1. \A c \in Calls : calls[c] = NoCall
  BY DEF Init
<1>2. \A h \in Hooks : hooks[h] = Off
  BY DEF Init
<1>3. /\ CallsTyped /\ HooksTyped /\ SharedTyped
  BY NoCallIsRecord, HookRecords DEF Init, CallsTyped, HooksTyped, SharedTyped, Maybe
<1>4. FifoTyped /\ TasksTyped /\ Len(fifo) = 0 /\ Len(tasks) = 0
  BY EmptySeq DEF Init, FifoTyped, TasksTyped
<1>5. WorkerTyped /\ CountsTyped /\ worker.pc = "idle"
  BY PreviewAssumption DEF Init, Idle, WorkerTyped, Worker, Maybe, CountsTyped
<1>6. BusyOk
  <2>1. Busy = {}
    BY <1>1, NoCallIsRecord DEF Busy
  <2> QED
    BY <2>1, FS_EmptySet, PreviewAssumption DEF BusyOk
<1>7. Named /\ LiveOk /\ OwnOk
  BY <1>1, NoCallIsRecord DEF Named, LiveOk, OwnOk
<1>8. HooksOk /\ ShowsItsOwn
  BY <1>2, HookRecords DEF HooksOk, ShowsItsOwn
<1>9. FifoOk /\ TasksOk /\ WorkerOk
  BY <1>4, <1>5 DEF FifoOk, FifoIs, TasksOk, WorkerOk
<1>10. EntriesOk /\ SharedIsServed
  <2>1. Unfinished = {}
    BY <1>1, <1>4, <1>5, NoCallIsRecord DEF Unfinished, Running
  <2>2. \A a \in Avatars : shared[a] = NoOne
    BY DEF Init
  <2> QED
    BY <1>1, <2>1, <2>2, NoCallIsRecord DEF EntriesOk, SharedIsServed
<1> QED
  BY <1>3, <1>4, <1>5, <1>6, <1>7, <1>8, <1>9, <1>10 DEF Inv, Types, Promises

LEMMA NextKeeps == ASSUME Inv, [Next]_vars PROVE Inv'
<1>1. ASSUME NEW h \in Hooks, NEW a \in Shows[h], NEW urls \in BOOLEAN, Turn(h, a, urls)
      PROVE  Inv'
  <2>1. a \in Avatars
    BY PreviewAssumption
  <2>2. LET new == Loading(a, urls) IN
          new \in Hook /\ new.on /\ new.avatar = a /\ ~new.timer /\ new.st = "loading"
    BY <2>1, HookRecords
  <2>3. Renew(h, Loading(a, urls)) /\ CountsTyped'
    BY <1>1, PreviewAssumption DEF Turn, Act, Renew, Inv, Types, CountsTyped
  <2> QED
    BY <2>1, <2>2, <2>3, RenewKeeps
<1>2. ASSUME NEW h \in Hooks, Unmount(h)
      PROVE  Inv'
  <2>1. Renew(h, Off) /\ CountsTyped'
    BY <1>2, PreviewAssumption DEF Unmount, Act, Renew, Inv, Types, CountsTyped
  <2> QED
    BY <2>1, HookRecords, RenewKeeps
<1>3. ASSUME NEW h \in Hooks, Again(h)
      PROVE  Inv'
  <2>1. hooks[h] \in Hook /\ hooks[h].avatar \in Avatars /\ hooks[h].urls \in BOOLEAN
    <3>1. hooks[h] \in Hook
      BY DEF Inv, Types, HooksTyped
    <3> QED
      BY <1>3, <3>1 DEF Again, Inv, HooksOk, Hook
  <2> DEFINE new == Loading(hooks[h].avatar, hooks[h].urls)
  <2>2. new \in Hook /\ new.on /\ new.avatar \in Avatars /\ ~new.timer /\ new.st = "loading"
    BY <2>1, HookRecords
  <2>3. Renew(h, new) /\ CountsTyped'
    BY <1>3 DEF Again, Renew, Inv, Types, CountsTyped
  <2> HIDE DEF new
  <2> QED
    BY <2>2, <2>3, RenewKeeps
<1>4. ASSUME NEW c \in Calls, Page(c)
      PROVE  Inv'
  BY <1>4, HearStatusKeeps, HearPreviewKeeps, DropKeeps DEF Page
<1>5. ASSUME NEW c \in Calls, Handler(c)
      PROVE  Inv'
  BY <1>5, RunStatusKeeps, RunPreviewKeeps, RunAbortKeeps, SubmitKeeps DEF Handler
<1>6. CASE UNCHANGED vars
  <2>1. UNCHANGED <<hooks, calls, fifo, shared, tasks, worker, acts, faults>>
    BY <1>6 DEF vars
  <2>2. WorkerTyped' /\ WorkerOk' /\ Running' = Running
    BY <2>1 DEF Inv, Types, Promises, WorkerTyped, WorkerOk, Waits, Running
  <2> QED
    BY <2>1, <2>2, WorkerStep
<1> QED
  BY <1>1, <1>2, <1>3, <1>4, <1>5, <1>6, GiveUpKeeps, TakeKeeps, WorkKeeps DEF Next

LEMMA AlwaysInv == Spec => []Inv
  BY InitInv, NextKeeps, PTL DEF Spec

\* Every variable keeps its type, and the requests never hold more threads
\* than the bridge's pool has.
THEOREM PreviewTypes == Spec => []TypeOK
<1>1. Inv => TypeOK
  BY DEF Inv, Types, BusyOk, CallsTyped, FifoTyped, TasksTyped, SharedTyped, HooksTyped, WorkerTyped,
         CountsTyped, TypeOK
<1> QED
  BY <1>1, AlwaysInv, PTL

\* For any number of avatars, hooks, calls and threads, nobody waits for a
\* promise that nobody will keep: each entry of m_previewShared is that of a
\* task to come, and each waiting request waits for one.
THEOREM SharedAlwaysServed == Spec => []SharedIsServed
<1>1. Inv => SharedIsServed
  BY DEF Inv, Promises
<1> QED
  BY <1>1, AlwaysInv, PTL

\* Whatever the order of the answers, a hook of useAvatarPreview that is ready
\* shows the preview of the avatar it is about.
THEOREM ShowsOnlyItsOwn == Spec => []ShowsItsOwn
<1>1. Inv => ShowsItsOwn
  BY DEF Inv
<1> QED
  BY <1>1, AlwaysInv, PTL
=============================================================================
