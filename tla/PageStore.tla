----------------------------- MODULE PageStore -----------------------------
(***************************************************************************)
(* The caches that the page keeps in front of the host: thumbnails.ts,     *)
(* assets-cache.ts and image-cache.ts, the hooks that read them, the       *)
(* queue of lookahead requests, and the reset of cache-ownership.ts when   *)
(* the account changes.  The three caches are one design with different    *)
(* reactions to an answer; the variable "kind" says which one a behaviour  *)
(* is about and never changes.                                             *)
(*                                                                         *)
(* A step is a task of the page's event loop: what React, a timer or an    *)
(* answer runs without giving up the thread.  An image is there or not:    *)
(* which image, its hints and its size are left out.                       *)
(***************************************************************************)
EXTENDS Naturals, FiniteSets, Sequences, SequencesExt

CONSTANTS
    Kinds,       \* the caches of this instance
    Keys,        \* ids (or id|url) that the cache is asked for
    Tiles,       \* components with a hook on the cache
    Accounts,    \* accounts that sign in
    Guest,       \* nobody is signed in
    MaxEntries,  \* MAX_ENTRIES of each cache
    BatchSize,   \* lookahead keys per timer
    MaxOpen,     \* bound: calls in flight
    MaxActs,     \* bound: what users, sessions and clocks do
    MaxFaults    \* bound: calls of assets or images that are rejected

ASSUME PageStoreAssumption ==
    /\ Kinds \subseteq {"thumbnails", "assets", "images"}
    /\ Keys # {}
    /\ Guest \notin Accounts
    /\ MaxEntries \in [Kinds -> Nat \ {0}]
    /\ BatchSize \in Nat \ {0}
    /\ MaxOpen \in Nat
    /\ MaxActs \in Nat
    /\ MaxFaults \in Nat

VARIABLES
    kind,    \* the cache
    page,    \* the account the page shows
    left,    \* history: whom logins have replaced since calls were last cancelled
    memo,    \* the entry of each key
    order,   \* the keys of the map, oldest first
    reqs,    \* the calls in flight
    tiles,   \* the hooks
    low,     \* lowPriorityQueue
    timer,   \* lowPriorityTimer is set
    walk,    \* a cacheImageUrls in progress
    acts, faults

vars == <<kind, page, left, memo, order, reqs, tiles, low, timer, walk, acts, faults>>

Askers == Accounts \cup {Guest}
Ids == 1..MaxOpen
None == 0

Absent == [st |-> "absent"]
Pending(r) == [st |-> "pending", req |-> r]
Resolved(has, by) == [st |-> "resolved", has |-> has, by |-> by, fresh |-> TRUE]

Entry ==
    {Absent} \cup {Pending(r) : r \in Ids}
    \cup [st : {"resolved"}, has : BOOLEAN, by : Askers, fresh : BOOLEAN]

Idle == [open |-> FALSE, keys |-> {}, via |-> "hook", by |-> Guest]
Call(S, via) == [open |-> TRUE, keys |-> S, via |-> via, by |-> page]

\* "waits" is the call whose promise the effect of the hook is waiting for.
SomeKey == CHOOSE k \in Keys : TRUE
Mounted(k) == [on |-> TRUE, key |-> k, dirty |-> TRUE, waits |-> None,
               loading |-> TRUE, has |-> FALSE, by |-> Guest]
Unmounted == [Mounted(SomeKey) EXCEPT !.on = FALSE, !.dirty = FALSE, !.loading = FALSE]
NoWalk == [st |-> "none", on |-> None, todo |-> {}, need |-> {}]

TypeOK ==
    /\ kind \in Kinds
    /\ page \in Askers /\ left \subseteq Askers
    /\ memo \in [Keys -> Entry]
    /\ order \in Seq(Keys)
    /\ reqs \in [Ids -> [open : BOOLEAN, keys : SUBSET Keys, via : {"hook", "batch", "walk"}, by : Askers]]
    /\ tiles \in [Tiles -> [on : BOOLEAN, key : Keys, dirty : BOOLEAN, waits : Ids \cup {None},
                            loading : BOOLEAN, has : BOOLEAN, by : Askers]]
    /\ low \subseteq Keys
    /\ timer \in BOOLEAN
    /\ walk \in [st : {"none", "waiting"}, on : Ids \cup {None}, todo : SUBSET Keys, need : SUBSET Keys]
    /\ acts \in 0..MaxActs
    /\ faults \in 0..MaxFaults

Init ==
    /\ kind \in Kinds
    /\ page = Guest /\ left = {}
    /\ memo = [k \in Keys |-> Absent]
    /\ order = <<>>
    /\ reqs = [r \in Ids |-> Idle]
    /\ tiles = [t \in Tiles |-> Unmounted]
    /\ low = {}
    /\ timer = FALSE
    /\ walk = NoWalk
    /\ acts = 0
    /\ faults = 0

-----------------------------------------------------------------------------
(* The map *)

Fresh(e) == e.st = "resolved" /\ e.fresh
NeedsFetch(m, k) == m[k].st # "pending" /\ ~Fresh(m[k])

\* A row says there is an image, that there is none, that the lookup failed,
\* or is not there at all; which of them leave the key without an entry.
Rows == IF kind = "assets" THEN {"image", "none", "missing"} ELSE {"image", "none", "error", "missing"}
Dropped(via, row) ==
    kind = "thumbnails" /\ (row = "error" \/ (row = "missing" /\ via = "batch"))

\* Mutant: a single call wakes nobody, in any of the caches.
NotifiesBatches(via) == via # "hook"
\* Whether a settled call wakes the hooks of every key.
Notifies(via) == kind # "thumbnails" \/ via = "batch"

\* memoSet for each key of "new", one after the other, then memo.delete for
\* those of "gone": the oldest entries go once there are more than MaxEntries.
MemoSet(new, gone) ==
    LET all     == SelectSeq(order, LAMBDA k : k \notin DOMAIN new) \o SetToSeq(DOMAIN new)
        evicted == {all[i] : i \in 1..(Len(all) - MaxEntries[kind])}
    IN  /\ memo' = [k \in Keys |-> IF k \in gone \cup evicted THEN Absent
                                   ELSE IF k \in DOMAIN new THEN new[k] ELSE memo[k]]
        /\ order' = SelectSeq(all, LAMBDA k : k \notin gone \cup evicted)

Forget(S) ==
    /\ memo' = [k \in Keys |-> IF k \in S THEN Absent ELSE memo[k]]
    /\ order' = SelectSeq(order, LAMBDA k : k \notin S)

Notified(ts) == [t \in Tiles |-> [ts[t] EXCEPT !.dirty = ts[t].on]]

-----------------------------------------------------------------------------
(* Calls *)

\* A call for S in slot r: its keys are pending from here on.
Send(r, S, via) ==
    /\ ~reqs[r].open
    /\ reqs' = [reqs EXCEPT ![r] = Call(S, via)]
    /\ MemoSet([k \in S |-> Pending(r)], {})

\* prefetchThumbnails, prefetchAssets: one call for what is neither fresh nor
\* on its way.
Prefetch(S) ==
    LET need == {k \in S : NeedsFetch(memo, k)}
    IN  IF need = {} THEN UNCHANGED <<memo, order, reqs>>
        ELSE \E r \in Ids : Send(r, need, "batch")

\* What the effects that wait for call r are told, with "images" the keys
\* that have one.
Told(r, images) ==
    [t \in Tiles |->
        IF tiles[t].waits # r THEN tiles[t]
        ELSE [tiles[t] EXCEPT !.waits = None, !.loading = FALSE,
                              !.has = tiles[t].key \in images, !.by = reqs[r].by]]

\* The rest of a call that settles.
Close(r, told) ==
    /\ reqs' = [reqs EXCEPT ![r] = Idle]
    /\ tiles' = IF Notifies(reqs[r].via) THEN Notified(told) ELSE told
    /\ walk' = IF walk.on = r THEN [walk EXCEPT !.on = None] ELSE walk
    /\ UNCHANGED <<kind, page, left, low, timer, acts>>

\* Mutant: ids without a row keep their placeholder.
AnswerKeepsMissing(r) ==
    /\ reqs[r].open
    /\ \E rows \in [reqs[r].keys -> Rows] :
        LET S    == reqs[r].keys
            kept == {k \in S : ~Dropped(reqs[r].via, rows[k])}
        IN  /\ MemoSet([k \in kept |-> Resolved(rows[k] = "image", reqs[r].by)],
                       {k \in S \ kept : rows[k] = "error"})
            /\ Close(r, Told(r, {k \in S : rows[k] = "image"}))
    /\ UNCHANGED faults

Answer(r) ==
    /\ reqs[r].open
    /\ \E rows \in [reqs[r].keys -> Rows] :
        LET S    == reqs[r].keys
            kept == {k \in S : ~Dropped(reqs[r].via, rows[k])}
        IN  /\ MemoSet([k \in kept |-> Resolved(rows[k] = "image", reqs[r].by)], S \ kept)
            /\ Close(r, Told(r, {k \in S : rows[k] = "image"}))
    /\ UNCHANGED faults

\* The call is rejected (a timeout, an error of the host).  Only the batch of
\* cacheImageUrls looks whether the entries it deletes are still its own.
Reject(r) ==
    /\ reqs[r].open
    /\ IF kind = "thumbnails" THEN UNCHANGED faults
       ELSE faults < MaxFaults /\ faults' = faults + 1
    /\ Forget(IF reqs[r].via = "walk" THEN {k \in reqs[r].keys : memo[k] = Pending(r)}
                                      ELSE reqs[r].keys)
    /\ Close(r, Told(r, {}))

-----------------------------------------------------------------------------
(* Hooks *)

\* The effect of a hook: useThumbnail, useAsset, useCachedImageUrl.  A hook on
\* a pending key shares the call, but useAsset goes on without an answer and
\* relies on being woken.
Render(t) ==
    LET x == tiles[t]
        e == memo[x.key]
        Show(y) == tiles' = [tiles EXCEPT ![t] = y]
        Loading(r) == [x EXCEPT !.dirty = FALSE, !.loading = TRUE, !.waits = r]
    IN  /\ x.on /\ x.dirty
        /\ \/ /\ Fresh(e)
              /\ Show([x EXCEPT !.dirty = FALSE, !.loading = FALSE, !.waits = None, !.has = e.has, !.by = e.by])
              /\ UNCHANGED <<memo, order, reqs>>
           \/ /\ e.st = "pending"
              /\ Show(IF kind = "assets"
                      THEN [x EXCEPT !.dirty = FALSE, !.loading = FALSE, !.waits = None, !.has = FALSE, !.by = page]
                      ELSE Loading(e.req))
              /\ UNCHANGED <<memo, order, reqs>>
           \/ /\ NeedsFetch(memo, x.key)
              /\ \E r \in Ids : Send(r, {x.key}, "hook") /\ Show(Loading(r))
        /\ UNCHANGED <<kind, page, left, low, timer, walk, acts, faults>>

Act == acts < MaxActs /\ acts' = acts + 1

\* A component mounts (or becomes visible) with some key: its first state is
\* the fresh entry or "loading", and its effect runs next.
Mount(t, k) ==
    /\ Act
    /\ ~tiles[t].on
    /\ tiles' = [tiles EXCEPT ![t] =
            IF Fresh(memo[k])
            THEN [Mounted(k) EXCEPT !.loading = FALSE, !.has = memo[k].has, !.by = memo[k].by]
            ELSE Mounted(k)]
    /\ UNCHANGED <<kind, page, left, memo, order, reqs, low, timer, walk, faults>>

Unmount(t) ==
    /\ Act
    /\ tiles[t].on
    /\ tiles' = [tiles EXCEPT ![t] = Unmounted]
    /\ UNCHANGED <<kind, page, left, memo, order, reqs, low, timer, walk, faults>>

\* invalidateThumbnail, invalidateAsset, invalidateCachedImageUrl: an image that
\* does not load.  A call for the key stays in flight.
Invalidate(k) ==
    /\ Act
    /\ Forget({k})
    /\ low' = low \ {k}
    /\ tiles' = Notified(tiles)
    /\ UNCHANGED <<kind, page, left, reqs, timer, walk, faults>>

\* A finite time to live runs out.  An image that was found is kept for ever.
Expire(k) ==
    /\ Act
    /\ Fresh(memo[k])
    /\ kind = "assets" \/ ~memo[k].has
    /\ memo' = [memo EXCEPT ![k].fresh = FALSE]
    /\ UNCHANGED <<kind, page, left, order, reqs, tiles, low, timer, walk, faults>>

-----------------------------------------------------------------------------
(* Lists *)

\* A list shows rows: the visible keys are asked for at once and the lookahead
\* is queued.  Avatars starts its queue anew, Worlds adds to it.
ShowRows(V, L) ==
    /\ Act
    /\ kind # "images"
    /\ Prefetch(V)
    /\ low' = (IF kind = "thumbnails" THEN {} ELSE low) \cup {k \in L : NeedsFetch(memo', k)}
    /\ timer' = (low' # {} \/ (kind = "assets" /\ timer))
    /\ UNCHANGED <<kind, page, left, tiles, walk, faults>>

\* Mutant: the timer is not set again for the rest of the queue.
FlushOnce ==
    /\ timer
    /\ \E gone \in SUBSET low :
        /\ gone = low \/ Cardinality(gone) = BatchSize
        /\ Cardinality(gone) <= BatchSize
        /\ Prefetch(gone)
        /\ low' = low \ gone
    /\ timer' = FALSE
    /\ UNCHANGED <<kind, page, left, tiles, walk, acts, faults>>

\* The timer: up to BatchSize keys, where thumbnails skips those that need no
\* fetch before it counts, and assets after.
Flush ==
    /\ timer
    /\ \E gone \in SUBSET low :
        LET counted == IF kind = "assets" THEN gone ELSE {k \in gone : NeedsFetch(memo, k)}
        IN  /\ Cardinality(counted) <= BatchSize
            /\ gone = low \/ Cardinality(counted) = BatchSize
            /\ Prefetch(gone)
            /\ low' = low \ gone
    /\ timer' = (low' # {})
    /\ UNCHANGED <<kind, page, left, tiles, walk, acts, faults>>

\* cacheImageUrls looks at its items one after the other; at a pending one it
\* waits for that call, and only then at the rest.
Look(todo, need) ==
    \/ /\ \A k \in todo : memo[k].st # "pending"
       /\ walk' = NoWalk
       /\ LET all == need \cup {k \in todo : NeedsFetch(memo, k)}
          IN  IF all = {} THEN UNCHANGED <<memo, order, reqs>>
              ELSE \E r \in Ids : Send(r, all, "walk")
    \/ \E seen \in SUBSET todo, p \in todo :
        /\ memo[p].st = "pending"
        /\ \A k \in seen : memo[k].st # "pending"
        /\ walk' = [st |-> "waiting", on |-> memo[p].req, todo |-> todo \ (seen \cup {p}),
                    need |-> need \cup {k \in seen : NeedsFetch(memo, k)}]
        /\ UNCHANGED <<memo, order, reqs>>

StartWalk(S) ==
    /\ Act
    /\ kind = "images" /\ walk.st = "none"
    /\ Look(S, {})
    /\ UNCHANGED <<kind, page, left, tiles, low, timer, faults>>

ContinueWalk ==
    /\ walk.st = "waiting" /\ walk.on = None
    /\ Look(walk.todo, walk.need)
    /\ UNCHANGED <<kind, page, left, tiles, low, timer, acts, faults>>

-----------------------------------------------------------------------------
(* Accounts *)

\* Mutant: the calls in flight are left alone whatever the reason.
ResetKeepsCalls(cancel) ==
    /\ Forget(Keys)
    /\ low' = {} /\ timer' = FALSE
    /\ tiles' = Notified(tiles)
    /\ UNCHANGED <<reqs, walk>>

\* resetAccountScopedCaches: every cache, queue and timer starts over, and
\* every hook asks again.  Only "login" leaves the calls in flight.
Reset(cancel) ==
    /\ Forget(Keys)
    /\ low' = {} /\ timer' = FALSE
    /\ IF cancel
       THEN /\ reqs' = [r \in Ids |-> Idle]
            /\ walk' = [walk EXCEPT !.on = None]
            /\ tiles' = Notified([t \in Tiles |->
                    IF tiles[t].waits = None THEN tiles[t]
                    ELSE [tiles[t] EXCEPT !.waits = None, !.loading = FALSE, !.has = FALSE]])
       ELSE tiles' = Notified(tiles) /\ UNCHANGED <<reqs, walk>>

\* login() or verifyTwoFactor() succeeds, whatever the page shows by then.
Login(a) ==
    /\ Act
    /\ page' = a /\ left' = left \cup {page}
    /\ Reset(FALSE)
    /\ UNCHANGED <<kind, faults>>

\* The host announces a login of somebody the page does not show, or whose name
\* it could not fetch; who is signed in is for the next status to say.
LoginAnnounced ==
    /\ Act
    /\ Reset(FALSE)
    /\ UNCHANGED <<kind, page, left, faults>>

\* logout(), whatever the page shows by then.
Logout ==
    /\ Act
    /\ page' = Guest /\ left' = {}
    /\ Reset(TRUE)
    /\ UNCHANGED <<kind, faults>>

\* A status finds the session expired, or another account's.
StatusChanges(next) ==
    /\ Act
    /\ page # Guest /\ next # page
    /\ page' = next /\ left' = {}
    /\ Reset(TRUE)
    /\ UNCHANGED <<kind, faults>>

\* A status finds a session on a page without one: nothing is reset.
StatusFinds(a) ==
    /\ Act
    /\ page = Guest
    /\ page' = a /\ left' = left \cup {page}
    /\ UNCHANGED <<kind, memo, order, reqs, tiles, low, timer, walk, faults>>

-----------------------------------------------------------------------------
Next ==
    \/ \E r \in Ids : Answer(r) \/ Reject(r)
    \/ \E t \in Tiles : Render(t) \/ Unmount(t)
    \/ \E t \in Tiles, k \in Keys : Mount(t, k)
    \/ \E k \in Keys : Invalidate(k) \/ Expire(k)
    \/ \E V \in SUBSET Keys : \E L \in SUBSET (Keys \ V) : ShowRows(V, L)
    \/ Flush
    \/ \E S \in SUBSET Keys : StartWalk(S)
    \/ ContinueWalk
    \/ \E a \in Accounts : Login(a) \/ StatusFinds(a)
    \/ LoginAnnounced \/ Logout
    \/ \E a \in Askers : StatusChanges(a)

\* The event loop runs effects, timers and continuations, and every call
\* settles (IpcChannel's PromisesSettle).
Fairness ==
    /\ \A r \in Ids : WF_vars(Answer(r) \/ Reject(r))
    /\ \A t \in Tiles : WF_vars(Render(t))
    /\ WF_vars(Flush)
    /\ WF_vars(ContinueWalk)

Spec == Init /\ [][Next]_vars /\ Fairness

-----------------------------------------------------------------------------
(* Properties *)

\* A pending entry belongs to a call in flight that will replace it.  An entry
\* without one would never be asked for again: needsFetch says no, and the tile
\* stays dark until the next reset.  (Batches whose rows are incomplete, calls
\* that overtake each other, evictions and resets all leave entries behind.)
PendingIsLive ==
    \A k \in Keys : memo[k].st = "pending" =>
        reqs[memo[k].req].open /\ k \in reqs[memo[k].req].keys

\* What was asked for before the last logout, expiry or switch of account is
\* neither kept, nor shown once its tile has settled: cancelAll comes before the
\* reset, so that no answer to it comes in afterwards (cache-ownership.ts).
NoForeignAnswer ==
    /\ \A k \in Keys : memo[k].st = "resolved" => memo[k].by \in {page} \cup left
    /\ \A t \in Tiles :
        tiles[t].has /\ ~tiles[t].dirty /\ ~tiles[t].loading => tiles[t].by \in {page} \cup left

\* "Login starts a fresh session with nothing to reap" (cache-ownership.ts): what
\* another account asked for is kept for nobody.  A login over a page that a
\* status has signed in meanwhile cancels nothing.
OwnAnswersOnly == \A k \in Keys : memo[k].st = "resolved" => memo[k].by \in {page, Guest}

\* Once nothing is in flight and every effect has run, a tile of the assets or
\* image cache shows what the cache holds, however the calls for its key
\* overtook each other.  (A thumbnail's own call does not wake the other tiles.)
TilesAgree ==
    (\A r \in Ids : ~reqs[r].open) /\ (\A t \in Tiles : ~tiles[t].dirty) /\ kind # "thumbnails" =>
        \A t \in Tiles : LET e == memo[tiles[t].key] IN
            tiles[t].on /\ e.st = "resolved" =>
                ~tiles[t].loading /\ tiles[t].has = e.has /\ (e.has => tiles[t].by = e.by)

\* Tiles stop loading, calls end and the lookahead queue drains, even when every
\* thumbnails call is rejected; assets and images ask again at once after each
\* rejection, so for them only when the rejections end.
ComesToRest ==
    <>[]( /\ \A r \in Ids : ~reqs[r].open
          /\ \A t \in Tiles : ~tiles[t].loading /\ ~tiles[t].dirty
          /\ low = {} /\ ~timer /\ walk.st = "none" )

=============================================================================
