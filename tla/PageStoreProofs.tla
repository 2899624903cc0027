-------------------------- MODULE PageStoreProofs --------------------------
(***************************************************************************)
(* Proofs about PageStore, for any number of keys, tiles, accounts and     *)
(* calls, whatever the caches hold and evict: no entry waits for a call    *)
(* that is over, nothing asked for before calls were last cancelled is     *)
(* shown afterwards, and a tile shows what the cache holds.                *)
(***************************************************************************)
EXTENDS PageStore, TLAPS

Requests == [open : BOOLEAN, keys : SUBSET Keys, via : {"hook", "batch", "walk"}, by : Askers]
TileStates == [on : BOOLEAN, key : Keys, dirty : BOOLEAN, waits : Ids \cup {None},
               loading : BOOLEAN, has : BOOLEAN, by : Askers]

\* What the queue and the walk will ask for are keys.
Asked == low \subseteq Keys /\ walk.todo \subseteq Keys /\ walk.need \subseteq Keys

\* The types that the invariants below rest on.  What the order of the map is
\* does not matter to them: an eviction may hit any key.
Types ==
    /\ page \in Askers
    /\ memo \in [Keys -> Entry]
    /\ reqs \in [Ids -> Requests]
    /\ tiles \in [Tiles -> TileStates]
    /\ Asked

\* Who may have asked for what is still there.
Ours == {page} \cup left
EntriesOurs == \A k \in Keys : memo[k].st = "resolved" => memo[k].by \in Ours
CallsOurs == \A r \in Ids : reqs[r].open => reqs[r].by \in Ours
TilesOurs == \A t \in Tiles :
    tiles[t].has /\ ~tiles[t].dirty /\ ~tiles[t].loading => tiles[t].by \in Ours
OffIsBlank == \A t \in Tiles : ~tiles[t].on => tiles[t].waits = None /\ ~tiles[t].has

Inv == Types /\ PendingIsLive /\ EntriesOurs /\ CallsOurs /\ TilesOurs /\ OffIsBlank
CacheInv ==
    /\ memo \in [Keys -> Entry]
    /\ reqs \in [Ids -> Requests]
    /\ PendingIsLive /\ EntriesOurs /\ CallsOurs
TilesInv == tiles \in [Tiles -> TileStates] /\ TilesOurs /\ OffIsBlank

-----------------------------------------------------------------------------
(* What the helpers do to the entries                                      *)

\* An entry is one of three things.
LEMMA EntryCases ==
  ASSUME NEW e \in Entry
  PROVE  \/ e = Absent
         \/ \E r \in Ids : e = Pending(r)
         \/ \E has \in BOOLEAN, by \in Askers, fresh \in BOOLEAN :
                e = [st |-> "resolved", has |-> has, by |-> by, fresh |-> fresh]
  BY DEF Entry

\* memoSet gives each key its new entry, none, or leaves it.
LEMMA MemoSetEntries ==
  ASSUME NEW new, NEW gone, DOMAIN new \subseteq Keys, MemoSet(new, gone)
  PROVE  /\ \A k \in DOMAIN new : memo'[k] \in {Absent, new[k]}
         /\ \A k \in Keys \ DOMAIN new : memo'[k] \in {Absent, memo[k]}
         /\ \A k \in gone \cap (Keys \ DOMAIN new) : memo'[k] = Absent
         /\ memo' = [k \in Keys |-> memo'[k]]
<1> DEFINE all == SelectSeq(order, LAMBDA k : k \notin DOMAIN new) \o SetToSeq(DOMAIN new)
           evicted == {all[i] : i \in 1..(Len(all) - MaxEntries[kind])}
<1>1. memo' = [k \in Keys |-> IF k \in gone \cup evicted THEN Absent
                              ELSE IF k \in DOMAIN new THEN new[k] ELSE memo[k]]
  BY Zenon DEF MemoSet
<1> HIDE DEF evicted
<1> QED
  BY <1>1

LEMMA ForgetKeepsCache ==
  ASSUME CacheInv, NEW S, Forget(S), UNCHANGED <<page, left>>, reqs' = reqs
  PROVE  CacheInv'
<1>1. /\ memo' = [k \in Keys |-> IF k \in S THEN Absent ELSE memo[k]]
  BY Zenon DEF Forget
<1>2. memo' \in [Keys -> Entry]
  BY <1>1 DEF CacheInv, Entry
<1>3. \A k \in Keys : memo'[k] = Absent \/ memo'[k] = memo[k]
  BY <1>1
<1>4. Absent.st # "pending" /\ Absent.st # "resolved"
  BY DEF Absent
<1>5. PendingIsLive'
  BY <1>3, <1>4 DEF CacheInv, PendingIsLive
<1>6. EntriesOurs' /\ CallsOurs'
  BY <1>3, <1>4 DEF CacheInv, EntriesOurs, CallsOurs, Ours
<1> QED
  BY <1>2, <1>5, <1>6 DEF CacheInv

\* A call that goes out: its slot was free, so no entry waits for it yet.
LEMMA SendKeepsCache ==
  ASSUME CacheInv, page \in Askers, UNCHANGED <<page, left>>,
         NEW r \in Ids, NEW S \in SUBSET Keys, NEW via \in {"hook", "batch", "walk"}, Send(r, S, via)
  PROVE  CacheInv'
<1> DEFINE new == [k \in S |-> Pending(r)]
<1>1. /\ \A k \in S : memo'[k] \in {Absent, Pending(r)}
      /\ \A k \in Keys \ S : memo'[k] \in {Absent, memo[k]}
      /\ memo' = [k \in Keys |-> memo'[k]]
  <2>1. DOMAIN new = S /\ MemoSet(new, {})
    BY DEF Send
  <2> HIDE DEF new
  <2>2. /\ \A k \in DOMAIN new : memo'[k] \in {Absent, new[k]}
        /\ \A k \in Keys \ DOMAIN new : memo'[k] \in {Absent, memo[k]}
        /\ memo' = [k \in Keys |-> memo'[k]]
    BY <2>1, MemoSetEntries
  <2> QED
    BY <2>1, <2>2 DEF new
<1>2. ~reqs[r].open /\ reqs' = [reqs EXCEPT ![r] = Call(S, via)]
  BY DEF Send
<1>3. Call(S, via) \in Requests /\ Call(S, via).open /\ Call(S, via).keys = S /\ Call(S, via).by = page
  BY DEF Call, Requests
<1>4. reqs' \in [Ids -> Requests]
  BY <1>2, <1>3 DEF CacheInv
<1>5. memo' \in [Keys -> Entry]
  <2>1. Absent \in Entry /\ Pending(r) \in Entry
    BY DEF Entry
  <2> QED
    BY <1>1, <2>1 DEF CacheInv
<1>6. Pending(r).st = "pending" /\ Pending(r).req = r /\ Absent.st = "absent"
  BY DEF Pending, Absent
<1>7. PendingIsLive'
  <2> SUFFICES ASSUME NEW k \in Keys, memo'[k].st = "pending"
               PROVE  reqs'[memo'[k].req].open /\ k \in reqs'[memo'[k].req].keys
    BY DEF PendingIsLive
  <2>1. CASE k \in S
    BY <1>1, <1>2, <1>3, <1>6, <2>1 DEF CacheInv
  <2>2. CASE k \notin S
    <3>1. memo'[k] = memo[k]
      BY <1>1, <1>6, <2>2
    <3>2. reqs[memo[k].req].open /\ k \in reqs[memo[k].req].keys
      BY <3>1 DEF CacheInv, PendingIsLive
    <3>3. memo[k].req # r
      BY <3>2, <1>2
    <3> QED
      BY <1>2, <3>1, <3>2, <3>3 DEF CacheInv
  <2> QED
    BY <2>1, <2>2
<1>8. EntriesOurs'
  BY <1>1, <1>6 DEF CacheInv, EntriesOurs, Ours
<1>9. CallsOurs'
  BY <1>2, <1>3 DEF CacheInv, CallsOurs, Ours
<1> QED
  BY <1>4, <1>5, <1>7, <1>8, <1>9 DEF CacheInv

\* prefetch asks for part of its keys, or for nothing.
LEMMA PrefetchKeepsCache ==
  ASSUME CacheInv, page \in Askers, UNCHANGED <<page, left>>, NEW S \in SUBSET Keys, Prefetch(S)
  PROVE  CacheInv'
<1> DEFINE need == {k \in S : NeedsFetch(memo, k)}
<1>1. need \in SUBSET Keys
  OBVIOUS
<1>2. CASE need = {}
  <2>1. memo' = memo /\ reqs' = reqs
    BY <1>2 DEF Prefetch
  <2> QED
    BY <2>1 DEF CacheInv, PendingIsLive, EntriesOurs, CallsOurs, Ours
<1>3. CASE need # {}
  <2>1. PICK r \in Ids : Send(r, need, "batch")
    BY <1>3 DEF Prefetch
  <2> HIDE DEF need
  <2> QED
    BY <1>1, <2>1, SendKeepsCache
<1> QED
  BY <1>2, <1>3

-----------------------------------------------------------------------------
(* Calls that end                                                          *)

\* The entries of a call are gone or replaced when its slot is free again.
LEMMA SettleKeepsCache ==
  ASSUME CacheInv, UNCHANGED <<page, left>>, NEW r \in Ids, reqs[r].open,
         reqs' = [reqs EXCEPT ![r] = Idle],
         memo' \in [Keys -> Entry],
         \A k \in Keys : \/ memo'[k] \in {Absent, memo[k]}
                         \/ memo'[k].st = "resolved" /\ memo'[k].by = reqs[r].by,
         \A k \in reqs[r].keys : memo'[k].st = "pending" => memo'[k].req # r
  PROVE  CacheInv'
<1>1. Idle \in Requests /\ ~Idle.open
  BY DEF Idle, Requests, Askers
<1>2. reqs' \in [Ids -> Requests]
  BY <1>1 DEF CacheInv
<1>3. Absent.st = "absent"
  BY DEF Absent
<1>4. PendingIsLive'
  <2> SUFFICES ASSUME NEW k \in Keys, memo'[k].st = "pending"
               PROVE  reqs'[memo'[k].req].open /\ k \in reqs'[memo'[k].req].keys
    BY DEF PendingIsLive
  <2>1. memo'[k] = memo[k]
    BY <1>3
  <2>2. reqs[memo[k].req].open /\ k \in reqs[memo[k].req].keys
    BY <2>1 DEF CacheInv, PendingIsLive
  <2>3. memo[k].req # r
    BY <2>1, <2>2
  <2> QED
    BY <2>1, <2>2, <2>3 DEF CacheInv
<1>5. EntriesOurs'
  <2> SUFFICES ASSUME NEW k \in Keys, memo'[k].st = "resolved" PROVE memo'[k].by \in {page} \cup left
    BY DEF EntriesOurs, Ours
  <2>1. reqs[r].by \in {page} \cup left
    BY DEF CacheInv, CallsOurs, Ours
  <2>2. memo[k].st = "resolved" => memo[k].by \in {page} \cup left
    BY DEF CacheInv, EntriesOurs, Ours
  <2> QED
    BY <1>3, <2>1, <2>2
<1>6. CallsOurs'
  <2> SUFFICES ASSUME NEW q \in Ids, reqs'[q].open PROVE reqs'[q].by \in {page} \cup left
    BY DEF CallsOurs, Ours
  <2>1. q # r /\ reqs'[q] = reqs[q]
    BY <1>1 DEF CacheInv
  <2> QED
    BY <2>1 DEF CacheInv, CallsOurs, Ours
<1> QED
  BY <1>2, <1>4, <1>5, <1>6 DEF CacheInv

\* "told" is the tiles after the effects that wait for call r were told.
ToldBy(told, r) ==
    /\ told \in [Tiles -> TileStates]
    /\ \A t \in Tiles :
        IF tiles[t].waits # r THEN told[t] = tiles[t]
        ELSE /\ told[t].on = tiles[t].on /\ told[t].waits = None
             /\ told[t].by = reqs[r].by

LEMMA ToldIs ==
  ASSUME NEW r \in Ids, reqs[r].by \in Askers, \A t \in Tiles : tiles[t] \in TileStates, NEW images
  PROVE  ToldBy(Told(r, images), r)
<1> DEFINE told == Told(r, images)
<1>1. ASSUME NEW t \in Tiles
      PROVE  /\ told[t] \in TileStates
             /\ IF tiles[t].waits # r THEN told[t] = tiles[t]
                ELSE told[t].on = tiles[t].on /\ told[t].waits = None /\ told[t].by = reqs[r].by
  <2>1. CASE tiles[t].waits # r
    BY <2>1 DEF Told
  <2>2. CASE tiles[t].waits = r /\ tiles[t].key \in images
    <3>1. told[t] = [tiles[t] EXCEPT !.waits = None, !.loading = FALSE, !.has = TRUE, !.by = reqs[r].by]
      <4>1. (tiles[t].key \in images) = TRUE
        BY <2>2
      <4> QED
        BY <2>2, <4>1, Zenon DEF Told
    <3> HIDE DEF told
    <3> QED
      BY <2>2, <3>1 DEF TileStates
  <2>3. CASE tiles[t].waits = r /\ tiles[t].key \notin images
    <3>1. told[t] = [tiles[t] EXCEPT !.waits = None, !.loading = FALSE, !.has = FALSE, !.by = reqs[r].by]
      <4>1. (tiles[t].key \in images) = FALSE
        BY <2>3
      <4> QED
        BY <2>3, <4>1, Zenon DEF Told
    <3> HIDE DEF told
    <3> QED
      BY <2>3, <3>1 DEF TileStates
  <2> QED
    BY <2>1, <2>2, <2>3
<1>2. told = [t \in Tiles |-> told[t]]
  BY DEF Told
<1> HIDE DEF told
<1>3. told \in [Tiles -> TileStates]
  BY <1>1, <1>2
<1>4. ToldBy(told, r)
  BY <1>1, <1>3 DEF ToldBy
<1> QED
  BY <1>4 DEF told

LEMMA CloseKeepsTiles ==
  ASSUME TilesInv, CallsOurs, NEW r \in Ids, reqs[r].open, NEW told, ToldBy(told, r), Close(r, told)
  PROVE  TilesInv'
<1>1. UNCHANGED <<page, left>> /\ tiles' = IF Notifies(reqs[r].via) THEN Notified(told) ELSE told
  BY DEF Close
<1>2. r # None /\ reqs[r].by \in {page} \cup left
  BY DEF Ids, None, CallsOurs, Ours
<1>3. \A t \in Tiles : /\ told[t] \in TileStates /\ tiles[t] \in TileStates
                       /\ ~told[t].on => told[t].waits = None /\ ~told[t].has
                       /\ told[t].has /\ ~told[t].dirty /\ ~told[t].loading => told[t].by \in {page} \cup left
  <2> SUFFICES ASSUME NEW t \in Tiles
               PROVE  /\ told[t] \in TileStates /\ tiles[t] \in TileStates
                      /\ ~told[t].on => told[t].waits = None /\ ~told[t].has
                      /\ told[t].has /\ ~told[t].dirty /\ ~told[t].loading => told[t].by \in {page} \cup left
    OBVIOUS
  <2>1. told[t] \in TileStates /\ tiles[t] \in TileStates
    BY DEF ToldBy, TilesInv
  <2>2. ~tiles[t].on => tiles[t].waits = None /\ ~tiles[t].has
    BY DEF TilesInv, OffIsBlank
  <2>3. tiles[t].has /\ ~tiles[t].dirty /\ ~tiles[t].loading => tiles[t].by \in {page} \cup left
    BY DEF TilesInv, TilesOurs, Ours
  <2>4. CASE tiles[t].waits # r
    BY <2>1, <2>2, <2>3, <2>4 DEF ToldBy
  <2>5. CASE tiles[t].waits = r
    BY <1>2, <2>1, <2>2, <2>5 DEF ToldBy
  <2> QED
    BY <2>4, <2>5
<1>4. CASE Notifies(reqs[r].via)
  <2>1. \A t \in Tiles : tiles'[t] = [told[t] EXCEPT !.dirty = told[t].on]
    BY <1>1, <1>4 DEF Notified
  <2>2. tiles' \in [Tiles -> TileStates]
    BY <1>1, <1>3, <1>4 DEF Notified, TileStates
  <2>3. \A t \in Tiles : /\ tiles'[t].on = told[t].on /\ tiles'[t].dirty = told[t].on
                         /\ tiles'[t].waits = told[t].waits /\ tiles'[t].has = told[t].has
    BY <1>3, <2>1 DEF TileStates
  <2>4. OffIsBlank' /\ TilesOurs'
    BY <1>3, <2>3 DEF OffIsBlank, TilesOurs
  <2> QED
    BY <2>2, <2>4 DEF TilesInv
<1>5. CASE ~Notifies(reqs[r].via)
  <2>1. tiles' = told
    BY <1>1, <1>5
  <2> QED
    BY <1>1, <1>3, <2>1 DEF ToldBy, TilesInv, OffIsBlank, TilesOurs, Ours
<1> QED
  BY <1>4, <1>5

LEMMA CloseKeepsWalk ==
  ASSUME Types, NEW r \in Ids, NEW told, Close(r, told)
  PROVE  Asked'
<1>0. low' = low
  BY DEF Close
<1>1. CASE walk.on = r
  <2>1. walk' = [walk EXCEPT !.on = None]
    BY <1>1 DEF Close
  <2>2. walk'.todo = walk.todo /\ walk'.need = walk.need
    BY <2>1
  <2> QED
    BY <1>0, <2>2 DEF Types, Asked
<1>2. CASE walk.on # r
  BY <1>0, <1>2 DEF Close, Types, Asked
<1> QED
  BY <1>1, <1>2

\* The invariant in its parts.
LEMMA PartsMakeInv ==
  ASSUME Inv, page' \in Askers, CacheInv', TilesInv', Asked'
  PROVE  Inv'
<1> USE DEF Inv, Types, CacheInv, TilesInv
<1> HIDE DEF Requests, TileStates
<1> QED
  OBVIOUS

LEMMA PartsOfInv ==
  ASSUME Inv
  PROVE  /\ page \in Askers /\ CacheInv /\ TilesInv /\ Asked
  BY DEF Inv, Types, CacheInv, TilesInv

LEMMA AnswerKeepsInv == ASSUME Inv, NEW r \in Ids, Answer(r) PROVE Inv'
<1> DEFINE S == reqs[r].keys
           Kept(rows) == {k \in S : ~Dropped(reqs[r].via, rows[k])}
           New(rows) == [k \in Kept(rows) |-> Resolved(rows[k] = "image", reqs[r].by)]
           Tolds(rows) == Told(r, {k \in S : rows[k] = "image"})
<1>1. PICK rows \in [S -> Rows] : MemoSet(New(rows), S \ Kept(rows)) /\ Close(r, Tolds(rows))
  BY DEF Answer
<1>2. reqs[r].open /\ S \subseteq Keys /\ reqs[r].by \in Askers
  BY DEF Answer, Inv, Types, Requests
<1>3. DOMAIN New(rows) = Kept(rows) /\ Kept(rows) \subseteq S
  OBVIOUS
<1>4. /\ \A k \in Kept(rows) : memo'[k] \in {Absent, Resolved(rows[k] = "image", reqs[r].by)}
      /\ \A k \in Keys \ Kept(rows) : memo'[k] \in {Absent, memo[k]}
      /\ \A k \in S \ Kept(rows) : memo'[k] = Absent
      /\ memo' = [k \in Keys |-> memo'[k]]
  <2> DEFINE new == New(rows)
             kept == Kept(rows)
             gone == S \ kept
  <2>1. MemoSet(new, gone) /\ DOMAIN new = kept /\ kept \subseteq Keys /\ gone \subseteq Keys \ kept
    BY <1>1, <1>2
  <2>2. \A k \in kept : new[k] = Resolved(rows[k] = "image", reqs[r].by)
    OBVIOUS
  <2> HIDE DEF new, kept
  <2>3. /\ \A k \in DOMAIN new : memo'[k] \in {Absent, new[k]}
        /\ \A k \in Keys \ DOMAIN new : memo'[k] \in {Absent, memo[k]}
        /\ \A k \in gone \cap (Keys \ DOMAIN new) : memo'[k] = Absent
        /\ memo' = [k \in Keys |-> memo'[k]]
    BY <2>1, MemoSetEntries
  <2>4. /\ \A k \in kept : memo'[k] \in {Absent, Resolved(rows[k] = "image", reqs[r].by)}
        /\ \A k \in Keys \ kept : memo'[k] \in {Absent, memo[k]}
        /\ \A k \in gone : memo'[k] = Absent
    BY <2>1, <2>2, <2>3
  <2> QED
    BY <2>3, <2>4 DEF kept
<1> HIDE DEF Kept
<1>5. \A has \in BOOLEAN : /\ Resolved(has, reqs[r].by) \in Entry
                           /\ Resolved(has, reqs[r].by).st = "resolved"
                           /\ Resolved(has, reqs[r].by).by = reqs[r].by
  BY <1>2 DEF Resolved, Entry
<1>6. memo' \in [Keys -> Entry]
  <2>1. Absent \in Entry
    BY DEF Entry
  <2>2. \A k \in Keys : memo[k] \in Entry
    BY DEF Inv, Types
  <2>3. \A k \in Keys : memo'[k] \in Entry
    BY <1>4, <1>5, <2>1, <2>2
  <2> QED
    BY <1>4, <2>3
<1>7. UNCHANGED <<page, left>> /\ reqs' = [reqs EXCEPT ![r] = Idle]
  BY <1>1 DEF Close
<1>8. CacheInv'
  <2>1. CacheInv
    BY DEF Inv, Types, CacheInv
  <2>2. \A k \in Keys : \/ memo'[k] \in {Absent, memo[k]}
                        \/ memo'[k].st = "resolved" /\ memo'[k].by = reqs[r].by
    BY <1>4, <1>5
  <2>3. \A k \in S : memo'[k].st # "pending"
    <3>1. Absent.st # "pending"
      BY DEF Absent
    <3> QED
      BY <1>3, <1>4, <1>5, <3>1
  <2> QED
    BY <1>2, <1>6, <1>7, <2>1, <2>2, <2>3, SettleKeepsCache
<1>9. ToldBy(Tolds(rows), r)
  BY <1>2, ToldIs DEF Inv, Types
<1>10. TilesInv'
  <2>1. TilesInv /\ CallsOurs
    BY DEF Inv, Types, TilesInv
  <2> DEFINE told == Tolds(rows)
  <2>2. ToldBy(told, r) /\ Close(r, told)
    BY <1>1, <1>9
  <2> HIDE DEF told
  <2> QED
    BY <1>2, <2>1, <2>2, CloseKeepsTiles
<1>11. Asked'
  <2> DEFINE told == Tolds(rows)
  <2>1. Close(r, told) /\ Types
    BY <1>1 DEF Inv
  <2> HIDE DEF told
  <2> QED
    BY <2>1, CloseKeepsWalk
<1>12. page' \in Askers
  BY <1>7 DEF Inv, Types
<1> QED
  BY <1>7, <1>8, <1>10, <1>11, <1>12, PartsMakeInv, Zenon

LEMMA RejectKeepsInv == ASSUME Inv, NEW r \in Ids, Reject(r) PROVE Inv'
<1> DEFINE mine == IF reqs[r].via = "walk" THEN {k \in reqs[r].keys : memo[k] = Pending(r)}
                                           ELSE reqs[r].keys
           told == Told(r, {})
<1>1. reqs[r].open /\ Forget(mine) /\ Close(r, told)
  BY DEF Reject
<1>2. /\ page \in Askers /\ CacheInv /\ TilesInv
      /\ UNCHANGED <<page, left>> /\ reqs' = [reqs EXCEPT ![r] = Idle]
      /\ reqs[r].keys \subseteq Keys /\ reqs[r].by \in Askers
  BY <1>1 DEF Close, Inv, Types, CacheInv, TilesInv, Requests
<1>3. memo' = [k \in Keys |-> IF k \in mine THEN Absent ELSE memo[k]]
  BY <1>1, Zenon DEF Forget
<1>4. ToldBy(told, r)
  BY <1>2, ToldIs DEF Inv, Types
<1> HIDE DEF told
<1>5. CacheInv'
  <2>1. memo' \in [Keys -> Entry]
    BY <1>2, <1>3 DEF CacheInv, Entry
  <2>2. \A k \in Keys : memo'[k] \in {Absent, memo[k]}
    BY <1>3
  <2>3. \A k \in reqs[r].keys : memo'[k].st = "pending" => memo'[k].req # r
    <3> SUFFICES ASSUME NEW k \in reqs[r].keys, memo'[k].st = "pending", memo'[k].req = r PROVE FALSE
      OBVIOUS
    <3>1. Absent.st # "pending"
      BY DEF Absent
    <3>2. k \in Keys /\ k \notin mine /\ memo'[k] = memo[k]
      BY <1>2, <1>3, <3>1
    <3>3. memo[k] # Pending(r)
      BY <3>2
    <3>4. memo[k] \in Entry
      BY <1>2, <3>2 DEF CacheInv
    <3>5. memo[k].st = "pending" /\ memo[k].req = r
      BY <3>2
    <3>6. PICK q \in Ids : memo[k] = Pending(q)
      BY <3>1, <3>4, <3>5, EntryCases
    <3>7. Pending(q).req = q
      BY DEF Pending
    <3> QED
      BY <3>3, <3>5, <3>6, <3>7
  <2> QED
    BY <1>1, <1>2, <2>1, <2>2, <2>3, SettleKeepsCache
<1>6. TilesInv'
  <2>1. CallsOurs
    BY DEF Inv
  <2> QED
    BY <1>1, <1>2, <1>4, <2>1, CloseKeepsTiles
<1>7. Asked'
  BY <1>1, CloseKeepsWalk DEF Inv
<1> QED
  BY <1>2, <1>5, <1>6, <1>7, PartsMakeInv, Zenon

-----------------------------------------------------------------------------
(* Hooks, lists and accounts                                               *)

LEMMA QuietCache ==
  ASSUME CacheInv, UNCHANGED <<page, left>>, memo' = memo, reqs' = reqs
  PROVE  CacheInv'
  BY DEF CacheInv, PendingIsLive, EntriesOurs, CallsOurs, Ours

LEMMA QuietAsked ==
  ASSUME Asked, low' \subseteq Keys \/ low' = low, walk' = walk
  PROVE  Asked'
  BY DEF Asked

LEMMA QuietTiles ==
  ASSUME TilesInv, UNCHANGED <<page, left>>, tiles' = tiles
  PROVE  TilesInv'
  BY DEF TilesInv, TilesOurs, OffIsBlank, Ours

\* A tile that changes by itself: blank when it is off, and ours when it shows.
LEMMA TileKeepsTiles ==
  ASSUME TilesInv, UNCHANGED <<page, left>>, NEW t \in Tiles, NEW x \in TileStates,
         tiles' = [tiles EXCEPT ![t] = x],
         ~x.on => x.waits = None /\ ~x.has,
         x.has /\ ~x.dirty /\ ~x.loading => x.by \in Ours
  PROVE  TilesInv'
<1>1. tiles' \in [Tiles -> TileStates]
  BY DEF TilesInv
<1>2. \A u \in Tiles : tiles'[u] = IF u = t THEN x ELSE tiles[u]
  BY DEF TilesInv
<1>3. TilesOurs'
  <2> SUFFICES ASSUME NEW u \in Tiles, tiles'[u].has, ~tiles'[u].dirty, ~tiles'[u].loading
               PROVE  tiles'[u].by \in {page} \cup left
    BY DEF TilesOurs, Ours
  <2> QED
    BY <1>2 DEF TilesInv, TilesOurs, Ours
<1>4. OffIsBlank'
  BY <1>2 DEF TilesInv, OffIsBlank
<1> QED
  BY <1>1, <1>3, <1>4 DEF TilesInv

LEMMA RenderKeepsInv == ASSUME Inv, NEW t \in Tiles, Render(t) PROVE Inv'
<1> DEFINE x == tiles[t]
           e == memo[x.key]
           Loading(r) == [x EXCEPT !.dirty = FALSE, !.loading = TRUE, !.waits = r]
<1>1. /\ page \in Askers /\ CacheInv /\ TilesInv /\ x \in TileStates /\ x.key \in Keys /\ e \in Entry
      /\ UNCHANGED <<page, left>> /\ x.on /\ Asked'
  BY QuietAsked DEF Render, Inv, Types, CacheInv, TilesInv, TileStates
<1>2. ASSUME NEW r \in Ids, tiles' = [tiles EXCEPT ![t] = Loading(r)] PROVE TilesInv'
  <2>1. /\ Loading(r) \in TileStates /\ Loading(r).on /\ Loading(r).loading
    BY <1>1 DEF TileStates
  <2> HIDE DEF Loading
  <2> QED
    BY <1>1, <1>2, <2>1, TileKeepsTiles
<1>3. CASE /\ Fresh(e) /\ UNCHANGED <<memo, order, reqs>>
           /\ tiles' = [tiles EXCEPT ![t] = [x EXCEPT !.dirty = FALSE, !.loading = FALSE, !.waits = None,
                                                      !.has = e.has, !.by = e.by]]
  <2> DEFINE y == [x EXCEPT !.dirty = FALSE, !.loading = FALSE, !.waits = None, !.has = e.has, !.by = e.by]
  <2>1. e.st = "resolved" /\ e.has \in BOOLEAN /\ e.by \in Askers
    <3>1. e.st = "resolved"
      BY <1>3 DEF Fresh
    <3>2. Absent.st # "resolved" /\ \A r \in Ids : Pending(r).st # "resolved"
      BY DEF Absent, Pending
    <3> HIDE DEF e
    <3>3. PICK has \in BOOLEAN, by \in Askers, fresh \in BOOLEAN :
             e = [st |-> "resolved", has |-> has, by |-> by, fresh |-> fresh]
      BY <1>1, <3>1, <3>2, EntryCases
    <3> QED
      BY <3>1, <3>3
  <2>2. e.by \in Ours
    BY <1>1, <2>1 DEF CacheInv, EntriesOurs
  <2>3. y \in TileStates /\ y.on /\ y.by \in Ours
    BY <1>1, <2>1, <2>2 DEF TileStates
  <2>4. TilesInv'
    <3>1. tiles' = [tiles EXCEPT ![t] = y]
      BY <1>3
    <3> HIDE DEF y
    <3> QED
      BY <1>1, <2>3, <3>1, TileKeepsTiles
  <2>5. CacheInv'
    BY <1>1, <1>3, QuietCache
  <2> QED
    BY <1>1, <2>4, <2>5, PartsMakeInv
<1>4. CASE /\ e.st = "pending" /\ UNCHANGED <<memo, order, reqs>>
           /\ tiles' = [tiles EXCEPT ![t] =
                IF kind = "assets"
                THEN [x EXCEPT !.dirty = FALSE, !.loading = FALSE, !.waits = None, !.has = FALSE, !.by = page]
                ELSE Loading(e.req)]
  <2>1. CacheInv'
    BY <1>1, <1>4, QuietCache
  <2>2. CASE kind = "assets"
    <3> DEFINE y == [x EXCEPT !.dirty = FALSE, !.loading = FALSE, !.waits = None, !.has = FALSE, !.by = page]
    <3>1. y \in TileStates /\ y.on /\ ~y.has
      BY <1>1 DEF TileStates
    <3>2. tiles' = [tiles EXCEPT ![t] = y]
      BY <1>4, <2>2
    <3> HIDE DEF y
    <3>3. TilesInv'
      BY <1>1, <3>1, <3>2, TileKeepsTiles
    <3> QED
      BY <1>1, <2>1, <3>3, PartsMakeInv
  <2>3. CASE kind # "assets"
    <3>1. e.req \in Ids
      <4>1. Absent.st # "pending"
        BY DEF Absent
      <4> HIDE DEF e
      <4>2. PICK q \in Ids : e = Pending(q)
        BY <1>1, <1>4, <4>1, EntryCases
      <4> QED
        BY <4>2 DEF Pending
    <3>2. tiles' = [tiles EXCEPT ![t] = Loading(e.req)]
      BY <1>4, <2>3
    <3>3. TilesInv'
      BY <1>2, <3>1, <3>2
    <3> QED
      BY <1>1, <2>1, <3>3, PartsMakeInv
  <2> QED
    BY <2>2, <2>3
<1>5. CASE \E r \in Ids : Send(r, {x.key}, "hook") /\ tiles' = [tiles EXCEPT ![t] = Loading(r)]
  <2>1. PICK r \in Ids : Send(r, {x.key}, "hook") /\ tiles' = [tiles EXCEPT ![t] = Loading(r)]
    BY <1>5
  <2>2. CacheInv'
    <3>1. {x.key} \in SUBSET Keys
      BY <1>1
    <3> QED
      BY <1>1, <2>1, <3>1, SendKeepsCache
  <2>3. TilesInv'
    BY <1>2, <2>1
  <2> QED
    BY <1>1, <2>2, <2>3, PartsMakeInv
<1> QED
  BY <1>3, <1>4, <1>5 DEF Render

LEMMA MountKeepsInv == ASSUME Inv, NEW t \in Tiles, NEW k \in Keys, Mount(t, k) PROVE Inv'
<1> DEFINE y == IF Fresh(memo[k])
                THEN [Mounted(k) EXCEPT !.loading = FALSE, !.has = memo[k].has, !.by = memo[k].by]
                ELSE Mounted(k)
<1>1. /\ UNCHANGED <<page, left>> /\ memo' = memo /\ reqs' = reqs /\ low' = low /\ walk' = walk
      /\ tiles' = [tiles EXCEPT ![t] = y]
  BY DEF Mount
<1>2. y \in TileStates /\ y.on /\ y.dirty
  <2>1. Mounted(k) \in TileStates /\ Mounted(k).on /\ Mounted(k).dirty
    BY DEF Mounted, TileStates, Askers
  <2>2. CASE Fresh(memo[k])
    <3>1. memo[k] \in Entry /\ memo[k].st = "resolved"
      BY <2>2 DEF Fresh, Inv, Types
    <3>2. Absent.st # "resolved" /\ \A r \in Ids : Pending(r).st # "resolved"
      BY DEF Absent, Pending
    <3>3. PICK has \in BOOLEAN, by \in Askers, fresh \in BOOLEAN :
             memo[k] = [st |-> "resolved", has |-> has, by |-> by, fresh |-> fresh]
      BY <3>1, <3>2, EntryCases
    <3>4. memo[k].has \in BOOLEAN /\ memo[k].by \in Askers
      BY <3>3
    <3> QED
      BY <2>1, <2>2, <3>4 DEF TileStates
  <2> QED
    BY <2>1, <2>2
<1> HIDE DEF y
<1>3. TilesInv'
  BY <1>1, <1>2, PartsOfInv, TileKeepsTiles
<1> QED
  BY <1>1, <1>3, PartsOfInv, QuietCache, QuietAsked, PartsMakeInv

LEMMA UnmountKeepsInv == ASSUME Inv, NEW t \in Tiles, Unmount(t) PROVE Inv'
<1>1. /\ UNCHANGED <<page, left>> /\ memo' = memo /\ reqs' = reqs /\ low' = low /\ walk' = walk
      /\ tiles' = [tiles EXCEPT ![t] = Unmounted]
  BY DEF Unmount
<1>2. Unmounted \in TileStates /\ ~Unmounted.on /\ Unmounted.waits = None /\ ~Unmounted.has
  <2>1. SomeKey \in Keys
    BY PageStoreAssumption DEF SomeKey
  <2> QED
    BY <2>1 DEF Unmounted, Mounted, TileStates, Askers
<1>3. TilesInv'
  BY <1>1, <1>2, PartsOfInv, TileKeepsTiles
<1> QED
  BY <1>1, <1>3, PartsOfInv, QuietCache, QuietAsked, PartsMakeInv

\* Waking every hook leaves only tiles that will ask again.
LEMMA NotifiedKeepsTiles ==
  ASSUME NEW ts \in [Tiles -> TileStates], tiles' = Notified(ts),
         \A t \in Tiles : ~ts[t].on => ts[t].waits = None /\ ~ts[t].has
  PROVE  TilesInv'
<1>1. \A t \in Tiles : tiles'[t] = [ts[t] EXCEPT !.dirty = ts[t].on]
  BY DEF Notified
<1>2. tiles' \in [Tiles -> TileStates]
  BY DEF Notified, TileStates
<1>3. \A t \in Tiles : /\ tiles'[t].on = ts[t].on /\ tiles'[t].dirty = ts[t].on
                       /\ tiles'[t].waits = ts[t].waits /\ tiles'[t].has = ts[t].has
  BY ZenonT(30), <1>1 DEF TileStates
<1>4. OffIsBlank' /\ TilesOurs'
  BY <1>3 DEF OffIsBlank, TilesOurs
<1> QED
  BY <1>2, <1>4 DEF TilesInv

LEMMA InvalidateKeepsInv == ASSUME Inv, NEW k \in Keys, Invalidate(k) PROVE Inv'
<1>1. /\ Forget({k}) /\ tiles' = Notified(tiles)
      /\ UNCHANGED <<page, left>> /\ reqs' = reqs /\ low' = low \ {k} /\ walk' = walk
  BY DEF Invalidate
<1>2. TilesInv'
  BY <1>1, PartsOfInv, NotifiedKeepsTiles DEF TilesInv, OffIsBlank
<1>3. CacheInv'
  BY <1>1, PartsOfInv, ForgetKeepsCache
<1>4. Asked'
  BY <1>1 DEF Inv, Types, Asked
<1> QED
  BY <1>1, <1>2, <1>3, <1>4, PartsOfInv, PartsMakeInv

LEMMA ExpireKeepsInv == ASSUME Inv, NEW k \in Keys, Expire(k) PROVE Inv'
<1>1. /\ memo[k].st = "resolved" /\ memo' = [memo EXCEPT ![k].fresh = FALSE]
      /\ UNCHANGED <<page, left>> /\ reqs' = reqs /\ tiles' = tiles /\ low' = low /\ walk' = walk
  BY DEF Expire, Fresh
<1>2. memo \in [Keys -> Entry] /\ memo[k] \in Entry
  BY DEF Inv, Types
<1>3. /\ memo'[k] \in Entry /\ memo'[k].st = "resolved" /\ memo'[k].by = memo[k].by
      /\ \A j \in Keys : j # k => memo'[j] = memo[j]
      /\ memo' = [j \in Keys |-> memo'[j]]
  <2>1. Absent.st # "resolved" /\ \A r \in Ids : Pending(r).st # "resolved"
    BY DEF Absent, Pending
  <2>2. PICK has \in BOOLEAN, by \in Askers, fresh \in BOOLEAN :
           memo[k] = [st |-> "resolved", has |-> has, by |-> by, fresh |-> fresh]
    BY <1>1, <1>2, <2>1, EntryCases
  <2> DEFINE R == [st : {"resolved"}, has : BOOLEAN, by : Askers, fresh : BOOLEAN]
  <2>3. memo[k] \in R
    BY <2>2
  <2>4. memo'[k] = [memo[k] EXCEPT !.fresh = FALSE]
    BY <1>1, <1>2
  <2>5. memo'[k] \in R /\ memo'[k].st = "resolved" /\ memo'[k].by = memo[k].by
    BY <2>3, <2>4
  <2> QED
    BY <1>1, <1>2, <2>5 DEF Entry
<1>4. CacheInv'
  <2>1. memo' \in [Keys -> Entry]
    BY <1>2, <1>3
  <2>2. PendingIsLive'
    BY <1>1, <1>3 DEF Inv, PendingIsLive
  <2>3. EntriesOurs'
    BY <1>1, <1>3 DEF Inv, EntriesOurs, Ours
  <2>4. reqs' \in [Ids -> Requests] /\ CallsOurs'
    BY <1>1 DEF Inv, Types, CallsOurs, Ours
  <2> QED
    BY <2>1, <2>2, <2>3, <2>4 DEF CacheInv
<1> QED
  BY <1>1, <1>4, PartsOfInv, QuietTiles, QuietAsked, PartsMakeInv

LEMMA ListsKeepInv ==
  ASSUME Inv, (\E V, L \in SUBSET Keys : ShowRows(V, L)) \/ Flush
  PROVE  Inv'
<1>1. \E S \in SUBSET Keys : Prefetch(S)
  <2>1. CASE Flush
    <3>1. PICK gone \in SUBSET low : Prefetch(gone)
      BY <2>1 DEF Flush
    <3> QED
      BY <3>1 DEF Inv, Types, Asked
  <2> QED
    BY <2>1 DEF ShowRows
<1>2. /\ UNCHANGED <<page, left>> /\ tiles' = tiles /\ walk' = walk
      /\ low' \subseteq Keys
  <2>1. low \subseteq Keys
    BY DEF Inv, Types, Asked
  <2>2. CASE Flush
    BY <2>1, <2>2 DEF Flush
  <2>3. ASSUME NEW V \in SUBSET Keys, NEW L \in SUBSET Keys, ShowRows(V, L)
        PROVE  UNCHANGED <<page, left>> /\ tiles' = tiles /\ walk' = walk /\ low' \subseteq Keys
    <3>1. low' = (IF kind = "thumbnails" THEN {} ELSE low) \cup {k \in L : NeedsFetch(memo', k)}
      BY <2>3 DEF ShowRows
    <3>2. UNCHANGED <<page, left>> /\ tiles' = tiles /\ walk' = walk
      BY <2>3 DEF ShowRows
    <3> QED
      BY <2>1, <3>1, <3>2
  <2> QED
    BY <2>2, <2>3
<1>3. CacheInv'
  BY <1>1, <1>2, PartsOfInv, PrefetchKeepsCache
<1> QED
  BY <1>2, <1>3, PartsOfInv, QuietTiles, QuietAsked, PartsMakeInv

\* What the walk looks at next, or sends.
LEMMA LookKeepsInv ==
  ASSUME Inv, NEW todo \in SUBSET Keys, NEW need \in SUBSET Keys, Look(todo, need),
         UNCHANGED <<page, left>>, tiles' = tiles, low' = low
  PROVE  Inv'
<1>1. TilesInv'
  BY PartsOfInv, QuietTiles
<1>2. CASE /\ walk' = NoWalk
           /\ LET all == need \cup {k \in todo : NeedsFetch(memo, k)}
              IN  IF all = {} THEN UNCHANGED <<memo, order, reqs>>
                  ELSE \E r \in Ids : Send(r, all, "walk")
  <2> DEFINE all == need \cup {k \in todo : NeedsFetch(memo, k)}
  <2>1. all \in SUBSET Keys
    OBVIOUS
  <2>2. CacheInv'
    <3>1. CASE all = {}
      BY <1>2, <3>1, PartsOfInv, QuietCache
    <3>2. CASE all # {}
      <4>1. PICK r \in Ids : Send(r, all, "walk")
        BY <1>2, <3>2
      <4> HIDE DEF all
      <4> QED
        BY <2>1, <4>1, PartsOfInv, SendKeepsCache
    <3> QED
      BY <3>1, <3>2
  <2>3. Asked'
    BY <1>2 DEF NoWalk, Inv, Types, Asked
  <2> QED
    BY <1>1, <2>2, <2>3, PartsOfInv, PartsMakeInv
<1>3. CASE \E seen \in SUBSET todo, p \in todo :
              /\ walk' = [st |-> "waiting", on |-> memo[p].req, todo |-> todo \ (seen \cup {p}),
                          need |-> need \cup {k \in seen : NeedsFetch(memo, k)}]
              /\ UNCHANGED <<memo, order, reqs>>
  <2>1. Asked' /\ memo' = memo /\ reqs' = reqs
    BY <1>3 DEF Inv, Types, Asked
  <2> QED
    BY <1>1, <2>1, PartsOfInv, QuietCache, PartsMakeInv
<1> QED
  BY <1>2, <1>3 DEF Look

\* With every entry forgotten it only matters whose calls are left.
LEMMA ResetKeepsInv ==
  ASSUME Inv, NEW cancel \in BOOLEAN, Reset(cancel), page' \in Askers, cancel \/ Ours \subseteq Ours'
  PROVE  Inv'
<1>1. memo' = [k \in Keys |-> Absent]
  <2>1. memo' = [k \in Keys |-> IF k \in Keys THEN Absent ELSE memo[k]]
    BY Zenon DEF Reset, Forget
  <2> QED
    BY <2>1
<1>2. Absent \in Entry /\ Absent.st = "absent"
  BY DEF Absent, Entry
<1>3. memo' \in [Keys -> Entry] /\ PendingIsLive' /\ EntriesOurs'
  BY <1>1, <1>2 DEF PendingIsLive, EntriesOurs
<1>4. CASE cancel
  <2> DEFINE told == [t \in Tiles |->
                    IF tiles[t].waits = None THEN tiles[t]
                    ELSE [tiles[t] EXCEPT !.waits = None, !.loading = FALSE, !.has = FALSE]]
  <2>1. reqs' = [r \in Ids |-> Idle] /\ walk' = [walk EXCEPT !.on = None] /\ tiles' = Notified(told)
    BY <1>4 DEF Reset
  <2>2. Idle \in Requests /\ ~Idle.open
    BY DEF Idle, Requests, Askers
  <2>3. CacheInv'
    BY <1>3, <2>1, <2>2 DEF CacheInv, CallsOurs
  <2>4. \A t \in Tiles : tiles[t] \in TileStates /\ (~tiles[t].on => tiles[t].waits = None /\ ~tiles[t].has)
    BY DEF Inv, Types, OffIsBlank
  <2>5. told \in [Tiles -> TileStates] /\ \A t \in Tiles : ~told[t].on => told[t].waits = None /\ ~told[t].has
    BY <2>4 DEF TileStates
  <2>6. TilesInv'
    <3> HIDE DEF told
    <3> QED
      BY <2>1, <2>5, NotifiedKeepsTiles
  <2>7. Asked'
    <3>1. walk' = [walk EXCEPT !.on = None] /\ low' = {}
      BY <2>1 DEF Reset
    <3>2. walk'.todo = walk.todo /\ walk'.need = walk.need
      BY <3>1
    <3> QED
      BY <3>1, <3>2 DEF Inv, Types, Asked
  <2> QED
    BY <2>3, <2>6, <2>7, PartsMakeInv
<1>5. CASE ~cancel
  <2>1. reqs' = reqs /\ low' = {} /\ walk' = walk /\ tiles' = Notified(tiles) /\ Ours \subseteq Ours'
    BY <1>5 DEF Reset
  <2>2. CallsOurs'
    BY <2>1 DEF Inv, CallsOurs, Ours
  <2>3. CacheInv'
    BY <1>3, <2>1, <2>2 DEF Inv, Types, CacheInv
  <2>4. TilesInv'
    BY <2>1, NotifiedKeepsTiles DEF Inv, Types, OffIsBlank
  <2> QED
    BY <2>1, <2>3, <2>4, PartsOfInv, QuietAsked, PartsMakeInv
<1> QED
  BY <1>4, <1>5

LEMMA AccountsKeepInv ==
  ASSUME Inv, \/ \E a \in Accounts : Login(a) \/ StatusFinds(a)
              \/ LoginAnnounced \/ Logout \/ \E a \in Askers : StatusChanges(a)
  PROVE  Inv'
<1>1. ASSUME NEW a \in Accounts, Login(a) PROVE Inv'
  <2>1. page' \in Askers /\ Ours \subseteq Ours' /\ Reset(FALSE)
    BY <1>1 DEF Login, Askers, Ours
  <2> QED
    BY <2>1, ResetKeepsInv
<1>2. ASSUME NEW a \in Accounts, StatusFinds(a) PROVE Inv'
  <2>1. /\ page' = a /\ left' = left \cup {page}
        /\ memo' = memo /\ reqs' = reqs /\ tiles' = tiles /\ low' = low /\ walk' = walk
    BY <1>2 DEF StatusFinds
  <2>2. CacheInv'
    BY <2>1 DEF Inv, Types, CacheInv, PendingIsLive, EntriesOurs, CallsOurs, Ours
  <2>3. TilesInv'
    BY <2>1 DEF Inv, Types, TilesInv, TilesOurs, OffIsBlank, Ours
  <2> QED
    BY <2>1, <2>2, <2>3, PartsOfInv, QuietAsked, PartsMakeInv DEF Askers
<1>3. CASE LoginAnnounced
  <2>1. page' \in Askers /\ Ours \subseteq Ours' /\ Reset(FALSE)
    BY <1>3 DEF LoginAnnounced, Inv, Types, Ours
  <2> QED
    BY <2>1, ResetKeepsInv
<1>4. CASE Logout
  BY <1>4, ResetKeepsInv DEF Logout, Askers
<1>5. ASSUME NEW a \in Askers, StatusChanges(a) PROVE Inv'
  BY <1>5, ResetKeepsInv DEF StatusChanges
<1> QED
  BY <1>1, <1>2, <1>3, <1>4, <1>5

-----------------------------------------------------------------------------
(* The theorems                                                            *)

LEMMA InitInv == Init => Inv
<1> SUFFICES ASSUME Init PROVE Inv
  OBVIOUS
<1>1. /\ page \in Askers /\ memo \in [Keys -> Entry] /\ reqs \in [Ids -> Requests]
      /\ \A k \in Keys : memo[k].st = "absent"
      /\ \A r \in Ids : ~reqs[r].open
  BY DEF Init, Askers, Entry, Absent, Idle, Requests
<1>2. Asked
  BY DEF Init, NoWalk, Asked
<1>3. tiles \in [Tiles -> TileStates] /\ \A t \in Tiles : tiles[t].waits = None /\ ~tiles[t].has
  <2>1. tiles = [t \in Tiles |-> Unmounted]
    BY DEF Init
  <2>2. Unmounted \in TileStates /\ Unmounted.waits = None /\ ~Unmounted.has
    <3>1. SomeKey \in Keys
      BY PageStoreAssumption DEF SomeKey
    <3> QED
      BY <3>1 DEF Unmounted, Mounted, TileStates, Askers
  <2> QED
    BY <2>1, <2>2
<1> QED
  BY <1>1, <1>2, <1>3 DEF Inv, Types, PendingIsLive, EntriesOurs, CallsOurs, TilesOurs, OffIsBlank

LEMMA NextKeepsInv == Inv /\ [Next]_vars => Inv'
<1> SUFFICES ASSUME Inv, [Next]_vars PROVE Inv'
  OBVIOUS
<1>1. ASSUME NEW r \in Ids, Answer(r) \/ Reject(r) PROVE Inv'
  BY <1>1, AnswerKeepsInv, RejectKeepsInv
<1>2. ASSUME NEW t \in Tiles, Render(t) PROVE Inv'
  BY <1>2, RenderKeepsInv
<1>3. ASSUME NEW t \in Tiles, Unmount(t) PROVE Inv'
  BY <1>3, UnmountKeepsInv
<1>4. ASSUME NEW t \in Tiles, NEW k \in Keys, Mount(t, k) PROVE Inv'
  BY <1>4, MountKeepsInv
<1>5. ASSUME NEW k \in Keys, Invalidate(k) \/ Expire(k) PROVE Inv'
  BY <1>5, InvalidateKeepsInv, ExpireKeepsInv
<1>6. CASE (\E V \in SUBSET Keys : \E L \in SUBSET (Keys \ V) : ShowRows(V, L)) \/ Flush
  <2>1. (\E V, L \in SUBSET Keys : ShowRows(V, L)) \/ Flush
    BY <1>6
  <2> QED
    BY <2>1, ListsKeepInv
<1>7. ASSUME NEW S \in SUBSET Keys, StartWalk(S) PROVE Inv'
  BY <1>7, LookKeepsInv DEF StartWalk
<1>8. CASE ContinueWalk
  BY <1>8, LookKeepsInv, PartsOfInv DEF ContinueWalk, Asked
<1>9. CASE \/ \E a \in Accounts : Login(a) \/ StatusFinds(a)
           \/ LoginAnnounced \/ Logout \/ \E a \in Askers : StatusChanges(a)
  BY <1>9, AccountsKeepInv
<1>10. CASE UNCHANGED vars
  <2>1. /\ UNCHANGED <<page, left>> /\ memo' = memo /\ reqs' = reqs
        /\ tiles' = tiles /\ low' = low /\ walk' = walk
    BY <1>10 DEF vars
  <2> QED
    BY <2>1, PartsOfInv, QuietCache, QuietTiles, QuietAsked, PartsMakeInv
<1> QED
  BY <1>1, <1>2, <1>3, <1>4, <1>5, <1>6, <1>7, <1>8, <1>9, <1>10 DEF Next

LEMMA AlwaysInv == Spec => []Inv
BY InitInv, NextKeepsInv, PTL DEF Spec

\* However answers, rejections, evictions and resets overtake each other, every
\* pending entry has its call: no key is lost to the cache.
THEOREM PendingAlwaysLive == Spec => []PendingIsLive
<1>1. Inv => PendingIsLive
  BY DEF Inv
<1> QED
  BY AlwaysInv, <1>1, PTL

\* Nothing that was asked for before the last logout, expiry or switch of account
\* is kept or shown after it, whatever logins and polls come between.
THEOREM NothingForeign == Spec => []NoForeignAnswer
<1>1. Inv => NoForeignAnswer
  BY DEF Inv, EntriesOurs, TilesOurs, Ours, NoForeignAnswer
<1> QED
  BY AlwaysInv, <1>1, PTL
-----------------------------------------------------------------------------
(* The tiles of the assets and image caches                                *)

(* A hook that has run since the last wake-up shows its entry.  A call that *)
(* settles wakes every hook, so the entry it writes is seen; an entry that  *)
(* changes without a wake-up is no answer any more.                         *)
Shows(x, e) ==
    x.on /\ ~x.dirty /\ e.st = "resolved" =>
        ~x.loading /\ x.has = e.has /\ (e.has => x.by = e.by)
Agrees == kind # "thumbnails" => \A t \in Tiles : Shows(tiles[t], memo[tiles[t].key])

\* No entry becomes an answer, or another one.
NoNewAnswer == \A k \in Keys : memo'[k].st # "resolved" \/ memo'[k] = memo[k]

LEMMA ForgetNoNewAnswer ==
  ASSUME NEW S, Forget(S)
  PROVE  NoNewAnswer
<1>1. memo' = [k \in Keys |-> IF k \in S THEN Absent ELSE memo[k]]
  BY Zenon DEF Forget
<1>2. Absent.st # "resolved"
  BY DEF Absent
<1> QED
  BY <1>1, <1>2 DEF NoNewAnswer

LEMMA SendNoNewAnswer ==
  ASSUME NEW r \in Ids, NEW S \in SUBSET Keys, NEW via, Send(r, S, via)
  PROVE  /\ NoNewAnswer
         /\ \A k \in S : memo'[k].st # "resolved"
<1> DEFINE new == [k \in S |-> Pending(r)]
<1>1. MemoSet(new, {}) /\ DOMAIN new = S /\ \A k \in S : new[k] = Pending(r)
  BY DEF Send
<1> HIDE DEF new
<1>2. /\ \A k \in S : memo'[k] \in {Absent, Pending(r)}
      /\ \A k \in Keys \ S : memo'[k] \in {Absent, memo[k]}
  BY <1>1, MemoSetEntries
<1>3. Absent.st # "resolved" /\ Pending(r).st # "resolved"
  BY DEF Absent, Pending
<1> QED
  BY <1>2, <1>3 DEF NoNewAnswer

LEMMA PrefetchNoNewAnswer ==
  ASSUME NEW S \in SUBSET Keys, Prefetch(S)
  PROVE  NoNewAnswer
<1> DEFINE need == {k \in S : NeedsFetch(memo, k)}
<1>1. CASE need = {}
  BY <1>1 DEF Prefetch, NoNewAnswer
<1>2. CASE need # {}
  <2>1. PICK r \in Ids : Send(r, need, "batch")
    BY <1>2 DEF Prefetch
  <2>2. need \in SUBSET Keys
    OBVIOUS
  <2> HIDE DEF need
  <2> QED
    BY <2>1, <2>2, SendNoNewAnswer
<1> QED
  BY <1>1, <1>2

LEMMA LookNoNewAnswer ==
  ASSUME NEW todo \in SUBSET Keys, NEW need \in SUBSET Keys, Look(todo, need)
  PROVE  NoNewAnswer
<1> DEFINE all == need \cup {k \in todo : NeedsFetch(memo, k)}
<1>1. UNCHANGED memo \/ \E r \in Ids : Send(r, all, "walk")
  BY DEF Look
<1>2. all \in SUBSET Keys
  OBVIOUS
<1> HIDE DEF all
<1> QED
  BY <1>1, <1>2, SendNoNewAnswer DEF NoNewAnswer

\* Every hook that is left will run again before it is compared.
LEMMA WokenAgrees ==
  ASSUME NEW ts, tiles' = Notified(ts), \A t \in Tiles : ts[t] \in TileStates
  PROVE  Agrees'
<1>1. \A t \in Tiles : tiles'[t].dirty = tiles'[t].on
  BY DEF Notified, TileStates
<1> QED
  BY <1>1 DEF Agrees, Shows

LEMMA UnmovedAgrees ==
  ASSUME Inv, Agrees, kind' = kind, tiles' = tiles, NoNewAnswer
  PROVE  Agrees'
<1>1. \A t \in Tiles : tiles[t].key \in Keys
  BY DEF Inv, Types, TileStates
<1> QED
  BY <1>1 DEF Agrees, Shows, NoNewAnswer

\* One tile changes, and is dirty, off, or shows what its entry says.
LEMMA TileAgrees ==
  ASSUME Inv, Agrees, kind' = kind, NoNewAnswer, NEW t \in Tiles, NEW y,
         tiles' = [tiles EXCEPT ![t] = y], Shows(y, memo'[y.key])
  PROVE  Agrees'
<1>1. /\ \A u \in Tiles : tiles'[u] = IF u = t THEN y ELSE tiles[u]
      /\ \A u \in Tiles : tiles[u].key \in Keys
  BY DEF Inv, Types, TileStates
<1>2. ASSUME NEW u \in Tiles, kind # "thumbnails" PROVE Shows(tiles'[u], memo'[tiles'[u].key])
  <2>1. CASE u = t
    BY <1>1, <2>1
  <2>2. CASE u # t
    <3>1. tiles'[u] = tiles[u] /\ tiles[u].key \in Keys /\ Shows(tiles[u], memo[tiles[u].key])
      BY <1>1, <1>2, <2>2 DEF Agrees
    <3> QED
      BY <3>1 DEF Shows, NoNewAnswer
  <2> QED
    BY <2>1, <2>2
<1> QED
  BY <1>2 DEF Agrees

\* An answer or a rejection that is not of the thumbnails cache wakes all.
LEMMA SettleAgrees ==
  ASSUME Inv, NEW r \in Ids, Answer(r) \/ Reject(r)
  PROVE  Agrees'
<1>1. PICK images : Close(r, Told(r, images))
  BY DEF Answer, Reject
<1>2. reqs[r].by \in Askers /\ \A t \in Tiles : tiles[t] \in TileStates
  BY DEF Inv, Types, Requests
<1> DEFINE told == Told(r, images)
<1>3. \A t \in Tiles : told[t] \in TileStates
  BY <1>2, ToldIs DEF ToldBy
<1>4. Close(r, told)
  BY <1>1
<1> HIDE DEF told
<1>5. CASE kind # "thumbnails"
  <2>1. tiles' = Notified(told)
    BY <1>4, <1>5 DEF Close, Notifies
  <2> QED
    BY <1>3, <2>1, WokenAgrees
<1>6. CASE kind = "thumbnails"
  BY <1>4, <1>6 DEF Close, Agrees
<1> QED
  BY <1>5, <1>6

\* The effect of a hook: a fresh entry is shown as it is, and one that is
\* asked for again is no answer from here on.
LEMMA RenderAgrees ==
  ASSUME Inv, Agrees, NEW t \in Tiles, Render(t)
  PROVE  Agrees'
<1> DEFINE x == tiles[t]
           e == memo[x.key]
           Loading(r) == [x EXCEPT !.dirty = FALSE, !.loading = TRUE, !.waits = r]
<1>1. kind' = kind /\ x \in TileStates /\ x.key \in Keys
  BY DEF Render, Inv, Types, TileStates
<1>2. \A r : Loading(r).key = x.key
  BY <1>1 DEF TileStates
<1>3. CASE /\ Fresh(e) /\ UNCHANGED memo
           /\ tiles' = [tiles EXCEPT ![t] = [x EXCEPT !.dirty = FALSE, !.loading = FALSE, !.waits = None,
                                                      !.has = e.has, !.by = e.by]]
  <2> DEFINE y == [x EXCEPT !.dirty = FALSE, !.loading = FALSE, !.waits = None, !.has = e.has, !.by = e.by]
  <2>1. y.key = x.key /\ ~y.loading /\ y.has = e.has /\ y.by = e.by
    BY <1>1 DEF TileStates
  <2>2. tiles' = [tiles EXCEPT ![t] = y]
    BY <1>3
  <2> HIDE DEF y
  <2>3. NoNewAnswer /\ Shows(y, memo'[y.key])
    BY <1>3, <2>1 DEF NoNewAnswer, Shows
  <2> QED
    BY <1>1, <2>2, <2>3, TileAgrees
<1>4. CASE e.st = "pending" /\ UNCHANGED memo
           /\ tiles' = [tiles EXCEPT ![t] =
                IF kind = "assets"
                THEN [x EXCEPT !.dirty = FALSE, !.loading = FALSE, !.waits = None, !.has = FALSE, !.by = page]
                ELSE Loading(e.req)]
  <2> DEFINE y == IF kind = "assets"
                  THEN [x EXCEPT !.dirty = FALSE, !.loading = FALSE, !.waits = None, !.has = FALSE, !.by = page]
                  ELSE Loading(e.req)
  <2>1. y.key = x.key
    BY <1>1, <1>2 DEF TileStates
  <2>2. tiles' = [tiles EXCEPT ![t] = y]
    BY <1>4
  <2> HIDE DEF y
  <2>3. NoNewAnswer /\ Shows(y, memo'[y.key])
    BY <1>4, <2>1 DEF NoNewAnswer, Shows
  <2> QED
    BY <1>1, <2>2, <2>3, TileAgrees
<1>5. CASE \E r \in Ids : Send(r, {x.key}, "hook") /\ tiles' = [tiles EXCEPT ![t] = Loading(r)]
  <2>1. PICK r \in Ids : Send(r, {x.key}, "hook") /\ tiles' = [tiles EXCEPT ![t] = Loading(r)]
    BY <1>5
  <2>2. {x.key} \in SUBSET Keys
    BY <1>1
  <2>3. NoNewAnswer /\ memo'[x.key].st # "resolved"
    BY <2>1, <2>2, SendNoNewAnswer
  <2>4. Shows(Loading(r), memo'[Loading(r).key])
    BY <1>2, <2>3 DEF Shows
  <2> HIDE DEF Loading
  <2> QED
    BY <1>1, <2>1, <2>3, <2>4, TileAgrees
<1> QED
  BY <1>3, <1>4, <1>5 DEF Render

\* A component comes or goes.
LEMMA MountAgrees ==
  ASSUME Inv, Agrees, NEW t \in Tiles, Unmount(t) \/ \E k \in Keys : Mount(t, k)
  PROVE  Agrees'
<1>1. NoNewAnswer /\ kind' = kind
  BY DEF Mount, Unmount, NoNewAnswer
<1>2. CASE Unmount(t)
  <2>1. tiles' = [tiles EXCEPT ![t] = Unmounted] /\ ~Unmounted.on
    BY <1>2 DEF Unmount, Unmounted, Mounted
  <2> QED
    BY <1>1, <2>1, TileAgrees DEF Shows
<1>3. ASSUME NEW k \in Keys, Mount(t, k) PROVE Agrees'
  <2> DEFINE y == IF Fresh(memo[k])
                  THEN [Mounted(k) EXCEPT !.loading = FALSE, !.has = memo[k].has, !.by = memo[k].by]
                  ELSE Mounted(k)
  <2>1. tiles' = [tiles EXCEPT ![t] = y] /\ y.dirty
    BY <1>3 DEF Mount, Mounted
  <2> HIDE DEF y
  <2> QED
    BY <1>1, <2>1, TileAgrees DEF Shows
<1> QED
  BY <1>2, <1>3

\* An answer that is too old is still the one the tile shows.
LEMMA ExpireAgrees ==
  ASSUME Inv, Agrees, NEW k \in Keys, Expire(k)
  PROVE  Agrees'
<1>1. /\ memo[k].st = "resolved" /\ memo' = [memo EXCEPT ![k].fresh = FALSE]
      /\ tiles' = tiles /\ kind' = kind
  BY DEF Expire, Fresh
<1>2. memo[k] \in [st : {"resolved"}, has : BOOLEAN, by : Askers, fresh : BOOLEAN]
  <2>1. memo[k] \in Entry /\ Absent.st # "resolved" /\ \A r \in Ids : Pending(r).st # "resolved"
    BY DEF Inv, Types, Absent, Pending
  <2>2. PICK has \in BOOLEAN, by \in Askers, fresh \in BOOLEAN :
           memo[k] = [st |-> "resolved", has |-> has, by |-> by, fresh |-> fresh]
    BY <1>1, <2>1, EntryCases
  <2> QED
    BY <2>2
<1>3. memo'[k].st = memo[k].st /\ memo'[k].has = memo[k].has /\ memo'[k].by = memo[k].by
  BY <1>1, <1>2 DEF Inv, Types
<1>4. \A j \in Keys : j # k => memo'[j] = memo[j]
  BY <1>1 DEF Inv, Types
<1>5. \A t \in Tiles : tiles[t].key \in Keys
  BY DEF Inv, Types, TileStates
<1> QED
  BY <1>1, <1>3, <1>4, <1>5 DEF Agrees, Shows

\* A reset, or an image that does not load: every hook asks again.
LEMMA ResetAgrees ==
  ASSUME Inv, (\E k \in Keys : Invalidate(k)) \/ \E cancel \in BOOLEAN : Reset(cancel)
  PROVE  Agrees'
<1> DEFINE told == [t \in Tiles |->
                  IF tiles[t].waits = None THEN tiles[t]
                  ELSE [tiles[t] EXCEPT !.waits = None, !.loading = FALSE, !.has = FALSE]]
<1>1. \A t \in Tiles : tiles[t] \in TileStates
  BY DEF Inv, Types
<1>2. \A t \in Tiles : told[t] \in TileStates
  BY <1>1 DEF TileStates
<1>3. tiles' = Notified(tiles) \/ tiles' = Notified(told)
  BY DEF Invalidate, Reset
<1> HIDE DEF told
<1>4. CASE tiles' = Notified(tiles)
  BY <1>1, <1>4, WokenAgrees
<1>5. CASE tiles' = Notified(told)
  BY <1>2, <1>5, WokenAgrees
<1> QED
  BY <1>3, <1>4, <1>5

LEMMA InitAgrees == Init => Agrees
<1>1. ~Unmounted.on
  BY DEF Unmounted, Mounted
<1>2. Init => \A t \in Tiles : tiles[t] = Unmounted
  BY DEF Init
<1> QED
  BY <1>1, <1>2 DEF Agrees, Shows

LEMMA NextAgrees == Inv /\ Agrees /\ [Next]_vars => Agrees'
<1> SUFFICES ASSUME Inv, Agrees, [Next]_vars PROVE Agrees'
  OBVIOUS
<1>1. CASE \E r \in Ids : Answer(r) \/ Reject(r)
  BY <1>1, SettleAgrees
<1>2. CASE \E t \in Tiles : Render(t) \/ Unmount(t)
  BY <1>2, RenderAgrees, MountAgrees
<1>3. CASE \E t \in Tiles, k \in Keys : Mount(t, k)
  BY <1>3, MountAgrees
<1>4. CASE \E k \in Keys : Invalidate(k) \/ Expire(k)
  BY <1>4, ResetAgrees, ExpireAgrees
<1>5. CASE \E V \in SUBSET Keys : \E L \in SUBSET (Keys \ V) : ShowRows(V, L)
  BY <1>5, PrefetchNoNewAnswer, UnmovedAgrees DEF ShowRows
<1>6. CASE Flush
  <2>1. PICK gone \in SUBSET low : Prefetch(gone)
    BY <1>6 DEF Flush
  <2>2. gone \in SUBSET Keys
    BY DEF Inv, Types, Asked
  <2> QED
    BY <1>6, <2>1, <2>2, PrefetchNoNewAnswer, UnmovedAgrees DEF Flush
<1>7. CASE \E S \in SUBSET Keys : StartWalk(S)
  BY <1>7, LookNoNewAnswer, UnmovedAgrees DEF StartWalk
<1>8. CASE ContinueWalk
  <2>1. walk.todo \in SUBSET Keys /\ walk.need \in SUBSET Keys
    BY DEF Inv, Types, Asked
  <2> QED
    BY <1>8, <2>1, LookNoNewAnswer, UnmovedAgrees DEF ContinueWalk
<1>9. CASE \/ \E a \in Accounts : Login(a)
           \/ LoginAnnounced \/ Logout \/ \E a \in Askers : StatusChanges(a)
  BY <1>9, ResetAgrees DEF Login, LoginAnnounced, Logout, StatusChanges
<1>10. CASE (\E a \in Accounts : StatusFinds(a)) \/ UNCHANGED vars
  BY <1>10, UnmovedAgrees DEF StatusFinds, vars, NoNewAnswer
<1> QED
  BY <1>1, <1>2, <1>3, <1>4, <1>5, <1>6, <1>7, <1>8, <1>9, <1>10 DEF Next

\* A settled tile of the assets or image cache shows what the cache holds,
\* however the calls for its key overtook each other, and also while calls for
\* other keys are still in flight.
THEOREM TilesAlwaysAgree == Spec => []TilesAgree
<1>1. Spec => []Agrees
  BY InitAgrees, NextAgrees, AlwaysInv, PTL DEF Spec
<1>2. Agrees => TilesAgree
  BY DEF Agrees, Shows, TilesAgree
<1> QED
  BY <1>1, <1>2, PTL
=============================================================================
