--------------------------- MODULE SessionProofs ---------------------------
(***************************************************************************)
(* Proofs about Session, for any number of threads and sessions: every     *)
(* variable keeps its type, half a cookie pair is never kept, and memory   *)
(* and session.dat agree whenever nobody is between SetCookies and Save.   *)
(* A session VRChat honours, and both hold, is given up in the ways that   *)
(* LiveKept names and in no other.                                         *)
(***************************************************************************)
EXTENDS Session, SequenceTheorems, TLAPS

Whole(c) == c.two # NoCookie => c.auth # NoCookie

(* A call that is about to store cookies holds a whole pair: the one it     *)
(* read, the one VRChat sent it, or the one it merged.                      *)
WholePairs ==
  /\ Whole(mem)
  /\ file \in Pairs => Whole(file)
  /\ \A t \in Threads : Whole(job[t].cookies)
-----------------------------------------------------------------------------
(* Cookies and calls                                                       *)

LEMMA PairFields ==
  ASSUME NEW a \in Cookie, NEW b \in Cookie
  PROVE  /\ Pair(a, b) \in Pairs
         /\ Pair(a, b).auth = a
         /\ Pair(a, b).two = b
  BY DEF Pair, Pairs

LEMMA EmptyPair == Empty \in Pairs /\ Empty.auth = NoCookie /\ Whole(Empty)
  BY PairFields DEF Empty, Cookie, Whole

\* Unreadable is no pair of cookies.
LEMMA UnreadableApart == Unreadable \notin Pairs
  BY DEF Unreadable, Pairs

LEMMA IdleJob == Idle \in Jobs /\ Idle.cookies = Empty /\ Idle.at = "idle"
  BY EmptyPair DEF Idle, Jobs, Ops, Places, Gots, Cookie
-----------------------------------------------------------------------------
(* Types: one lemma per kind of step                                       *)

LEMMA StoredTypes ==
  ASSUME TypeOK, NEW t \in Threads, Stored(t)
  PROVE  job' \in [Threads -> Jobs]
<1>1. CASE job[t].op = "login"
  <2>1. job' = [job EXCEPT ![t].at = "reply"]
    BY <1>1 DEF Stored
  <2> QED
    BY <2>1 DEF TypeOK, Jobs, Places
<1>2. CASE job[t].op # "login"
  <2>1. job' = [job EXCEPT ![t].op = "confirm", ![t].at = "header"]
    BY <1>2 DEF Stored
  <2>2. [job[t] EXCEPT !.op = "confirm", !.at = "header"] \in Jobs
    BY DEF TypeOK, Jobs, Places, Ops
  <2> QED
    BY <2>1, <2>2 DEF TypeOK
<1> QED
  BY <1>1, <1>2

LEMMA CallTypes ==
  ASSUME TypeOK, NEW t \in Threads, NEW op \in Asked, Call(t, op)
  PROVE  TypeOK'
<1>1. job' \in [Threads -> Jobs]
  BY SessionAssumption, IdleJob DEF TypeOK, Call, At, Jobs, Ops, Places
<1> QED
  BY <1>1 DEF TypeOK, Call, counters

LEMMA ReadHeaderTypes ==
  ASSUME TypeOK, NEW t \in Threads, ReadHeader(t)
  PROVE  TypeOK'
<1>1. job' \in [Threads -> Jobs]
  BY DEF TypeOK, Jobs, Places, ReadHeader, Goto, Ends, Gots
<1> QED
  BY <1>1 DEF TypeOK, ReadHeader, counters

LEMMA LoadFileTypes ==
  ASSUME TypeOK, NEW t \in Threads, LoadFile(t)
  PROVE  TypeOK'
<1>1. mem' \in Pairs
  BY EmptyPair DEF TypeOK, LoadFile, Loaded
<1>2. job' \in [Threads -> Jobs]
  BY DEF TypeOK, Jobs, Places, LoadFile, Goto
<1> QED
  BY <1>1, <1>2 DEF TypeOK, LoadFile, counters

LEMMA RereadHeaderTypes ==
  ASSUME TypeOK, NEW t \in Threads, RereadHeader(t)
  PROVE  TypeOK'
<1>1. CASE mem.auth # NoCookie
  <2>1. job' = [job EXCEPT ![t].cookies = mem, ![t].at = "sent"]
    BY <1>1 DEF RereadHeader
  <2>2. [job[t] EXCEPT !.cookies = mem, !.at = "sent"] \in Jobs
    BY DEF TypeOK, Jobs, Places
  <2>3. job' \in [Threads -> Jobs]
    BY <2>1, <2>2 DEF TypeOK
  <2> QED
    BY <2>3 DEF TypeOK, RereadHeader, counters
<1>2. CASE mem.auth = NoCookie
  <2>1. job' = [job EXCEPT ![t].at = "answered", ![t].got = "expired"]
    BY <1>2 DEF RereadHeader
  <2>2. [job[t] EXCEPT !.at = "answered", !.got = "expired"] \in Jobs
    BY DEF TypeOK, Jobs, Places, Gots
  <2>3. job' \in [Threads -> Jobs]
    BY <2>1, <2>2 DEF TypeOK
  <2> QED
    BY <2>3 DEF TypeOK, RereadHeader, counters
<1> QED
  BY <1>1, <1>2

LEMMA ServeRequestTypes ==
  ASSUME TypeOK, NEW t \in Threads, ServeRequest(t)
  PROVE  TypeOK'
<1>1. Verdict(t, job[t].cookies.auth) \in Gots
  BY DEF Verdict, Gots
<1>2. [job[t] EXCEPT !.at = "answered",
                     !.got = Verdict(t, job[t].cookies.auth)] \in Jobs
  BY <1>1 DEF TypeOK, Jobs, Places
<1>3. job' \in [Threads -> Jobs]
  BY <1>2 DEF TypeOK, ServeRequest
<1> QED
  BY <1>3 DEF TypeOK, ServeRequest, counters

LEMMA ServeLoginTypes ==
  ASSUME TypeOK, NEW t \in Threads, ServeLogin(t)
  PROVE  TypeOK'
<1>1. PICK s \in Sessions, got \in {"ok", "challenge"} :
        /\ server' = [server EXCEPT ![s] = IF got = "ok" THEN "live" ELSE "pending"]
        /\ job' = [job EXCEPT ![t].at = "set", ![t].got = got,
                              ![t].cookies = Pair(s, NoCookie), ![t].new = s]
  BY DEF ServeLogin
<1>2. Pair(s, NoCookie) \in Pairs /\ s \in Cookie
  BY PairFields DEF Cookie
<1>3. [job[t] EXCEPT !.at = "set", !.got = got, !.cookies = Pair(s, NoCookie),
                     !.new = s] \in Jobs
  BY <1>2 DEF TypeOK, Jobs, Places, Gots
<1>4. job' \in [Threads -> Jobs]
  BY <1>1, <1>3 DEF TypeOK
<1>5. server' \in [Sessions -> {"none", "pending", "live", "dead"}]
  BY <1>1 DEF TypeOK
<1> QED
  BY <1>4, <1>5 DEF TypeOK, ServeLogin, counters

LEMMA ServeVerifyTypes ==
  ASSUME TypeOK, NEW t \in Threads, ServeVerify(t)
  PROVE  TypeOK'
<1>1. job[t].cookies.auth \in Cookie
  BY DEF TypeOK, Jobs, Pairs
<1> DEFINE j == [job[t] EXCEPT !.at = "merge", !.new = job[t].cookies.auth]
<1>typed. j \in Jobs
  BY <1>1 DEF TypeOK, Jobs, Places
<1>moved. job' = [job EXCEPT ![t] = j]
  BY DEF ServeVerify
<1> HIDE DEF j
<1>2. job' \in [Threads -> Jobs]
  BY <1>typed, <1>moved DEF TypeOK
<1>3. server' \in [Sessions -> {"none", "pending", "live", "dead"}]
  BY DEF TypeOK, ServeVerify
<1> QED
  BY <1>1, <1>2, <1>3 DEF TypeOK, ServeVerify, counters

LEMMA RefuseTypes ==
  ASSUME TypeOK, NEW t \in Threads, Refuse(t)
  PROVE  TypeOK'
<1> DEFINE j == [job[t] EXCEPT !.at = "reply", !.got = "failed"]
<1>typed. j \in Jobs
  BY DEF TypeOK, Jobs, Places, Gots
<1>moved. job' = [job EXCEPT ![t] = j]
  BY DEF Refuse, Ends
<1> HIDE DEF j
<1>1. job' \in [Threads -> Jobs]
  BY <1>typed, <1>moved DEF TypeOK
<1> QED
  BY <1>1 DEF TypeOK, Refuse, counters

LEMMA LoseRequestTypes ==
  ASSUME TypeOK, NEW t \in Threads, LoseRequest(t)
  PROVE  TypeOK'
<1> DEFINE j == [job[t] EXCEPT !.at = "answered", !.got = "failed"]
<1>typed. j \in Jobs
  BY DEF TypeOK, Jobs, Places, Gots
<1>moved. job' = [job EXCEPT ![t] = j]
  BY DEF LoseRequest
<1> HIDE DEF j
<1>1. job' \in [Threads -> Jobs]
  BY <1>typed, <1>moved DEF TypeOK
<1> QED
  BY <1>1, SessionAssumption DEF TypeOK, LoseRequest, counters, OneFault

LEMMA MergeCookiesTypes ==
  ASSUME TypeOK, NEW t \in Threads, MergeCookies(t)
  PROVE  TypeOK'
<1>1. Pair(mem.auth, job[t].new) \in Pairs
  BY PairFields DEF TypeOK, Jobs, Pairs
<1>2. job' \in [Threads -> Jobs]
  BY <1>1 DEF TypeOK, Jobs, Places, MergeCookies, Ends, Gots
<1> QED
  BY <1>1, <1>2 DEF TypeOK, MergeCookies, counters

LEMMA SetCookiesTypes ==
  ASSUME TypeOK, NEW t \in Threads, SetCookies(t)
  PROVE  TypeOK'
<1>1. mem' \in Pairs
  BY DEF TypeOK, SetCookies, Jobs
<1>2. job' \in [Threads -> Jobs]
  BY DEF TypeOK, Jobs, Places, SetCookies, Goto
<1> QED
  BY <1>1, <1>2 DEF TypeOK, SetCookies, counters

LEMMA SaveTypes ==
  ASSUME TypeOK, NEW t \in Threads, Save(t)
  PROVE  TypeOK'
<1>1. job' \in [Threads -> Jobs]
  BY StoredTypes DEF Save
<1> QED
  BY <1>1 DEF TypeOK, Save, counters

LEMMA SaveFailsTypes ==
  ASSUME TypeOK, NEW t \in Threads, SaveFails(t)
  PROVE  TypeOK'
<1>1. job' \in [Threads -> Jobs]
  BY StoredTypes DEF SaveFails
<1>2. file' \in Pairs \cup {Unreadable}
  BY DEF TypeOK, SaveFails
<1> QED
  BY <1>1, <1>2, SessionAssumption DEF TypeOK, SaveFails, counters, OneFault

LEMMA ClearTypes ==
  ASSUME TypeOK, NEW t \in Threads, Clear(t)
  PROVE  TypeOK'
<1>1. mem' \in Pairs /\ file' \in Pairs \cup {Unreadable}
  BY EmptyPair DEF TypeOK, Clear
<1>2. job' \in [Threads -> Jobs]
  BY DEF TypeOK, Jobs, Places, Clear, Goto
<1> QED
  BY <1>1, <1>2, SessionAssumption DEF TypeOK, Clear, counters, NoFault, OneFault

LEMMA KeepTypes ==
  ASSUME TypeOK, NEW t \in Threads, Keep(t)
  PROVE  TypeOK'
<1>1. job' \in [Threads -> Jobs]
  BY DEF TypeOK, Jobs, Places, Keep, Goto
<1> QED
  BY <1>1 DEF TypeOK, Keep, counters

LEMMA TimeoutTypes ==
  ASSUME TypeOK, NEW t \in Threads, Timeout(t)
  PROVE  TypeOK'
<1>1. job' \in [Threads -> Jobs]
  BY DEF TypeOK, Jobs, Timeout
<1> QED
  BY <1>1, SessionAssumption DEF TypeOK, Timeout, counters, OneFault

LEMMA JobShape ==
  ASSUME NEW j \in Jobs
  PROVE  /\ Unwanted(j) \in Jobs
         /\ Unwanted(j).at = j.at
         /\ Unwanted(j).cookies = j.cookies
  BY DEF Unwanted, Jobs

LEMMA MessageShape ==
  ASSUME NEW m \in Messages
  PROVE  Unwanted(m) \in Messages
  BY DEF Unwanted, Messages

LEMMA ReplyTypes ==
  ASSUME TypeOK, NEW t \in Threads, Reply(t)
  PROVE  TypeOK'
<1>1. job' \in [Threads -> Jobs]
  BY IdleJob DEF TypeOK, Reply
<1>2. inbox' \in Seq(Messages) /\ Len(inbox') <= MaxInbox
  <2>1. CASE Says(job[t]) = "nothing"
    BY <2>1 DEF TypeOK, Reply
  <2>2. CASE Says(job[t]) # "nothing"
    <3>1. Says(job[t]) \in {"in", "out"}
          /\ job[t].op \in {"status", "login", "confirm", "logout"}
      BY <2>2 DEF Says
    <3>2. [from |-> job[t].op, says |-> Says(job[t]), wanted |-> job[t].wanted]
            \in Messages
      BY <3>1 DEF Messages, TypeOK, Jobs
    <3>3. inbox' = Append(inbox, [from |-> job[t].op, says |-> Says(job[t]),
                                  wanted |-> job[t].wanted])
      BY <2>2 DEF Reply
    <3> QED
      BY <3>2, <3>3, SessionAssumption DEF TypeOK, Reply
  <2> QED
    BY <2>1, <2>2
<1> QED
  BY <1>1, <1>2 DEF TypeOK, Reply, counters

LEMMA CancelAllTypes ==
  ASSUME TypeOK, NEW q \in Seq(Messages), Len(q) <= MaxInbox, CancelAll(q)
  PROVE  /\ job' \in [Threads -> Jobs]
         /\ inbox' \in Seq(Messages) /\ Len(inbox') <= MaxInbox
<1>1. job' \in [Threads -> Jobs]
  BY JobShape DEF TypeOK, CancelAll
<1>2. Len(q) \in Nat /\ \A i \in 1..Len(q) : q[i] \in Messages
  BY ElementOfSeq
<1>3. inbox' \in [1..Len(q) -> Messages]
  BY <1>2, MessageShape DEF CancelAll
<1>4. inbox' \in Seq(Messages)
  BY <1>2, <1>3, SeqDef
<1>5. Len(inbox') = Len(q)
  BY <1>2, <1>3, <1>4, LenProperties
<1> QED
  BY <1>1, <1>2, <1>4, <1>5

LEMMA TailTypes ==
  ASSUME TypeOK, inbox # <<>>
  PROVE  Tail(inbox) \in Seq(Messages) /\ Len(Tail(inbox)) <= MaxInbox
  BY HeadTailProperties, LenProperties, SessionAssumption DEF TypeOK

LEMMA LogoutTimesOutTypes ==
  ASSUME TypeOK, NEW t \in Threads, LogoutTimesOut(t)
  PROVE  TypeOK'
<1>1. /\ job' \in [Threads -> Jobs]
      /\ inbox' \in Seq(Messages) /\ Len(inbox') <= MaxInbox
  BY CancelAllTypes DEF TypeOK, LogoutTimesOut
<1>2. faults' \in 0..MaxFaults /\ UNCHANGED <<expirations, restarts>>
  BY SessionAssumption DEF TypeOK, LogoutTimesOut, OneFault
<1>3. authed' \in BOOLEAN /\ UNCHANGED <<server, mem, file, unsaved>>
  BY DEF LogoutTimesOut
<1> QED
  BY <1>1, <1>2, <1>3 DEF TypeOK

LEMMA CommitTypes ==
  ASSUME TypeOK, Commit
  PROVE  TypeOK'
<1>1. job' \in [Threads -> Jobs] /\ inbox' \in Seq(Messages)
      /\ Len(inbox') <= MaxInbox
  <2>1. CASE CancelAll(Tail(inbox))
    BY <2>1, CancelAllTypes, TailTypes DEF Commit
  <2>2. CASE inbox' = Tail(inbox) /\ job' = job
    BY <2>2, TailTypes DEF Commit, TypeOK
  <2> QED
    BY <2>1, <2>2 DEF Commit
<1> QED
  BY <1>1 DEF TypeOK, Commit, counters

LEMMA DropTypes ==
  ASSUME TypeOK, Drop
  PROVE  TypeOK'
  BY TailTypes DEF TypeOK, Drop, counters

LEMMA ExpireTypes ==
  ASSUME TypeOK, NEW s \in Sessions, ExpireSession(s)
  PROVE  TypeOK'
  BY SessionAssumption DEF TypeOK, ExpireSession

LEMMA RestartTypes ==
  ASSUME TypeOK, Restart
  PROVE  TypeOK'
<1>1. file' \in Pairs \cup {Unreadable} /\ mem' \in Pairs
  BY EmptyPair DEF TypeOK, Restart
<1>2. job' \in [Threads -> Jobs]
  BY IdleJob DEF Restart
<1>3. inbox' \in Seq(Messages) /\ Len(inbox') <= MaxInbox
  BY EmptySeq, SessionAssumption DEF Restart
<1>4. restarts' \in 0..MaxRestarts
  BY SessionAssumption DEF TypeOK, Restart
<1> QED
  BY <1>1, <1>2, <1>3, <1>4 DEF TypeOK, Restart

LEMMA TypeInit == Init => TypeOK
<1> SUFFICES ASSUME Init PROVE TypeOK
  OBVIOUS
<1>1. mem \in Pairs /\ file \in Pairs \cup {Unreadable}
  BY EmptyPair DEF Init
<1>2. job \in [Threads -> Jobs]
  BY IdleJob DEF Init
<1>3. inbox \in Seq(Messages) /\ Len(inbox) <= MaxInbox
  BY EmptySeq, SessionAssumption DEF Init
<1>4. /\ faults \in 0..MaxFaults /\ expirations \in 0..MaxExpirations
      /\ restarts \in 0..MaxRestarts
  BY SessionAssumption DEF Init
<1>5. server \in [Sessions -> {"none", "pending", "live", "dead"}]
  BY DEF Init
<1>6. unsaved \in BOOLEAN /\ authed \in BOOLEAN
  BY DEF Init
<1> QED
  BY <1>1, <1>2, <1>3, <1>4, <1>5, <1>6 DEF TypeOK

LEMMA TypeStep == TypeOK /\ [Next]_vars => TypeOK'
<1> SUFFICES ASSUME TypeOK, [Next]_vars PROVE TypeOK'
  OBVIOUS
<1>1. CASE \E t \in Threads : \E op \in Asked : Call(t, op)
  BY <1>1, CallTypes
<1>2. CASE \E t \in Threads : Step(t)
  <2> PICK t \in Threads : Step(t)
    BY <1>2
  <2>1. CASE ReadHeader(t) \/ LoadFile(t) \/ RereadHeader(t)
    BY <2>1, ReadHeaderTypes, LoadFileTypes, RereadHeaderTypes
  <2>2. CASE ServeRequest(t) \/ ServeLogin(t) \/ ServeVerify(t) \/ Refuse(t)
    BY <2>2, ServeRequestTypes, ServeLoginTypes, ServeVerifyTypes, RefuseTypes
  <2>3. CASE MergeCookies(t) \/ SetCookies(t) \/ Save(t)
    BY <2>3, MergeCookiesTypes, SetCookiesTypes, SaveTypes
  <2>4. CASE Clear(t) \/ Keep(t) \/ Reply(t)
    BY <2>4, ClearTypes, KeepTypes, ReplyTypes
  <2> QED
    BY <2>1, <2>2, <2>3, <2>4 DEF Step
<1>3. CASE \/ \E t \in Threads : LoseRequest(t) \/ SaveFails(t)
           \/ \E t \in Threads : Timeout(t) \/ LogoutTimesOut(t)
  BY <1>3, LoseRequestTypes, SaveFailsTypes, TimeoutTypes, LogoutTimesOutTypes
<1>4. CASE \E s \in Sessions : ExpireSession(s)
  BY <1>4, ExpireTypes
<1>5. CASE Commit \/ Drop \/ Restart
  BY <1>5, CommitTypes, DropTypes, RestartTypes
<1>6. CASE UNCHANGED vars
  BY <1>6 DEF TypeOK, vars, counters
<1> QED
  BY <1>1, <1>2, <1>3, <1>4, <1>5, <1>6 DEF Next

(***************************************************************************)
(* Every variable keeps its type, whatever the calls of any number of      *)
(* threads do between the steps of another.                                *)
(***************************************************************************)
THEOREM SessionTypes == Spec => []TypeOK
  BY TypeInit, TypeStep, PTL DEF Spec
-----------------------------------------------------------------------------
(* The pairs stay whole and the stores agree                               *)

Settled == WholePairs /\ StoresAgree

OthersKept(t) == \A u \in Threads \ {t} : job'[u] = job[u]

\* A call that is not saving moves, with a whole pair, and touches no store.
LEMMA QuietMove ==
  ASSUME TypeOK, Settled, NEW t \in Threads, OthersKept(t),
         ~At(t, "save"), Whole(job'[t].cookies), UNCHANGED <<mem, file, unsaved>>
  PROVE  Settled'
<1>1. WholePairs'
  BY DEF Settled, WholePairs, OthersKept, Whole
<1>2. Saving => Saving'
  BY DEF Saving, At, OthersKept
<1> QED
  BY <1>1, <1>2 DEF Settled, StoresAgree

LEMMA CallQuiet ==
  ASSUME TypeOK, Settled, NEW t \in Threads, NEW op \in Asked, Call(t, op)
  PROVE  Settled'
<1>1. OthersKept(t) /\ ~At(t, "save")
  BY DEF Call, OthersKept, At, TypeOK
<1>2. job'[t].cookies = Empty
  BY IdleJob DEF Call, TypeOK, Idle
<1> QED
  BY <1>1, <1>2, EmptyPair, QuietMove DEF Call

LEMMA ReadHeaderQuiet ==
  ASSUME TypeOK, Settled, NEW t \in Threads, ReadHeader(t) \/ RereadHeader(t)
  PROVE  Settled'
<1>1. OthersKept(t) /\ ~At(t, "save")
  BY DEF ReadHeader, RereadHeader, OthersKept, At, TypeOK, Goto, Ends
<1>2. job'[t].cookies \in {job[t].cookies, mem}
  BY DEF ReadHeader, RereadHeader, TypeOK, Jobs, Goto, Ends
<1> QED
  BY <1>1, <1>2, QuietMove DEF ReadHeader, RereadHeader, Settled, WholePairs

LEMMA ServeQuiet ==
  ASSUME TypeOK, Settled, NEW t \in Threads,
         ServeRequest(t) \/ ServeVerify(t) \/ Refuse(t) \/ LoseRequest(t)
           \/ Keep(t)
  PROVE  Settled'
<1>1. OthersKept(t) /\ ~At(t, "save") /\ UNCHANGED <<mem, file, unsaved>>
  BY DEF ServeRequest, ServeVerify, Refuse, LoseRequest, Keep,
         OthersKept, At, TypeOK, Goto, Ends
<1>2. job'[t].cookies = job[t].cookies
  BY DEF ServeRequest, ServeVerify, Refuse, LoseRequest, Keep,
         TypeOK, Jobs, Goto, Ends
<1> QED
  BY <1>1, <1>2, QuietMove DEF Settled, WholePairs

LEMMA ServeLoginQuiet ==
  ASSUME TypeOK, Settled, NEW t \in Threads, ServeLogin(t)
  PROVE  Settled'
<1>1. PICK s \in Sessions, got \in {"ok", "challenge"} :
        job' = [job EXCEPT ![t].at = "set", ![t].got = got,
                           ![t].cookies = Pair(s, NoCookie), ![t].new = s]
  BY DEF ServeLogin
<1>2. OthersKept(t) /\ ~At(t, "save")
  BY <1>1 DEF ServeLogin, OthersKept, At, TypeOK
<1>3. job'[t].cookies = Pair(s, NoCookie)
  BY <1>1 DEF TypeOK, Jobs
<1>4. Whole(Pair(s, NoCookie))
  BY PairFields DEF Whole, Cookie
<1> QED
  BY <1>2, <1>3, <1>4, QuietMove DEF ServeLogin

LEMMA MergeQuiet ==
  ASSUME TypeOK, Settled, NEW t \in Threads, MergeCookies(t)
  PROVE  Settled'
<1>1. OthersKept(t) /\ ~At(t, "save")
  BY DEF MergeCookies, OthersKept, At, TypeOK, Ends
<1>2. Whole(job'[t].cookies)
  <2>1. CASE mem.auth = NoCookie
    <3>1. job'[t].cookies = job[t].cookies
      BY <2>1 DEF MergeCookies, Ends, TypeOK, Jobs
    <3> QED
      BY <3>1 DEF Settled, WholePairs
  <2>2. CASE mem.auth # NoCookie
    <3>1. job'[t].cookies = Pair(mem.auth, job[t].new)
      BY <2>2 DEF MergeCookies, TypeOK, Jobs
    <3> QED
      BY <2>2, <3>1, PairFields DEF Whole, TypeOK, Jobs, Pairs
  <2> QED
    BY <2>1, <2>2
<1> QED
  BY <1>1, <1>2, QuietMove DEF MergeCookies

LEMMA ReplyQuiet ==
  ASSUME TypeOK, Settled, NEW t \in Threads, Reply(t)
  PROVE  Settled'
<1>1. OthersKept(t) /\ ~At(t, "save") /\ UNCHANGED <<mem, file, unsaved>>
  BY DEF Reply, OthersKept, At, TypeOK
<1>2. job'[t].cookies = Empty
  BY IdleJob DEF Reply, TypeOK
<1> QED
  BY <1>1, <1>2, EmptyPair, QuietMove

\* The call's place and cookies stay: the timer and cancelAll.
LEMMA UnmovedQuiet ==
  ASSUME TypeOK, Settled, UNCHANGED <<mem, file, unsaved>>,
         \A t \in Threads : job'[t].at = job[t].at /\ job'[t].cookies = job[t].cookies
  PROVE  Settled'
  BY DEF Settled, WholePairs, StoresAgree, Saving, At, Whole

LEMMA TimeoutQuiet ==
  ASSUME TypeOK, Settled, NEW t \in Threads, Timeout(t) \/ LogoutTimesOut(t)
  PROVE  Settled'
<1>1. \A u \in Threads : job'[u].at = job[u].at /\ job'[u].cookies = job[u].cookies
  <2>1. CASE Timeout(t)
    BY <2>1, JobShape DEF Timeout, TypeOK
  <2>2. CASE LogoutTimesOut(t)
    BY <2>2, JobShape DEF LogoutTimesOut, CancelAll, TypeOK
  <2> QED
    BY <2>1, <2>2
<1> QED
  BY <1>1, UnmovedQuiet DEF Timeout, LogoutTimesOut

LEMMA PageQuiet ==
  ASSUME TypeOK, Settled, Commit \/ Drop
  PROVE  Settled'
<1>1. \A u \in Threads : job'[u].at = job[u].at /\ job'[u].cookies = job[u].cookies
  BY JobShape DEF Commit, Drop, CancelAll, TypeOK
<1> QED
  BY <1>1, UnmovedQuiet DEF Commit, Drop

\* Load leaves what the file holds, or nothing.
LEMMA LoadFileSettles ==
  ASSUME TypeOK, Settled, NEW t \in Threads, LoadFile(t)
  PROVE  Settled'
<1>1. OthersKept(t) /\ job'[t].cookies = job[t].cookies
  BY DEF LoadFile, Goto, OthersKept, TypeOK, Jobs
<1>2. mem' = Loaded /\ UNCHANGED <<file, unsaved>>
  BY DEF LoadFile
<1>3. Whole(mem') /\ (mem'.auth = NoCookie \/ mem' = file)
  BY <1>2, EmptyPair DEF Loaded, Settled, WholePairs
<1> QED
  BY <1>1, <1>2, <1>3 DEF Settled, WholePairs, StoresAgree, OthersKept, Whole

\* SetCookies opens the window that Saving describes.
LEMMA SetCookiesSettles ==
  ASSUME TypeOK, Settled, NEW t \in Threads, SetCookies(t)
  PROVE  Settled'
<1>1. OthersKept(t) /\ job'[t].cookies = job[t].cookies /\ job'[t].at = "save"
  BY DEF SetCookies, Goto, OthersKept, TypeOK, Jobs
<1>2. mem' = job[t].cookies /\ UNCHANGED <<file, unsaved>>
  BY DEF SetCookies
<1>3. Saving'
  BY <1>1 DEF Saving, At
<1> QED
  BY <1>1, <1>2, <1>3 DEF Settled, WholePairs, StoresAgree, OthersKept, Whole

\* Save closes it: whatever memory holds by then is in the file.
LEMMA SaveSettles ==
  ASSUME TypeOK, Settled, NEW t \in Threads, Save(t) \/ SaveFails(t)
  PROVE  Settled'
<1>1. OthersKept(t) /\ job'[t].cookies = job[t].cookies
  BY DEF Save, SaveFails, Stored, OthersKept, TypeOK, Jobs
<1>2. mem' = mem /\ (file' = mem \/ (unsaved' /\ file' \in {file, Unreadable}))
  BY DEF Save, SaveFails
<1>3. WholePairs'
  BY <1>1, <1>2, UnreadableApart DEF Settled, WholePairs, OthersKept, Whole
<1> QED
  BY <1>2, <1>3 DEF Settled, StoresAgree

LEMMA ClearSettles ==
  ASSUME TypeOK, Settled, NEW t \in Threads, Clear(t)
  PROVE  Settled'
<1>1. OthersKept(t) /\ job'[t].cookies = job[t].cookies
  BY DEF Clear, Goto, OthersKept, TypeOK, Jobs
<1>2. mem' = Empty /\ file' \in {file, Unreadable}
  BY DEF Clear
<1> QED
  BY <1>1, <1>2, EmptyPair, UnreadableApart
     DEF Settled, WholePairs, StoresAgree, OthersKept, Whole

LEMMA RestartSettles ==
  ASSUME TypeOK, Settled, Restart
  PROVE  Settled'
<1>1. mem' = IF file' \in Pairs THEN file' ELSE Empty
  BY DEF Restart
<1>2. file' \in Pairs => Whole(file')
  BY UnreadableApart DEF Restart, Settled, WholePairs
<1>3. \A t \in Threads : Whole(job'[t].cookies)
  BY IdleJob, EmptyPair DEF Restart
<1> QED
  BY <1>1, <1>2, <1>3, EmptyPair DEF Settled, WholePairs, StoresAgree, Whole

LEMMA SettledInit == Init => Settled
  BY EmptyPair, IdleJob, UnreadableApart DEF Init, Settled, WholePairs, StoresAgree

LEMMA SettledStep == TypeOK /\ Settled /\ [Next]_vars => Settled'
<1> SUFFICES ASSUME TypeOK, Settled, [Next]_vars PROVE Settled'
  OBVIOUS
<1>1. CASE \E t \in Threads : \E op \in Asked : Call(t, op)
  BY <1>1, CallQuiet
<1>2. CASE \E t \in Threads : Step(t)
  <2> PICK t \in Threads : Step(t)
    BY <1>2
  <2>1. CASE ReadHeader(t) \/ LoadFile(t) \/ RereadHeader(t)
    BY <2>1, ReadHeaderQuiet, LoadFileSettles
  <2>2. CASE ServeRequest(t) \/ ServeLogin(t) \/ ServeVerify(t) \/ Refuse(t)
    BY <2>2, ServeQuiet, ServeLoginQuiet
  <2>3. CASE MergeCookies(t) \/ SetCookies(t) \/ Save(t)
    BY <2>3, MergeQuiet, SetCookiesSettles, SaveSettles
  <2>4. CASE Clear(t) \/ Keep(t) \/ Reply(t)
    BY <2>4, ClearSettles, ServeQuiet, ReplyQuiet
  <2> QED
    BY <2>1, <2>2, <2>3, <2>4 DEF Step
<1>3. CASE \/ \E t \in Threads : LoseRequest(t) \/ SaveFails(t)
           \/ \E t \in Threads : Timeout(t) \/ LogoutTimesOut(t)
  BY <1>3, ServeQuiet, SaveSettles, TimeoutQuiet
<1>4. CASE \E s \in Sessions : ExpireSession(s)
  BY <1>4, UnmovedQuiet DEF ExpireSession
<1>5. CASE Commit \/ Drop \/ Restart
  BY <1>5, PageQuiet, RestartSettles
<1>6. CASE UNCHANGED vars
  BY <1>6, UnmovedQuiet DEF vars
<1> QED
  BY <1>1, <1>2, <1>3, <1>4, <1>5, <1>6 DEF Next

LEMMA SessionInvariant == Spec => [](TypeOK /\ Settled)
  BY TypeInit, TypeStep, SettledInit, SettledStep, PTL DEF Spec

(***************************************************************************)
(* Whatever the threads do between each other's steps, memory holds what   *)
(* session.dat holds, or is empty, or some call is still between           *)
(* SetCookies and Save, or the last write failed.                          *)
(***************************************************************************)
THEOREM StoresAlwaysAgree == Spec => []StoresAgree
  BY SessionInvariant, PTL DEF Settled

(***************************************************************************)
(* A second-factor cookie is never kept without a session, although        *)
(* verifyTwoFactor reads the session cookie in two separate steps around   *)
(* its request.                                                            *)
(***************************************************************************)
THEOREM PairsStayWhole == Spec => []TwoFactorNeedsAuth
<1>1. Settled => TwoFactorNeedsAuth
  BY DEF Settled, WholePairs, Whole, TwoFactorNeedsAuth
<1> QED
  BY <1>1, SessionInvariant, PTL
-----------------------------------------------------------------------------
(* A live session is never given up by mistake                             *)

(* A 401 of /auth/user says that the session it was sent with is over, and  *)
(* a session that is over stays so: a call that was told "expired" was told *)
(* so of no session, or of one that is dead whatever was stored since.      *)
Known(c) == c.auth # NoCookie => server[c.auth] # "none"

Opened == /\ Known(mem)
          /\ file \in Pairs => Known(file)
          /\ \A t \in Threads : Known(job[t].cookies)

ToldTruly(t) ==
  job[t].op = "status" =>
    /\ job[t].at \in {"header", "load", "reread"} => job[t].cookies.auth = NoCookie
    /\ At(t, "answered") /\ job[t].got = "expired" =>
         job[t].cookies.auth = NoCookie \/ server[job[t].cookies.auth] = "dead"

Truthful == Opened /\ \A t \in Threads : ToldTruly(t)

\* A session is opened once and dies once.
ServerGrows == \A s \in Sessions : /\ server[s] # "none" => server'[s] # "none"
                                   /\ server[s] = "dead" => server'[s] = "dead"

LEMMA ServerStep ==
  ASSUME TypeOK, [Next]_vars
  PROVE  ServerGrows
<1>1. CASE server' = server
  BY <1>1 DEF ServerGrows
<1>2. CASE \E s \in Sessions : ExpireSession(s)
  BY <1>2 DEF ExpireSession, ServerGrows, TypeOK
<1>3. CASE \E t \in Threads : ServeLogin(t)
  BY <1>3 DEF ServeLogin, ServerGrows, TypeOK
<1>4. CASE \E t \in Threads : ServeVerify(t)
  BY <1>4 DEF ServeVerify, ServerGrows, TypeOK
<1> QED
  BY <1>1, <1>2, <1>3, <1>4
  DEF Next, Step, Call, ReadHeader, LoadFile, RereadHeader, ServeRequest, Refuse,
      MergeCookies, SetCookies, Save, Clear, Keep, Reply, LoseRequest, SaveFails,
      Timeout, LogoutTimesOut, Commit, Drop, Restart, vars

LEMMA KnownStays ==
  ASSUME ServerGrows, NEW c \in Pairs, Known(c)
  PROVE  c.auth # NoCookie => server'[c.auth] # "none"
  BY DEF Known, ServerGrows, Pairs, Cookie

\* What a thread knew it still knows, when others move.
LEMMA TruthStays ==
  ASSUME TypeOK, ServerGrows, NEW t \in Threads, ToldTruly(t),
         job'[t].op = job[t].op, job'[t].at = job[t].at,
         job'[t].got = job[t].got, job'[t].cookies = job[t].cookies
  PROVE  ToldTruly(t)'
<1>1. job[t].cookies.auth \in Sessions \cup {NoCookie}
  BY DEF TypeOK, Jobs, Pairs, Cookie
<1> QED
  BY <1>1 DEF ToldTruly, At, ServerGrows

\* One call moves: the others, and what they know, are as before.
LEMMA OneMoves ==
  ASSUME TypeOK, Truthful, ServerGrows, NEW t \in Threads, OthersKept(t),
         ToldTruly(t)', Known(job[t].cookies)', Known(mem)',
         (file \in Pairs => Known(file))'
  PROVE  Truthful'
<1>1. ASSUME NEW u \in Threads, u # t PROVE ToldTruly(u)' /\ Known(job[u].cookies)'
  <2>1. job'[u] = job[u] /\ ToldTruly(u) /\ Known(job[u].cookies)
    BY <1>1 DEF OthersKept, Truthful, Opened
  <2>2. job[u].cookies \in Pairs
    BY DEF TypeOK, Jobs
  <2>3. Known(job[u].cookies)'
    BY <2>1, <2>2, KnownStays DEF Known
  <2> QED
    BY <2>1, <2>3, TruthStays
<1>2. \A u \in Threads : ToldTruly(u)' /\ Known(job[u].cookies)'
  BY <1>1
<1> QED
  BY <1>2 DEF Truthful, Opened

\* The stores are as before.
LEMMA StoresStayKnown ==
  ASSUME TypeOK, Truthful, ServerGrows, mem' \in {mem, Empty}, file' \in {file, mem, Unreadable}
  PROVE  Known(mem)' /\ (file \in Pairs => Known(file))'
<1>1. mem \in Pairs /\ Known(mem) /\ (file \in Pairs => Known(file))
  BY DEF TypeOK, Truthful, Opened
<1>2. (mem.auth # NoCookie => server'[mem.auth] # "none")
  BY <1>1, KnownStays
<1>3. file \in Pairs /\ file.auth # NoCookie => server'[file.auth] # "none"
  BY <1>1, KnownStays
<1>4. Known(mem)'
  BY <1>2, EmptyPair DEF Known
<1>5. (file \in Pairs => Known(file))'
  BY <1>2, <1>3, UnreadableApart DEF Known
<1> QED
  BY <1>4, <1>5

LEMMA CookiesStayKnown ==
  ASSUME TypeOK, Truthful, ServerGrows, NEW t \in Threads,
         job'[t].cookies \in {job[t].cookies, mem, Empty}
  PROVE  Known(job[t].cookies)'
<1>1. mem \in Pairs /\ Known(mem) /\ job[t].cookies \in Pairs /\ Known(job[t].cookies)
  BY DEF TypeOK, Jobs, Truthful, Opened
<1>2. /\ mem.auth # NoCookie => server'[mem.auth] # "none"
      /\ job[t].cookies.auth # NoCookie => server'[job[t].cookies.auth] # "none"
  BY <1>1, KnownStays
<1> QED
  BY <1>2, EmptyPair DEF Known

LEMMA TruthCall ==
  ASSUME TypeOK, Truthful, ServerGrows, NEW t \in Threads, NEW op \in Asked, Call(t, op)
  PROVE  Truthful'
<1> DEFINE place == CASE op = "login"  -> "sent"
                      [] op = "logout" -> "answered"
                      [] OTHER         -> "header"
           j == [Idle EXCEPT !.op = op, !.wanted = TRUE, !.at = place]
<1>1. job'[t] = j /\ OthersKept(t) /\ UNCHANGED <<mem, file>>
  BY DEF Call, TypeOK, OthersKept
<1>2. j.got = "none" /\ j.cookies = Empty
  BY DEF Idle
<1> HIDE DEF j
<1>3. ToldTruly(t)'
  BY <1>1, <1>2, EmptyPair DEF ToldTruly, At
<1>4. Known(job[t].cookies)'
  BY <1>1, <1>2, CookiesStayKnown
<1>5. Known(mem)' /\ (file \in Pairs => Known(file))'
  BY <1>1, StoresStayKnown
<1> QED
  BY <1>1, <1>3, <1>4, <1>5, OneMoves

\* The header: memory, session.dat if it is empty, memory again.
LEMMA TruthHeader ==
  ASSUME TypeOK, Truthful, ServerGrows, NEW t \in Threads,
         ReadHeader(t) \/ LoadFile(t) \/ RereadHeader(t)
  PROVE  Truthful'
<1>1. /\ OthersKept(t) /\ file' = file
      /\ job'[t].op = job[t].op /\ job'[t].cookies \in {job[t].cookies, mem}
      /\ job'[t].at # "answered" => job'[t].at \in {"sent", "reply"}
                                     \/ job'[t].cookies = job[t].cookies
      /\ job'[t].at = "answered" => job'[t].cookies = job[t].cookies
      /\ job[t].at \in {"header", "load", "reread"}
  BY DEF ReadHeader, LoadFile, RereadHeader, Goto, Ends, At, TypeOK, Jobs, OthersKept
<1>2. ToldTruly(t)'
  <2>1. ToldTruly(t)
    BY DEF Truthful
  <2> QED
    BY <1>1, <2>1 DEF ToldTruly, At
<1>3. Known(job[t].cookies)'
  BY <1>1, CookiesStayKnown
<1>4. Known(mem)' /\ (file \in Pairs => Known(file))'
  <2>1. CASE mem' = mem
    BY <1>1, <2>1, StoresStayKnown
  <2>2. CASE LoadFile(t)
    <3>1. (file \in Pairs => Known(file))'
      <4>1. file \in Pairs => Known(file)
        BY DEF Truthful, Opened
      <4> QED
        BY <1>1, <4>1, KnownStays DEF Known
    <3>2. mem' = IF file' \in Pairs THEN file' ELSE Empty
      BY <1>1, <2>2 DEF LoadFile, Loaded
    <3> QED
      BY <3>1, <3>2, EmptyPair DEF Known
  <2> QED
    BY <2>1, <2>2 DEF ReadHeader, RereadHeader
<1> QED
  BY <1>1, <1>2, <1>3, <1>4, OneMoves

\* VRChat's verdict on a status is about the session it was sent with.
LEMMA TruthServed ==
  ASSUME TypeOK, Truthful, ServerGrows, NEW t \in Threads, ServeRequest(t)
  PROVE  Truthful'
<1> DEFINE s == job[t].cookies.auth
           v == Verdict(t, s)
<1>1. /\ OthersKept(t) /\ UNCHANGED <<mem, file, server>>
      /\ job'[t].op = job[t].op /\ job'[t].cookies = job[t].cookies
      /\ job'[t].at = "answered" /\ job'[t].got = v
  BY DEF ServeRequest, TypeOK, Jobs, OthersKept
<1>2. s = NoCookie \/ server[s] # "none"
  BY DEF Truthful, Opened, Known
<1>3. s \in Sessions \cup {NoCookie}
  BY DEF TypeOK, Jobs, Pairs, Cookie
<1>4. job[t].op = "status" /\ v = "expired" => s = NoCookie \/ server[s] = "dead"
  BY <1>2, <1>3 DEF Verdict, TypeOK
<1> HIDE DEF v
<1>5. ToldTruly(t)'
  BY <1>1, <1>4 DEF ToldTruly, At
<1>6. Known(job[t].cookies)'
  BY <1>1, CookiesStayKnown
<1>7. Known(mem)' /\ (file \in Pairs => Known(file))'
  BY <1>1, StoresStayKnown
<1> QED
  BY <1>1, <1>5, <1>6, <1>7, OneMoves

LEMMA TruthLogin ==
  ASSUME TypeOK, Truthful, ServerGrows, NEW t \in Threads, ServeLogin(t)
  PROVE  Truthful'
<1>1. PICK s \in Sessions, got \in {"ok", "challenge"} :
        /\ server' = [server EXCEPT ![s] = IF got = "ok" THEN "live" ELSE "pending"]
        /\ job' = [job EXCEPT ![t].at = "set", ![t].got = got,
                              ![t].cookies = Pair(s, NoCookie), ![t].new = s]
  BY DEF ServeLogin
<1>2. /\ OthersKept(t) /\ UNCHANGED <<mem, file>> /\ job'[t].at = "set"
      /\ job'[t].cookies = Pair(s, NoCookie)
  BY <1>1 DEF ServeLogin, TypeOK, Jobs, OthersKept
<1>3. ToldTruly(t)'
  BY <1>2 DEF ToldTruly, At
<1>4. Known(job[t].cookies)'
  <2>1. Pair(s, NoCookie).auth = s
    BY PairFields DEF Cookie
  <2>2. server'[s] # "none"
    BY <1>1 DEF TypeOK
  <2> QED
    BY <1>2, <2>1, <2>2 DEF Known
<1>5. Known(mem)' /\ (file \in Pairs => Known(file))'
  BY <1>2, StoresStayKnown
<1> QED
  BY <1>2, <1>3, <1>4, <1>5, OneMoves

LEMMA TruthMerge ==
  ASSUME TypeOK, Truthful, ServerGrows, NEW t \in Threads, MergeCookies(t)
  PROVE  Truthful'
<1>1. /\ OthersKept(t) /\ UNCHANGED <<mem, file>> /\ job'[t].at \in {"set", "reply"}
      /\ \/ job'[t].cookies = job[t].cookies
         \/ job'[t].cookies = Pair(mem.auth, job[t].new)
  BY DEF MergeCookies, Ends, TypeOK, Jobs, OthersKept
<1>2. ToldTruly(t)'
  BY <1>1 DEF ToldTruly, At
<1>3. Known(job[t].cookies)'
  <2>1. CASE job'[t].cookies = job[t].cookies
    BY <2>1, CookiesStayKnown
  <2>2. CASE job'[t].cookies = Pair(mem.auth, job[t].new)
    <3>1. Pair(mem.auth, job[t].new).auth = mem.auth
      BY PairFields DEF TypeOK, Jobs, Pairs
    <3>2. mem \in Pairs /\ Known(mem)
      BY DEF TypeOK, Truthful, Opened
    <3> QED
      BY <2>2, <3>1, <3>2, KnownStays DEF Known
  <2> QED
    BY <1>1, <2>1, <2>2
<1>4. Known(mem)' /\ (file \in Pairs => Known(file))'
  BY <1>1, StoresStayKnown
<1> QED
  BY <1>1, <1>2, <1>3, <1>4, OneMoves

LEMMA TruthSet ==
  ASSUME TypeOK, Truthful, ServerGrows, NEW t \in Threads, SetCookies(t)
  PROVE  Truthful'
<1>1. /\ OthersKept(t) /\ file' = file /\ mem' = job[t].cookies
      /\ job'[t].at = "save" /\ job'[t].cookies = job[t].cookies
  BY DEF SetCookies, Goto, TypeOK, Jobs, OthersKept
<1>2. ToldTruly(t)'
  BY <1>1 DEF ToldTruly, At
<1>3. Known(job[t].cookies)'
  BY <1>1, CookiesStayKnown
<1>4. Known(mem)'
  BY <1>1, <1>3 DEF Known
<1>5. (file \in Pairs => Known(file))'
  <2>1. file \in Pairs => Known(file)
    BY DEF Truthful, Opened
  <2> QED
    BY <1>1, <2>1, KnownStays DEF Known
<1> QED
  BY <1>1, <1>2, <1>3, <1>4, <1>5, OneMoves

\* A step after which a call has nothing to say about a status.
LEMMA TruthQuiet ==
  ASSUME TypeOK, Truthful, ServerGrows, NEW t \in Threads,
         \/ ServeVerify(t) \/ Refuse(t) \/ Clear(t) \/ Keep(t)
         \/ Reply(t) \/ LoseRequest(t) \/ Save(t) \/ SaveFails(t)
  PROVE  Truthful'
<1>1. OthersKept(t) /\ job'[t].cookies \in {job[t].cookies, Empty}
  <2>1. CASE Reply(t)
    BY <2>1, IdleJob DEF Reply, TypeOK, OthersKept
  <2>2. CASE Save(t) \/ SaveFails(t)
    BY <2>2 DEF Save, SaveFails, Stored, TypeOK, Jobs, OthersKept
  <2>3. CASE ServeVerify(t) \/ Refuse(t) \/ Clear(t) \/ Keep(t) \/ LoseRequest(t)
    BY <2>3
    DEF ServeVerify, Refuse, Clear, Keep, LoseRequest, Goto, Ends, TypeOK, Jobs, OthersKept
  <2> QED
    BY <2>1, <2>2, <2>3
<1>2. mem' \in {mem, Empty} /\ file' \in {file, mem, Unreadable}
  BY DEF ServeVerify, Refuse, Clear, Keep, Reply, LoseRequest, Save, SaveFails
<1>3. \/ job'[t].at \in {"merge", "reply", "idle"}
      \/ job'[t].at = "answered" /\ job'[t].got = "failed"
      \/ job'[t].op = "confirm"
  <2>1. CASE Reply(t)
    BY <2>1, IdleJob DEF Reply, TypeOK
  <2>2. CASE Save(t) \/ SaveFails(t)
    BY <2>2 DEF Save, SaveFails, Stored, TypeOK, Jobs
  <2>3. CASE ServeVerify(t) \/ Refuse(t) \/ Clear(t) \/ Keep(t) \/ LoseRequest(t)
    BY <2>3 DEF ServeVerify, Refuse, Clear, Keep, LoseRequest, Goto, Ends, TypeOK, Jobs
  <2> QED
    BY <2>1, <2>2, <2>3
<1>4. ToldTruly(t)'
  BY <1>3 DEF ToldTruly, At
<1>5. Known(job[t].cookies)'
  BY <1>1, CookiesStayKnown
<1>6. Known(mem)' /\ (file \in Pairs => Known(file))'
  BY <1>2, StoresStayKnown
<1> QED
  BY <1>1, <1>4, <1>5, <1>6, OneMoves

\* The page's steps, the timer and an expiry leave the calls where they are.
LEMMA TruthUnmoved ==
  ASSUME TypeOK, Truthful, ServerGrows, UNCHANGED <<mem, file>>,
         \A u \in Threads :
           /\ job'[u].at = job[u].at /\ job'[u].cookies = job[u].cookies
           /\ job'[u].op = job[u].op /\ job'[u].got = job[u].got
  PROVE  Truthful'
<1>1. \A u \in Threads : ToldTruly(u)'
  BY TruthStays DEF Truthful
<1>2. \A u \in Threads : Known(job[u].cookies)'
  BY CookiesStayKnown
<1>3. Known(mem)' /\ (file \in Pairs => Known(file))'
  BY StoresStayKnown
<1> QED
  BY <1>1, <1>2, <1>3 DEF Truthful, Opened

LEMMA UnwantedKeeps ==
  ASSUME NEW j \in Jobs
  PROVE  Unwanted(j).op = j.op /\ Unwanted(j).got = j.got
  BY DEF Unwanted, Jobs

LEMMA TruthRestart ==
  ASSUME TypeOK, Truthful, ServerGrows, Restart
  PROVE  Truthful'
<1>1. /\ file' \in {file, Unreadable} /\ mem' = IF file' \in Pairs THEN file' ELSE Empty
      /\ \A u \in Threads : job'[u] = Idle
  BY DEF Restart
<1>2. (file \in Pairs => Known(file))'
  <2>1. file \in Pairs => Known(file)
    BY DEF Truthful, Opened
  <2> QED
    BY <1>1, <2>1, KnownStays, UnreadableApart DEF Known
<1>3. Known(mem)'
  BY <1>1, <1>2, EmptyPair DEF Known
<1>4. \A u \in Threads : Known(job[u].cookies)' /\ ToldTruly(u)'
  BY <1>1, IdleJob, EmptyPair DEF Known, ToldTruly, At
<1> QED
  BY <1>2, <1>3, <1>4 DEF Truthful, Opened

LEMMA TruthInit == Init => Truthful
  BY IdleJob, EmptyPair, UnreadableApart DEF Init, Truthful, Opened, Known, ToldTruly, At

LEMMA TruthStep ==
  ASSUME TypeOK, Truthful, [Next]_vars
  PROVE  Truthful'
<1>0. ServerGrows
  BY ServerStep
<1>1. CASE \E t \in Threads : \E op \in Asked : Call(t, op)
  BY <1>0, <1>1, TruthCall
<1>2. CASE \E t \in Threads : Step(t)
  BY <1>0, <1>2, TruthHeader, TruthServed, TruthLogin, TruthMerge, TruthSet, TruthQuiet
  DEF Step
<1>3. CASE \E t \in Threads : LoseRequest(t) \/ SaveFails(t)
  BY <1>0, <1>3, TruthQuiet
<1>4. CASE \/ \E t \in Threads : Timeout(t) \/ LogoutTimesOut(t)
           \/ Commit \/ Drop
  <2>1. \A u \in Threads :
          /\ job'[u].at = job[u].at /\ job'[u].cookies = job[u].cookies
          /\ job'[u].op = job[u].op /\ job'[u].got = job[u].got
    <3>1. CASE \E t \in Threads : Timeout(t)
      BY <3>1 DEF Timeout, TypeOK, Jobs
    <3>2. CASE \A u \in Threads : job'[u] = Unwanted(job[u])
      BY <3>2, JobShape, UnwantedKeeps DEF TypeOK
    <3>3. CASE job' = job
      BY <3>3
    <3> QED
      BY <1>4, <3>1, <3>2, <3>3 DEF LogoutTimesOut, Commit, Drop, CancelAll
  <2>2. UNCHANGED <<mem, file>>
    BY <1>4 DEF Timeout, LogoutTimesOut, Commit, Drop
  <2> QED
    BY <1>0, <2>1, <2>2, TruthUnmoved
<1>5. CASE (\E s \in Sessions : ExpireSession(s)) \/ UNCHANGED vars
  BY <1>0, <1>5, TruthUnmoved DEF ExpireSession, vars
<1>6. CASE Restart
  BY <1>0, <1>6, TruthRestart
<1> QED
  BY <1>1, <1>2, <1>3, <1>4, <1>5, <1>6 DEF Next

\* When both stores hold a live session, loading and saving change nothing.
LEMMA LoadsAndSavesKeep ==
  ASSUME TypeOK, Live, mem = file, NEW t \in Threads, LoadFile(t) \/ Save(t) \/ SaveFails(t)
  PROVE  Held' = Held
<1>1. mem \in Pairs /\ Loaded = mem /\ mem.auth # NoCookie /\ Held = mem.auth
  BY DEF TypeOK, Loaded, Live, Held
<1>2. mem' = mem
  BY <1>1 DEF LoadFile, Save, SaveFails
<1> QED
  BY <1>1, <1>2 DEF Held

LEMMA ClearIsOvertaken ==
  ASSUME TypeOK, Truthful, Live, NEW t \in Threads, Clear(t)
  PROVE  job'[t].at # job[t].at /\ (GivesUp(t) \/ Overtaken(t))
<1>1. At(t, "answered") /\ job'[t].at = "reply"
  BY DEF Clear, Goto, TypeOK, Jobs
<1>2. CASE job[t].op = "logout"
  BY <1>1, <1>2 DEF GivesUp, At
<1>3. CASE job[t].op = "list" /\ job[t].got = "expired"
  BY <1>1, <1>3 DEF Overtaken, At
<1>4. CASE job[t].op = "status" /\ job[t].got = "expired"
  <2>1. job[t].cookies.auth = NoCookie \/ server[job[t].cookies.auth] = "dead"
    BY <1>1, <1>4 DEF Truthful, ToldTruly
  <2>2. Held # NoCookie /\ server[Held] = "live"
    BY DEF Live
  <2>3. job[t].cookies.auth # Held
    BY <2>1, <2>2
  <2> QED
    BY <1>1, <1>4, <2>3 DEF Overtaken, At
<1> QED
  BY <1>2, <1>3, <1>4 DEF Clear

LEMMA KeptStep ==
  ASSUME TypeOK, Truthful, [Next]_vars, Live, mem = file, Held' # Held
  PROVE  \/ \E t \in Threads : job'[t].at # job[t].at /\ (GivesUp(t) \/ Overtaken(t))
         \/ restarts' # restarts /\ Saving
<1>1. ~UNCHANGED <<mem, file>>
  BY DEF Held, Loaded
<1>2. CASE \E t \in Threads : LoadFile(t) \/ Save(t) \/ SaveFails(t)
  BY <1>2, LoadsAndSavesKeep
<1>3. CASE \E t \in Threads : SetCookies(t)
  BY <1>3 DEF SetCookies, Goto, GivesUp, At, TypeOK, Jobs
<1>4. CASE \E t \in Threads : Clear(t)
  BY <1>4, ClearIsOvertaken
<1>5. CASE Restart
  <2>1. restarts \in Nat /\ restarts' = restarts + 1
    BY <1>5, SessionAssumption DEF Restart, TypeOK
  <2>2. CASE ~Saving
    <3>1. file' = file /\ mem \in Pairs /\ mem' = mem
      BY <1>5, <2>2 DEF Restart, Saving, TypeOK
    <3> QED
      BY <1>1, <3>1
  <2> QED
    BY <2>1, <2>2
<1>6. CASE \E t \in Threads : \E op \in Asked : Call(t, op)
  BY <1>1, <1>6 DEF Call
<1>7. CASE \E t \in Threads :
             ReadHeader(t) \/ RereadHeader(t) \/ ServeRequest(t) \/ ServeLogin(t)
  BY <1>1, <1>7 DEF ReadHeader, RereadHeader, ServeRequest, ServeLogin
<1>8. CASE \E t \in Threads :
             ServeVerify(t) \/ Refuse(t) \/ MergeCookies(t) \/ Keep(t) \/ Reply(t)
  BY <1>1, <1>8 DEF ServeVerify, Refuse, MergeCookies, Keep, Reply
<1>9. CASE \E t \in Threads : LoseRequest(t) \/ Timeout(t) \/ LogoutTimesOut(t)
  BY <1>1, <1>9 DEF LoseRequest, Timeout, LogoutTimesOut
<1>10. CASE Commit \/ Drop \/ \E s \in Sessions : ExpireSession(s)
  BY <1>1, <1>10 DEF Commit, Drop, ExpireSession
<1>11. CASE UNCHANGED vars
  BY <1>1, <1>11 DEF vars
<1> QED
  BY <1>2, <1>3, <1>4, <1>5, <1>6, <1>7, <1>8, <1>9, <1>10, <1>11 DEF Next, Step

(***************************************************************************)
(* However many threads call, and however their calls interleave, a        *)
(* session that VRChat honours and both stores hold is given up only by a  *)
(* logout, by a login or second factor that replaces it, by an exit in the *)
(* middle of a write, or by a thread that was told auth_expired of another *)
(* session, or of none, or by a list before the second factor.             *)
(***************************************************************************)
THEOREM LiveSessionsAreKept == Spec => LiveKept
<1>1. TypeOK /\ Truthful /\ [Next]_vars => Truthful'
  BY TruthStep
<1>2. TypeOK /\ Truthful /\ [Next]_vars =>
        [Live /\ mem = file /\ Held' # Held =>
           \/ \E t \in Threads : job'[t].at # job[t].at /\ (GivesUp(t) \/ Overtaken(t))
           \/ restarts' # restarts /\ Saving]_vars
  BY KeptStep
<1> QED
  BY <1>1, <1>2, TruthInit, SessionInvariant, PTL DEF Spec, LiveKept
=============================================================================
