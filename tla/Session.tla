------------------------------ MODULE Session ------------------------------
(***************************************************************************)
(* The VRChat session: the cookies AuthStore keeps in memory and in        *)
(* session.dat (src/src/core/AuthStore.cpp), the calls that read, replace  *)
(* and clear them on the threads of the IPC pool (VrcApi.cpp,              *)
(* AuthBridge.cpp, ApiBridge.cpp), and the signed-in flag of the page      *)
(* (src/web/src/lib/auth-context.tsx).                                     *)
(*                                                                         *)
(* Every method of AuthStore holds m_mutex, so each is one step; a call    *)
(* makes several of them, with a request to VRChat in between, and the     *)
(* calls of different threads interleave.                                  *)
(***************************************************************************)
EXTENDS Naturals, Sequences

CONSTANTS
  Threads,        \* threads of the IPC pool
  Sessions,       \* the sessions VRChat may open
  NoCookie,       \* the empty string
  Asked,          \* the calls the page makes
  MaxFaults,      \* bound: network failures, failed writes and deletions
  MaxExpirations, \* bound: sessions VRChat ends by itself
  MaxRestarts,    \* bound: exits or crashes of VRCSM
  MaxInbox        \* bound: messages waiting for the page

ASSUME SessionAssumption ==
  /\ NoCookie \notin Sessions
  /\ Asked \subseteq {"status", "list", "login", "verify", "logout"}
  /\ MaxFaults \in Nat /\ MaxExpirations \in Nat /\ MaxRestarts \in Nat
  /\ MaxInbox \in Nat \ {0}

VARIABLES
  server,      \* what VRChat holds of each session
  mem,         \* m_authCookie and m_twoFactorCookie
  file,        \* session.dat: a cookie pair, or Unreadable
  unsaved,     \* history: the last Save failed
  job,         \* the call each thread runs
  inbox,       \* answers and events on their way to the page
  authed,      \* status.authed of the page
  faults, expirations, restarts

counters == <<faults, expirations, restarts>>
vars == <<server, mem, file, unsaved, job, inbox, authed, counters>>

Cookie == Sessions \cup {NoCookie}
Pair(a, t) == [auth |-> a, two |-> t]
Pairs  == [auth : Cookie, two : Cookie]
Empty  == Pair(NoCookie, NoCookie)

\* session.dat that is absent, torn or not ours to decrypt: Load gives up.
Unreadable == [unreadable |-> TRUE]

\* The answers that change the page's status: signed in, signed out.
Messages == [from : {"status", "login", "confirm", "logout"},
             says : {"in", "out"}, wanted : BOOLEAN]

(***************************************************************************)
(* A call: what it does, where it is, the cookies it sent or is about to   *)
(* store, the session VRChat gave it, what it got, and whether the page    *)
(* still waits for it.  "confirm" is the second half of auth.verify2FA,    *)
(* the fetchCurrentUser that follows the stored cookie.                    *)
(***************************************************************************)
Ops    == {"none", "status", "list", "login", "verify", "confirm", "logout"}
Places == {"idle", "header", "load", "reread", "sent", "answered", "merge",
           "set", "save", "reply"}
Gots   == {"none", "ok", "challenge", "expired", "failed"}
Jobs   == [op : Ops, at : Places, cookies : Pairs, new : Cookie, got : Gots,
           wanted : BOOLEAN]

Idle == [op |-> "none", at |-> "idle", cookies |-> Empty, new |-> NoCookie,
         got |-> "none", wanted |-> FALSE]

At(t, place) == job[t].at = place

Goto(t, place)        == job' = [job EXCEPT ![t].at = place]
Ends(t, got)          == job' = [job EXCEPT ![t].at = "reply", ![t].got = got]
NoFault               == UNCHANGED counters
OneFault              == /\ faults < MaxFaults /\ faults' = faults + 1
                         /\ UNCHANGED <<expirations, restarts>>

Init ==
  /\ server = [s \in Sessions |-> "none"]
  /\ mem = Empty /\ file = Unreadable /\ unsaved = FALSE
  /\ job = [t \in Threads |-> Idle]
  /\ inbox = <<>> /\ authed = FALSE
  /\ faults = 0 /\ expirations = 0 /\ restarts = 0

-----------------------------------------------------------------------------
(***************************************************************************)
(* The page starts a call.  auth.status and auth.user come from a poll,    *)
(* every page that needs a list asks for it by itself, and the sign-in     *)
(* form can be submitted again while an earlier answer is outstanding.     *)
(***************************************************************************)
Call(t, op) ==
  /\ At(t, "idle")
  /\ job' = [job EXCEPT ![t] = [Idle EXCEPT !.op = op, !.wanted = TRUE,
               !.at = CASE op = "login"  -> "sent"
                        [] op = "logout" -> "answered"
                        [] OTHER         -> "header"]]
  /\ UNCHANGED <<server, mem, file, unsaved, inbox, authed, counters>>

\* BuildCookieHeader, the first time: an empty header sends
\* getLoadedCookieHeader to session.dat, but not verifyTwoFactor.
ReadHeader(t) ==
  /\ At(t, "header")
  /\ \/ /\ mem.auth # NoCookie
        /\ job' = [job EXCEPT ![t].cookies = mem, ![t].at = "sent"]
     \/ mem.auth = NoCookie /\ job[t].op # "verify" /\ Goto(t, "load")
     \/ mem.auth = NoCookie /\ job[t].op = "verify" /\ Ends(t, "failed")
  /\ UNCHANGED <<server, mem, file, unsaved, inbox, authed, counters>>

\* Mutant: what was read is taken without a check.
LoadedUnchecked == file

\* AuthStore::Load empties the memory whatever it then finds.
Loaded == IF file \in Pairs THEN file ELSE Empty

LoadFile(t) ==
  /\ At(t, "load")
  /\ mem' = Loaded
  /\ Goto(t, "reread")
  /\ UNCHANGED <<server, file, unsaved, inbox, authed, counters>>

\* BuildCookieHeader again; a header still empty is auth_expired at once.
RereadHeader(t) ==
  /\ At(t, "reread")
  /\ \/ /\ mem.auth # NoCookie
        /\ job' = [job EXCEPT ![t].cookies = mem, ![t].at = "sent"]
     \/ /\ mem.auth = NoCookie
        /\ job' = [job EXCEPT ![t].at = "answered", ![t].got = "expired"]
  /\ UNCHANGED <<server, mem, file, unsaved, inbox, authed, counters>>

-----------------------------------------------------------------------------
(***************************************************************************)
(* VRChat, at the other end of a request.  A password may open a session   *)
(* that still wants a second factor; only /auth/user says so to a caller,  *)
(* the other routes answer 401.                                            *)
(***************************************************************************)
Verdict(t, s) ==
  CASE server[s] = "live" -> "ok"
    [] server[s] = "pending" /\ job[t].op # "list" -> "challenge"
    [] OTHER -> "expired"

ServeRequest(t) ==
  /\ At(t, "sent") /\ job[t].op \in {"status", "list", "confirm"}
  /\ job' = [job EXCEPT ![t].at = "answered",
                        ![t].got = Verdict(t, job[t].cookies.auth)]
  /\ UNCHANGED <<server, mem, file, unsaved, inbox, authed, counters>>

ServeLogin(t) ==
  /\ At(t, "sent") /\ job[t].op = "login"
  /\ \E s \in Sessions, got \in {"ok", "challenge"} :
       /\ server[s] = "none"
       /\ server' = [server EXCEPT ![s] = IF got = "ok" THEN "live" ELSE "pending"]
       /\ job' = [job EXCEPT ![t].at = "set", ![t].got = got,
                             ![t].cookies = Pair(s, NoCookie), ![t].new = s]
  /\ UNCHANGED <<mem, file, unsaved, inbox, authed, counters>>

\* The second factor is right, and belongs to the session it was sent with.
ServeVerify(t) ==
  LET s == job[t].cookies.auth IN
  /\ At(t, "sent") /\ job[t].op = "verify" /\ server[s] = "pending"
  /\ server' = [server EXCEPT ![s] = "live"]
  /\ job' = [job EXCEPT ![t].at = "merge", ![t].new = s]
  /\ UNCHANGED <<mem, file, unsaved, inbox, authed, counters>>

\* A wrong password or code, or a session VRChat no longer takes.
Refuse(t) ==
  /\ At(t, "sent") /\ job[t].op \in {"login", "verify"}
  /\ Ends(t, "failed")
  /\ UNCHANGED <<server, mem, file, unsaved, inbox, authed, counters>>

\* No answer, 429 or 5xx: every caller reports it and touches nothing.
LoseRequest(t) ==
  /\ At(t, "sent") /\ OneFault
  /\ job' = [job EXCEPT ![t].at = "answered", ![t].got = "failed"]
  /\ UNCHANGED <<server, mem, file, unsaved, inbox, authed>>

ExpireSession(s) ==
  /\ server[s] \in {"pending", "live"} /\ expirations < MaxExpirations
  /\ server' = [server EXCEPT ![s] = "dead"]
  /\ expirations' = expirations + 1
  /\ UNCHANGED <<mem, file, unsaved, job, inbox, authed, faults, restarts>>

-----------------------------------------------------------------------------
\* Mutant: an auth cookie that is gone is merged all the same.
MergeUnchecked(t) ==
  /\ At(t, "merge")
  /\ job' = [job EXCEPT ![t].at = "set",
                        ![t].cookies = Pair(mem.auth, job[t].new)]
  /\ UNCHANGED <<server, mem, file, unsaved, inbox, authed, counters>>

\* verifyTwoFactor reads the auth cookie again, whoever stored it meanwhile.
MergeCookies(t) ==
  /\ At(t, "merge")
  /\ \/ mem.auth = NoCookie /\ Ends(t, "failed")
     \/ /\ mem.auth # NoCookie
        /\ job' = [job EXCEPT ![t].at = "set",
                              ![t].cookies = Pair(mem.auth, job[t].new)]
  /\ UNCHANGED <<server, mem, file, unsaved, inbox, authed, counters>>

\* Mutant: the cookies are set and the call goes on without Save.
SetCookiesOnly(t) ==
  /\ At(t, "set")
  /\ mem' = job[t].cookies
  /\ job' = IF job[t].op = "login"
            THEN [job EXCEPT ![t].at = "reply"]
            ELSE [job EXCEPT ![t].op = "confirm", ![t].at = "header"]
  /\ UNCHANGED <<server, file, unsaved, inbox, authed, counters>>

\* AuthStore::SetCookies.
SetCookies(t) ==
  /\ At(t, "set")
  /\ mem' = job[t].cookies
  /\ Goto(t, "save")
  /\ UNCHANGED <<server, file, unsaved, inbox, authed, counters>>

\* What a call does once its cookies are stored, whether Save failed or not.
Stored(t) ==
  job' = IF job[t].op = "login"
         THEN [job EXCEPT ![t].at = "reply"]
         ELSE [job EXCEPT ![t].op = "confirm", ![t].at = "header"]

\* AuthStore::Save writes what is in memory now, not what the caller set.
Save(t) ==
  /\ At(t, "save")
  /\ file' = mem /\ unsaved' = FALSE
  /\ Stored(t)
  /\ UNCHANGED <<server, mem, inbox, authed, counters>>

\* The stream opens with trunc: a failed write leaves the old file or none.
SaveFails(t) ==
  /\ At(t, "save")
  /\ file' \in {file, Unreadable} /\ unsaved' = TRUE
  /\ Stored(t)
  /\ OneFault
  /\ UNCHANGED <<server, mem, inbox, authed>>

\* Mutant: every error clears the session, not auth_expired alone.
ClearOnAnyError(t) ==
  /\ At(t, "answered")
  /\ \/ job[t].op = "logout"
     \/ job[t].op \in {"status", "list"} /\ job[t].got # "ok"
  /\ mem' = Empty /\ file' = Unreadable /\ NoFault
  /\ Goto(t, "reply")
  /\ UNCHANGED <<server, unsaved, inbox, authed>>

\* AuthStore::Clear, on a logout and on auth_expired: memory and file at
\* once, whatever session they hold by now.
Clear(t) ==
  /\ At(t, "answered")
  /\ \/ job[t].op = "logout"
     \/ job[t].op \in {"status", "list"} /\ job[t].got = "expired"
  /\ mem' = Empty
  /\ \/ file' = Unreadable /\ NoFault
     \/ file' = file /\ file # Unreadable /\ OneFault
  /\ Goto(t, "reply")
  /\ UNCHANGED <<server, unsaved, inbox, authed>>

\* Any other answer leaves the cookies alone.
Keep(t) ==
  /\ At(t, "answered") /\ job[t].op # "logout"
  /\ job[t].op \in {"status", "list"} => job[t].got # "expired"
  /\ Goto(t, "reply")
  /\ UNCHANGED <<server, mem, file, unsaved, inbox, authed, counters>>

-----------------------------------------------------------------------------
\* Mutant: auth.status throws auth_expired under a code the page ignores.
SaysThrows(j) ==
  CASE j.op = "logout" -> "out"
    [] j.op \in {"status", "login", "confirm"} /\ j.got = "ok" -> "in"
    [] j.op = "confirm" -> "out"
    [] OTHER -> "nothing"

(***************************************************************************)
(* What the page makes of an answer.  auth.status: an auth_expired error   *)
(* and the 401 of a second-factor challenge both sign it out, any other    *)
(* error leaves it as it is.  auth.verify2FA answers ok with an empty user *)
(* when the fetchCurrentUser after it failed, which reads as signed out.   *)
(***************************************************************************)
Says(j) ==
  CASE j.op = "logout" -> "out"
    [] j.op \in {"status", "login", "confirm"} /\ j.got = "ok" -> "in"
    [] j.op = "status" /\ j.got \in {"expired", "challenge"} -> "out"
    [] j.op = "confirm" -> "out"
    [] OTHER -> "nothing"

\* PostResult.  The event auth.loginCompleted only starts an auth.status.
Reply(t) ==
  LET says == Says(job[t]) IN
  /\ At(t, "reply") /\ Len(inbox) < MaxInbox
  /\ inbox' = IF says = "nothing" THEN inbox
              ELSE Append(inbox, [from |-> job[t].op, says |-> says,
                                  wanted |-> job[t].wanted])
  /\ job' = [job EXCEPT ![t] = Idle]
  /\ UNCHANGED <<server, mem, file, unsaved, authed, counters>>

\* ipc.cancelAll: the page waits for nothing that is still under way.
Unwanted(m) == [m EXCEPT !.wanted = FALSE]
CancelAll(queue) ==
  /\ job' = [t \in Threads |-> Unwanted(job[t])]
  /\ inbox' = [i \in 1..Len(queue) |-> Unwanted(queue[i])]

\* The pool or VRChat is slow and the client's timer fires: the late answer
\* will find no slot.
Timeout(t) ==
  /\ job[t].wanted /\ job[t].op # "logout"
  /\ job' = [job EXCEPT ![t].wanted = FALSE]
  /\ OneFault
  /\ UNCHANGED <<server, mem, file, unsaved, inbox, authed>>

\* The finally of logout signs the page out before the host has.
LogoutTimesOut(t) ==
  /\ job[t].wanted /\ job[t].op = "logout"
  /\ CancelAll(inbox) /\ authed' = FALSE
  /\ OneFault
  /\ UNCHANGED <<server, mem, file, unsaved>>

Resets(m) ==
  \/ m.from = "logout"
  \/ m.from = "status" /\ m.says = "out" /\ authed

\* commitStatus, with the reset of the caches when a session ends.
Commit ==
  /\ inbox # <<>> /\ Head(inbox).wanted
  /\ authed' = (Head(inbox).says = "in")
  /\ \/ Resets(Head(inbox)) /\ CancelAll(Tail(inbox))
     \/ ~Resets(Head(inbox)) /\ inbox' = Tail(inbox) /\ job' = job
  /\ UNCHANGED <<server, mem, file, unsaved, counters>>

Drop ==
  /\ inbox # <<>> /\ ~Head(inbox).wanted
  /\ inbox' = Tail(inbox)
  /\ UNCHANGED <<server, mem, file, unsaved, job, authed, counters>>

\* VRCSM ends, perhaps in the middle of a write, and starts again:
\* ~IpcBridge and the constructor's Load.
Restart ==
  /\ restarts < MaxRestarts /\ restarts' = restarts + 1
  /\ file' \in {file} \cup (IF \E t \in Threads : At(t, "save")
                            THEN {Unreadable} ELSE {})
  /\ mem' = IF file' \in Pairs THEN file' ELSE Empty
  /\ unsaved' = FALSE
  /\ job' = [t \in Threads |-> Idle] /\ inbox' = <<>> /\ authed' = FALSE
  /\ UNCHANGED <<server, faults, expirations>>

-----------------------------------------------------------------------------
\* The steps a call takes by itself, once VRChat has answered.
Step(t) ==
  \/ ReadHeader(t) \/ LoadFile(t) \/ RereadHeader(t)
  \/ ServeRequest(t) \/ ServeLogin(t) \/ ServeVerify(t) \/ Refuse(t)
  \/ MergeCookies(t) \/ SetCookies(t) \/ Save(t)
  \/ Clear(t) \/ Keep(t) \/ Reply(t)

Next ==
  \/ \E t \in Threads : \E op \in Asked : Call(t, op)
  \/ \E t \in Threads : Step(t) \/ LoseRequest(t) \/ SaveFails(t)
  \/ \E t \in Threads : Timeout(t) \/ LogoutTimesOut(t)
  \/ \E s \in Sessions : ExpireSession(s)
  \/ Commit \/ Drop \/ Restart

Spec == Init /\ [][Next]_vars

(***************************************************************************)
(* Threads run, VRChat answers, the page handles what it gets, and a       *)
(* visible window asks for auth.status every 30 s: the pool is first in    *)
(* first out, so the call is taken in the end however busy the threads     *)
(* are, and an answer sooner than that poll's own timer.                   *)
(***************************************************************************)
Polls == \E t \in Threads : Call(t, "status")
Fairness ==
  /\ \A t \in Threads : WF_vars(Step(t))
  /\ WF_vars(Commit \/ Drop)
  /\ SF_vars(Polls)

FairSpec == Spec /\ Fairness

-----------------------------------------------------------------------------
\* Every variable keeps its type: the stored pair, session.dat, the host's calls
\* and the page's state (AuthStore.h, auth-context.tsx).
TypeOK ==
  /\ server \in [Sessions -> {"none", "pending", "live", "dead"}]
  /\ mem \in Pairs /\ file \in Pairs \cup {Unreadable} /\ unsaved \in BOOLEAN
  /\ job \in [Threads -> Jobs]
  /\ inbox \in Seq(Messages) /\ Len(inbox) <= MaxInbox
  /\ authed \in BOOLEAN
  /\ faults \in 0..MaxFaults /\ expirations \in 0..MaxExpirations
  /\ restarts \in 0..MaxRestarts

\* The session the next request will use: memory first, then session.dat.
Held == IF mem.auth # NoCookie THEN mem.auth ELSE Loaded.auth
Live == Held # NoCookie /\ server[Held] = "live"

Saving == \E t \in Threads : At(t, "save")

(***************************************************************************)
(* A second-factor cookie is never kept, in memory or in session.dat,      *)
(* without a session: the logout of one thread during the verify2FA of     *)
(* another must not leave half a pair (VrcApi.cpp:1682-1687).              *)
(***************************************************************************)
TwoFactorNeedsAuth ==
  /\ mem.two # NoCookie => mem.auth # NoCookie
  /\ file \in Pairs /\ file.two # NoCookie => file.auth # NoCookie

(***************************************************************************)
(* What memory holds is what a restart would load, except while some call  *)
(* is between SetCookies and Save, or after a Save that failed: no         *)
(* interleaving of logins, logouts and expired requests leaves a session   *)
(* in use that would be gone, or another one, at the next start.           *)
(***************************************************************************)
StoresAgree == mem.auth = NoCookie \/ mem = file \/ unsaved \/ Saving

(***************************************************************************)
(* A session that VRChat honours, and memory and session.dat both hold, is *)
(* given up only by the thread that logs out, by the one that stores a     *)
(* login or second factor, by an exit in the middle of a write, or by a    *)
(* thread that was told auth_expired of something else: of an older        *)
(* session or none, or, by a list, before the second factor.  No other     *)
(* error, load or save gives it up, however the threads interleave.        *)
(***************************************************************************)
GivesUp(t)   == \/ At(t, "answered") /\ job[t].op = "logout"
                \/ At(t, "set")
Overtaken(t) == /\ At(t, "answered") /\ job[t].got = "expired"
                /\ job[t].cookies.auth # Held \/ job[t].op = "list"
LiveKept ==
  [][Live /\ mem = file /\ Held' # Held =>
       \/ \E t \in Threads : job'[t].at # job[t].at /\ (GivesUp(t) \/ Overtaken(t))
       \/ restarts' # restarts /\ Saving]_vars

(***************************************************************************)
(* A login whose Save works has persisted the session it received          *)
(* (VrcApi.cpp:1563-1567).                                                 *)
(***************************************************************************)
LoginPersists ==
  [][\A t \in Threads :
       At(t, "save") /\ job[t].op = "login" /\ job'[t].at = "reply" /\ ~unsaved'
         => file' = job[t].cookies]_vars

(***************************************************************************)
(* An error clears the store only on a 401 of /auth/user to the session    *)
(* the store holds ("A real server 401 on /auth/user is the only           *)
(* legitimate 'your cookie is dead' signal", VrcApi.cpp:1362).             *)
(***************************************************************************)
ClearsWhatExpired ==
  [][\A t \in Threads :
       (/\ At(t, "answered") /\ job[t].op # "logout"
        /\ mem.auth # NoCookie /\ job'[t].at = "reply" /\ mem' = Empty)
         => job[t].op = "status" /\ job[t].cookies.auth = mem.auth]_vars

(***************************************************************************)
(* The two cookies of a request belong to one session (VrcApi.cpp:1564:    *)
(* one left from a stale session "would confuse VRChat").                  *)
(***************************************************************************)
TwoFactorMatches == mem.two # NoCookie => mem.two = mem.auth

(***************************************************************************)
(* Once logins, expirations and faults are over, the page says signed in   *)
(* exactly when the host holds a session VRChat honours, in spite of       *)
(* answers computed before a login and received after it, and of answers   *)
(* dropped by cancelAll.                                                   *)
(***************************************************************************)
PageConverges == <>[](authed = Live)
=============================================================================
