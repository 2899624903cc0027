---------------------------- MODULE CallContract ----------------------------
(***************************************************************************)
(* What ipc.call (src/web/src/lib/ipc.ts) promises a page, whatever threads *)
(* and queues lie underneath: a handler of the host runs at most once per  *)
(* call, and the promise settles at most once, with an answer only when    *)
(* the handler of that very call has run.                                  *)
(***************************************************************************)
CONSTANT Calls

VARIABLES promise,  \* what the page sees of each call
          ran       \* calls whose handler has run

Init == promise = [c \in Calls |-> "none"] /\ ran = {}

Issue(c) ==
  /\ promise[c] = "none"
  /\ promise' = [promise EXCEPT ![c] = "pending"]
  /\ UNCHANGED ran

\* The handler may still run after the page has given up on the call.
RunHandler(c) ==
  /\ promise[c] # "none" /\ c \notin ran
  /\ ran' = ran \cup {c}
  /\ UNCHANGED promise

Answer(c) ==
  /\ promise[c] = "pending" /\ c \in ran
  /\ promise' = [promise EXCEPT ![c] = "answered"]
  /\ UNCHANGED ran

\* A timeout, or the reset of the session.
GiveUp(C) ==
  /\ C # {} /\ \A c \in C : promise[c] = "pending"
  /\ promise' = [c \in Calls |-> IF c \in C THEN "rejected" ELSE promise[c]]
  /\ UNCHANGED ran

Next == \/ \E c \in Calls : Issue(c) \/ RunHandler(c) \/ Answer(c)
        \/ \E C \in SUBSET Calls : GiveUp(C)

Spec == Init /\ [][Next]_<<promise, ran>>
==============================================================================
