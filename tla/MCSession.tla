----------------------------- MODULE MCSession -----------------------------
(* Every call on two threads.  Two sessions, for runs without liveness, let *)
(* a call of an old one meet the next.                                      *)
EXTENDS Session

CONSTANTS t1, t2, s1, s2

MCThreads     == {t1, t2}
MCOneSession  == {s1}
MCTwoSessions == {s1, s2}
MCAsked       == {"status", "list", "login", "verify", "logout"}
==============================================================================
