----------------------------- MODULE MCPipeline -----------------------------
(* Two pool threads, two worker threads and two connections.               *)
EXTENDS Pipeline

CONSTANTS c1, c2, w1, w2, h1, h2

MCCallers  == {c1, c2}
MCWorkers  == {w1, w2}
MCSockets  == {h1, h2}
==============================================================================
