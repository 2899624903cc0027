---------------------------- MODULE MCIpcChannel ----------------------------
(* A migration (slow, without a timer), the enabling of a plugin (slow,     *)
(* waits for the UI thread) and a quick inline call, on a pool of two       *)
(* threads.                                                                 *)
EXTENDS IpcChannel

CONSTANTS migrate, enable, quick

MCCalls   == {migrate, enable, quick}
MCAsync   == {migrate, enable}
MCUntimed == {migrate}
MCUsesUi  == {enable}
MCReporting == {migrate}
==============================================================================
