---------------------------- MODULE MCLogTailer ----------------------------
(* Two launches, one rewrite, two starts: the numbers are in the .cfg.      *)
EXTENDS LogTailer
==============================================================================
