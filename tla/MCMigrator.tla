----------------------------- MODULE MCMigrator -----------------------------
(* Two operations on a cache of one file, two target directories and one    *)
(* file that VRChat may write.                                              *)
EXTENDS Migrator, TLC

CONSTANTS r1, r2, t1, t2, f1, w1

MCRuns    == {r1, r2}
MCTargets == {t1, t2}
MCFiles   == {f1}
MCWrites  == {w1}

Symmetry == Permutations(MCRuns) \cup Permutations(MCTargets)

\* The user migrates and repairs nothing.
MigrationsOnly == Init /\ [][Next /\ UNCHANGED repair]_vars
==============================================================================
