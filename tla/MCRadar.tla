------------------------------ MODULE MCRadar ------------------------------
\* The radar beside the console dock, which may have begun the tailer before.
EXTENDS Radar

CONSTANTS dock, bob

MCPages == {radar, dock}
MCPlayers == {bob}
=============================================================================
