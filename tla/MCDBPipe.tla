------------------------------ MODULE MCDBPipe ------------------------------
(* DBPipe for TLC: two characters and one shared document.                 *)
EXTENDS DBPipe, TLC
CONSTANTS w1, w2, h1, h2, s1
MCWorkers1 == {w1}
MCWorkers2 == {w1, w2}
MCHumans  == {h1, h2}
MCShared  == {s1}
MCSymmetry == Permutations(MCHumans) \cup Permutations(MCWorkers2)
=============================================================================
