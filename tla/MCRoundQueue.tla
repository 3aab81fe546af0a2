---------------------------- MODULE MCRoundQueue ----------------------------
(* RoundQueue for TLC: four objects and a ring of three slots, so that the *)
(* ring wraps at every slot, fills up, and refuses a fourth object.        *)
EXTENDS RoundQueue
CONSTANTS m1, m2, m3, m4
MCItems == {m1, m2, m3, m4}
=============================================================================
