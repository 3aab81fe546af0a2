---------------------------- MODULE MCTransport ----------------------------
(* Transport for TLC: two descriptors that are reused.                     *)
EXTENDS Transport
MCFds == {1, 2}
=============================================================================
