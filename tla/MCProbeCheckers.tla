--------------------------- MODULE MCProbeCheckers ---------------------------
(* Instances of the checkers for TLC. *)
EXTENDS ProbeCheckers
=============================================================================
