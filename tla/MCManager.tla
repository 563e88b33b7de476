------------------------------ MODULE MCManager ------------------------------
(* Small instances of the manager for TLC. *)
EXTENDS Manager

CONSTANTS db, cache, http, prom, main, other
=============================================================================
