--------------------------- MODULE MCCachedChecker ---------------------------
(* Small instances of the caching checker for TLC. *)
EXTENDS CachedChecker

CONSTANTS a, b
=============================================================================
