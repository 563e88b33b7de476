--------------------------- MODULE MCHTTPReporter ---------------------------
(* Small instances of the HTTP reporter for TLC. *)
EXTENDS HTTPReporter

CONSTANTS db, cache, m1, u1, u2, c1
=============================================================================
