------------------------------- MODULE MCFanout -------------------------------
(* Instances of a manager with its reporters for TLC. *)
EXTENDS Fanout

CONSTANTS db, prom, c1

\* Watch is Check followed by a Send: one of them for each kind of service.
MCRequests == {<<"Check", Overall>>, <<"Watch", db>>, <<"List", "none">>}
=============================================================================
