----------------------------- MODULE MCShutdown -----------------------------
(* Model-checking instance of Shutdown: two proposers.                      *)
EXTENDS Shutdown

CONSTANTS p1, p2

MCProposers == {p1, p2}

=============================================================================
