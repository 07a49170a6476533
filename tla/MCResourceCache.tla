-------------------------- MODULE MCResourceCache --------------------------
(* The instance of ResourceCache for TLC. *)
EXTENDS ResourceCache

CONSTANTS r1, r2
TwoRequests == {r1, r2}
=============================================================================
