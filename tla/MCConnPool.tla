----------------------------- MODULE MCConnPool -----------------------------
(* The instance of ConnPool for TLC. *)
EXTENDS ConnPool, TLC

CONSTANTS q1, q2
TwoQueries == {q1, q2}
=============================================================================
