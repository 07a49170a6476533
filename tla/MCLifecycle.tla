---------------------------- MODULE MCLifecycle ----------------------------
(* Lifecycle as it stands: its constants are numbers. *)
EXTENDS Lifecycle
=============================================================================
