-------------------------- MODULE MCStreamChannel --------------------------
(* The server reads often enough for any frame, the client does not.        *)
EXTENDS StreamChannel

MCReads == [e \in Ends |-> IF e = "client" THEN 2 ELSE 6]
=============================================================================
