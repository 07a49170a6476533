----------------------------- MODULE ReqRepRpc -----------------------------
(* The request/reply layer implements the remote call of module Rpc. *)
EXTENDS ReqRep

(* The abstract call a body stands for, and the refinement mapping: a call *)
(* is pending while its reqrep coroutine lives, and served once router     *)
(* coroutine 2 of the peer has called the dealer.                          *)
NoId == << SomeSock, 0 >>
IdOf(b) == << b.sock, b.k >>
ResultOf(c) == IF caller[c].ret.kind = "ans" THEN IdOf(caller[c].ret)
               ELSE IF caller[c].ret = NoBody THEN NoId ELSE << SomeSock, -1 >>

Abstract == INSTANCE Rpc WITH
  Clients <- Callers,
  Calls <- [c \in Callers |-> {<< Chan[c], k >> : k \in 1 .. MaxReq}],
  pending <- [c \in Callers |-> IF caller[c].pc = "idle" THEN NoId ELSE << Chan[c], caller[c].k >>],
  result <- [c \in Callers |-> ResultOf(c)],
  done <- {IdOf(b) : b \in served}

(* ChannelCombine over MessageRouter implements the abstract remote call.  *)
ImplementsRpc == Abstract!Spec
=============================================================================
