----------------------------- MODULE MCTcpFrame -----------------------------
(* Outboxes for TcpFrame.  Numbers and words are small, so that a word     *)
(* taken for a length still makes a frame that can be filled.              *)
EXTENDS TcpFrame, TLC

P(n, b) == [no |-> n, body |-> b]

TwoSenders == {"router", "handler"}

(* Bodies of one to three words, one empty, one as long as a head; the      *)
(* router's coroutine sends requests, a handler of startIO one reply.       *)
TwoOutbox == [w \in TwoSenders |->
  IF w = "router" THEN << P(2, << 4, 5, 6 >>), P(3, << >>), P(4, << 1, 2 >>) >>
                  ELSE << P(1, << 3 >>) >>]
=============================================================================
