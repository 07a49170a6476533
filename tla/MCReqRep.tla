------------------------------ MODULE MCReqRep ------------------------------
(* Small instances of ReqRep for TLC: the layouts of socks and processes. *)
EXTENDS ReqRepRpc, TLC

CONSTANTS p1, p2, s1, s2, s3, s4, c1, c2, c3

(* One connection between two processes, Initiative at one end and Passive  *)
(* at the other (the modes createPair gives its two channels).              *)
OnePeer == (s1 :> s2) @@ (s2 :> s1)
TwoHomes == (s1 :> p1) @@ (s2 :> p2)
OneHome == (s1 :> p1) @@ (s2 :> p1)
BothModes == (s1 :> "Initiative") @@ (s2 :> "Passive")
OneTcp == (s1 :> "tcp") @@ (s2 :> "tcp")
OnePair == (s1 :> "pair") @@ (s2 :> "pair")
BothCall == (c1 :> s1) @@ (c2 :> s1) @@ (c3 :> s2)
OneCalls == (c1 :> s1) @@ (c2 :> s1)
LoneCall == c1 :> s1

(* Two connections as DBConnectTCP and DBTcp make them, Initiative at both  *)
(* ends, where only the dialling ends call; client and server share one     *)
(* process, as in the tests, and so one router and its two queues.          *)
TwoPeers == (s1 :> s2) @@ (s2 :> s1) @@ (s3 :> s4) @@ (s4 :> s3)
SharedHome == [s \in {s1, s2, s3, s4} |-> p1]
AllInitiative == [s \in {s1, s2, s3, s4} |-> "Initiative"]
AllTcp == [s \in {s1, s2, s3, s4} |-> "tcp"]
DiallersCall == (c1 :> s1) @@ (c2 :> s1) @@ (c3 :> s3)
=============================================================================
