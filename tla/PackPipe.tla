------------------------------ MODULE PackPipe ------------------------------
(***************************************************************************)
(* What the request/reply layer may expect of a connection in one          *)
(* direction: a first-in first-out pipe of whole packs that, once damaged  *)
(* by a broken frame or a lost connection, still delivers everything sent  *)
(* before the damage and then promises nothing.                            *)
(***************************************************************************)
EXTENDS Naturals, Sequences

CONSTANT Packs

VARIABLES
  sent,       \* packs that sendPack reported as sent
  sound,      \* how many of them precede the damage
  damaged,    \* whether there was any
  delivered   \* packs that recvPack handed out

vars == << sent, sound, damaged, delivered >>

Init == sent = << >> /\ sound = 0 /\ ~damaged /\ delivered = << >>

Send ==
  /\ \E p \in Packs : sent' = Append(sent, p)
  /\ sound' = IF damaged THEN sound ELSE sound + 1
  /\ UNCHANGED << damaged, delivered >>

(* The damage may be a send that is itself reported as a success. *)
Damage ==
  /\ ~damaged /\ damaged'
  /\ sent' = sent \/ \E p \in Packs : sent' = Append(sent, p)
  /\ UNCHANGED << sound, delivered >>

Receive ==
  /\ Len(delivered) < sound
  /\ delivered' = Append(delivered, sent[Len(delivered) + 1])
  /\ UNCHANGED << sent, sound, damaged >>

Garbage ==
  /\ damaged /\ Len(delivered) >= sound
  /\ Len(delivered') = Len(delivered) + 1
  /\ SubSeq(delivered', 1, Len(delivered)) = delivered
  /\ UNCHANGED << sent, sound, damaged >>

Next == Send \/ Damage \/ Receive \/ Garbage

Spec == Init /\ [][Next]_vars
=============================================================================
