------------------------------ MODULE TcpFrame ------------------------------
(***************************************************************************)
(* TcpChannelImpl: packs over a TCP byte stream, one direction.            *)
(*                                                                         *)
(* sendPack writes a head (length and number, StreamNetDealer::pack) and a *)
(* body with one async_send each, and a coroutine switch in between.  The  *)
(* retry count of 2 allows one attempt per part: if the kernel takes less  *)
(* than all of it, sendPack gives up and returns false, leaving what was   *)
(* taken on the stream.  recvPack collects chunks in _bRecv until it has a *)
(* head and then a body, and keeps what follows for the next pack.         *)
(*                                                                         *)
(* The stream is a sequence of words (4 bytes).                            *)
(***************************************************************************)
EXTENDS Integers, Sequences, FiniteSets

CONSTANTS
  Senders,   \* coroutines that call sendPack on this channel
  Outbox,    \* the packs a sender sends, in order
  ChunkMax,  \* size of _recvasio
  SockBuf,   \* words the kernel holds for the connection
  MayClose   \* whether the connection may be closed

ASSUME TcpFrameAssumption ==
  /\ Senders # {}
  /\ \A w \in Senders : Outbox[w] \in Seq([no : Nat, body : Seq(Nat)])
  /\ ChunkMax \in Nat \ {0}
  /\ SockBuf \in Nat \ {0}
  /\ MayClose \in BOOLEAN

VARIABLES
  sender,    \* a sendPack coroutine: the part it sends, the index of its pack
  stream,    \* words accepted by the kernel and not yet read
  open,      \* whether the connection is open
  okSent,    \* history: packs for which sendPack returned true
  intact,    \* history: how many of them precede the first damage, -1: all
  bRecv,     \* TcpChannelImpl::_bRecv
  rpc,       \* the loop recvPack is in: "head" or "body"
  len,       \* recvPack's len: 0, or what the last good read returned
  recvasio,  \* TcpChannelImpl::_recvasio
  delivered, \* packs recvPack returned
  gaveUp     \* whether recvPack returned without a pack

vars == << sender, stream, open, okSent, intact, bRecv, rpc, len, recvasio, delivered, gaveUp >>

HeadLen == 2
Pack(p) == << Len(p.body), p.no >>
Part(w) == LET p == Outbox[w][sender[w].i]
           IN  IF sender[w].pc = "head" THEN Pack(p) ELSE p.body

Init ==
  /\ sender = [w \in Senders |-> [pc |-> "head", i |-> 1]]
  /\ stream = << >> /\ open = TRUE /\ okSent = << >> /\ intact = -1
  /\ bRecv = << >> /\ rpc = "head" /\ len = 0 /\ recvasio = << >>
  /\ delivered = << >> /\ gaveUp = FALSE

Smaller(a, b) == IF a < b THEN a ELSE b

(* async_send waits until the kernel has room, then returns what it took. *)
Taken(w) ==
  IF open THEN Smaller(Len(Part(w)), SockBuf - Len(stream)) ELSE 0

(* What hadsend counts.  When async_send throws, len keeps its value, which *)
(* in the loop of the body is what the send of the head returned.           *)
Counted(w) == IF open THEN Taken(w) ELSE IF sender[w].pc = "body" THEN HeadLen ELSE 0

(* hadsend == the length of the part, after the only attempt. *)
SentWhole(w) == Counted(w) = Len(Part(w))

LastPart(w) == sender[w].pc = "body" \/ Outbox[w][sender[w].i].body = << >>

(* The part does not reach the stream whole, or it falls between the head   *)
(* and the body of another coroutine's pack.                                *)
Damages(w) ==
  \/ Taken(w) < Len(Part(w))
  \/ \E v \in Senders \ {w} : sender[v].pc = "body"

(* One half of sendPack: the head or the body of sender w's current pack.  *)
(* An empty body is not sent.                                              *)
SendPart(w) ==
  /\ sender[w].i <= Len(Outbox[w])
  /\ open => Len(stream) < SockBuf
  /\ stream' = stream \o SubSeq(Part(w), 1, Taken(w))
  /\ \/ /\ SentWhole(w) /\ ~LastPart(w)
        /\ sender' = [sender EXCEPT ![w].pc = "body"]
        /\ UNCHANGED okSent
     \/ /\ SentWhole(w) /\ LastPart(w)
        /\ sender' = [sender EXCEPT ![w] = [pc |-> "head", i |-> @.i + 1]]
        /\ okSent' = Append(okSent, Outbox[w][sender[w].i])
     \/ /\ ~SentWhole(w)
        /\ sender' = [sender EXCEPT ![w] = [pc |-> "head", i |-> @.i + 1]]
        /\ UNCHANGED okSent
  /\ intact' = IF intact = -1 /\ Damages(w) THEN Len(okSent) ELSE intact
  /\ UNCHANGED << open, bRecv, rpc, len, recvasio, delivered, gaveUp >>

-----------------------------------------------------------------------------
HeadReady == Len(bRecv) >= HeadLen
BodyReady_Strict == Len(bRecv) > HeadLen + bRecv[1]
BodyReady == Len(bRecv) >= HeadLen + bRecv[1]

Waiting == \/ rpc = "head" /\ ~HeadReady
           \/ rpc = "body" /\ ~BodyReady

(* async_read_some returns any non-empty part of what has arrived. *)
ReadSome ==
  /\ Waiting /\ stream # << >>
  /\ \E k \in 1 .. Smaller(ChunkMax, Len(stream)) :
        /\ len' = k
        /\ recvasio' = SubSeq(stream, 1, k)
        /\ bRecv' = bRecv \o SubSeq(stream, 1, k)
        /\ stream' = SubSeq(stream, k + 1, Len(stream))
  /\ UNCHANGED << sender, open, okSent, intact, rpc, delivered, gaveUp >>

(* async_read_some throws and END_ASIO swallows the exception.  len keeps  *)
(* its value: after a good read in the same recvPack the old chunk is      *)
(* appended once more and the loop tries again; otherwise the loop ends    *)
(* and recvPack returns without a pack, to be called again.                *)
ReadFails ==
  /\ Waiting /\ stream = << >> /\ ~open
  /\ \/ /\ len > 0
        /\ bRecv' = bRecv \o recvasio
        /\ UNCHANGED << rpc, gaveUp >>
     \/ /\ len = 0
        /\ rpc' = "head" /\ gaveUp' = TRUE
        /\ UNCHANGED bRecv
  /\ UNCHANGED << sender, stream, open, okSent, intact, len, recvasio, delivered >>

(* recvPack has a head: StreamNetDealer::unpack, on to the body. *)
UnpackHead ==
  /\ rpc = "head" /\ HeadReady
  /\ rpc' = "body"
  /\ UNCHANGED << sender, stream, open, okSent, intact, bRecv, len, recvasio, delivered, gaveUp >>

Rest_LastWordKept(total) == SubSeq(bRecv, total, Len(bRecv))

(* What follows the pack in _bRecv stays there. *)
Rest(total) == SubSeq(bRecv, total + 1, Len(bRecv))

(* recvPack has a body too: it returns the pack and is called again. *)
ReturnPack ==
  LET total == HeadLen + bRecv[1]
  IN  /\ rpc = "body" /\ BodyReady
      /\ delivered' = Append(delivered,
                             [no |-> bRecv[2], body |-> SubSeq(bRecv, HeadLen + 1, total)])
      /\ bRecv' = Rest(total)
      /\ rpc' = "head" /\ len' = 0
      /\ UNCHANGED << sender, stream, open, okSent, intact, recvasio, gaveUp >>

(* The environment: the peer or the network ends the connection. *)
Close ==
  /\ MayClose /\ open /\ open' = FALSE
  /\ UNCHANGED << sender, stream, okSent, intact, bRecv, rpc, len, recvasio, delivered, gaveUp >>

-----------------------------------------------------------------------------
RecvStep == ReadSome \/ ReadFails \/ UnpackHead \/ ReturnPack
Next == (\E w \in Senders : SendPart(w)) \/ RecvStep \/ Close

Spec == Init /\ [][Next]_vars

(* The io_context resumes a coroutine whose operation is complete. *)
FairSpec == Spec /\ WF_vars(RecvStep) /\ \A w \in Senders : WF_vars(SendPart(w))

-----------------------------------------------------------------------------
AllPacks == UNION {{Outbox[w][i] : i \in DOMAIN Outbox[w]} : w \in Senders}

Whole == open /\ intact = -1
Sound == IF intact = -1 THEN Len(okSent) ELSE intact

Pipe == INSTANCE PackPipe WITH
          Packs <- AllPacks, sent <- okSent, sound <- Sound, damaged <- ~Whole

(* A TcpChannelImpl is a first-in first-out pipe of packs until it is       *)
(* damaged: by a send that the kernel cut short, by the end of the          *)
(* connection, or by a second coroutine that calls sendPack while another   *)
(* is between its head and its body.  Whichever it is and whenever it       *)
(* happens, recvPack first returns the packs sent before it, each once,     *)
(* whole and in order; only then may it return anything else.               *)
ImplementsPipe == Pipe!Spec

(* Every pack sent before the damage is received: none waits in _bRecv or   *)
(* on the stream for ever, even when nothing is sent after it.              *)
EveryPackArrives ==
  \A n \in 1 .. Cardinality(AllPacks) : Sound >= n ~> Len(delivered) >= n
=============================================================================
