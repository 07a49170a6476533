--------------------------- MODULE StreamChannel ---------------------------
(***************************************************************************)
(* The older stream stack: TcpChannel::clientEntry at one end of a         *)
(* connection, TcpChannel::_serverEntry at the other, both on              *)
(* TcpStreamHandler::recvPack, which reads before it looks at what it has, *)
(* gives up after a number of reads, and forgets the length it had parsed. *)
(*                                                                         *)
(* Bytes are words that know their message and their place in its frame    *)
(* (HeadLen words of length, BodyLen of body); a length parsed from words  *)
(* that are not a head is any number.  Nobody else sends on the connection,*)
(* so what sendPack does in several sends is one step.                     *)
(***************************************************************************)
EXTENDS Integers, Sequences

CONSTANTS
  MaxCall,      \* bound: calls of clientEntry
  HeadLen,      \* words of the length in front of a pack
  BodyLen,      \* words of a pack
  Reads,        \* retrycount of each end: 3 at the client, 60 at the server
  MaxGarbage    \* bound: length parsed from words that are not a head

Ends == {"client", "server"}

ASSUME StreamAssumption ==
  /\ MaxCall \in Nat /\ HeadLen \in Nat \ {0} /\ BodyLen \in Nat \ {0} /\ MaxGarbage \in Nat
  /\ Reads \in [Ends -> Nat \ {0}]

VARIABLES
  call,      \* number of calls of clientEntry, the sequence number of the last
  pc,        \* of each end: whether it is in recvPack
  wire,      \* words on their way to each end
  buf,       \* _recvbuf of each end
  cur,       \* _curpacklen
  tries,     \* tryindex
  open,      \* whether the connection is
  dealt,     \* the texts the server dealt with
  got,       \* what calls returned: Nothing, Garbled or a text
  gaveUp     \* history: a recvPack of the client ended without a pack

vars == << call, pc, wire, buf, cur, tries, open, dealt, got, gaveUp >>

(* What unpack makes of a pack: PackDealerMainSub::unpack(string&) appends  *)
(* the body after uppackmaincmd3 did so, and everyone gets it twice.        *)
Unpacked(k) == << k, k >>
Garbled == << 0 >>
Nothing == << >>

Word(e, k, i) == [to |-> e, of |-> k, i |-> i]

(* packmaincmd3 behind _packnethead: the frame of pack k to end e. *)
Frame(e, k) == [i \in 1 .. HeadLen + BodyLen |-> Word(e, k, i)]

(* What a piece of a stream becomes: the text of pack k, or garbage. *)
Meaning(e, ws) ==
  IF \E k \in 1 .. MaxCall : ws = SubSeq(Frame(e, k), HeadLen + 1, HeadLen + BodyLen)
  THEN Unpacked(ws[1].of) ELSE Garbled

(* The lengths that unpackuint32 may find in front of b. *)
Lengths(e, b) ==
  IF \E k \in 1 .. MaxCall : SubSeq(b, 1, HeadLen) = SubSeq(Frame(e, k), 1, HeadLen)
  THEN {BodyLen} ELSE 0 .. MaxGarbage

Init ==
  /\ call = 0 /\ pc = [e \in Ends |-> IF e = "server" THEN "recv" ELSE "idle"]
  /\ wire = [e \in Ends |-> << >>] /\ buf = [e \in Ends |-> << >>]
  /\ cur = [e \in Ends |-> 0] /\ tries = [e \in Ends |-> 0]
  /\ open = TRUE /\ dealt = << >> /\ got = << >> /\ gaveUp = FALSE

(* recvPack begins: _curpacklen = 0, tryindex = 0. *)
Restarted(f, e) == [f EXCEPT ![e] = 0]

-----------------------------------------------------------------------------
(* recvPack has returned a pack, or nothing; e goes on. *)

(* clientEntry: another sequence number is only warned of. *)
ClientGets(r) ==
  /\ pc' = [pc EXCEPT !["client"] = "idle"]
  /\ got' = Append(got, r)
  /\ gaveUp' = (gaveUp \/ r = Nothing)
  /\ UNCHANGED << open, dealt >>

(* _serverEntry: dealmsg, or the end of the connection. *)
ServerGets(r) ==
  /\ IF r = Nothing
     THEN open' = FALSE /\ pc' = [pc EXCEPT !["server"] = "over"] /\ UNCHANGED dealt
     ELSE dealt' = Append(dealt, r) /\ pc' = [pc EXCEPT !["server"] = "deal"] /\ UNCHANGED open
  /\ UNCHANGED << got, gaveUp >>

(* unpack asserts that a pack has the right main command: garbage ends the  *)
(* process, unless it happens to have it.                                   *)
Aborts(e) ==
  /\ pc' = [pc EXCEPT ![e] = "over"] /\ open' = FALSE
  /\ UNCHANGED << dealt, got, gaveUp >>

Gets(e, r) ==
  \/ IF e = "client" THEN ClientGets(r) ELSE ServerGets(r)
  \/ r = Garbled /\ Aborts(e)
GoesOn == UNCHANGED << pc, open, dealt, got, gaveUp >>

Rest(b, n) == SubSeq(b, n + 1, Len(b))

AfterPack_Cleared(b, n) == << >>
(* _recvbuf.erase of a pack that is complete. *)
AfterPack(b, n) == Rest(b, n)

(* tryindex++ < retrycount fails the next time. *)
LastTurn(e) == tries[e] + 1 = Reads[e]

Complete_Strict(b, n) == n > 0 /\ Len(b) > n
(* _curpacklen>0 && _recvbuf.size() >= _curpacklen *)
Complete(b, n) == n > 0 /\ Len(b) >= n

(* One turn of recvPack's loop with b in _recvbuf: the length is parsed if  *)
(* it is not known, the pack is taken if it is complete, and after the last *)
(* turn recvPack returns without one.                                       *)
Split(e, b) ==
  \E h \in IF cur[e] = 0 /\ Len(b) >= HeadLen THEN {HeadLen} ELSE {0} :
  \E n \in IF h = 0 THEN {cur[e]} ELSE Lengths(e, b) :
    LET b1 == Rest(b, h)
    IN  IF Complete(b1, n)
        THEN /\ Gets(e, Meaning(e, SubSeq(b1, 1, n)))
             /\ buf' = [buf EXCEPT ![e] = AfterPack(b1, n)]
             /\ cur' = Restarted(cur, e) /\ tries' = Restarted(tries, e)
        ELSE /\ buf' = [buf EXCEPT ![e] = b1]
             /\ IF LastTurn(e)
                THEN Gets(e, Nothing) /\ cur' = Restarted(cur, e) /\ tries' = Restarted(tries, e)
                ELSE GoesOn /\ cur' = [cur EXCEPT ![e] = n] /\ tries' = [tries EXCEPT ![e] = @ + 1]

(* async_read_some: some of what is there. *)
Read(e) ==
  /\ pc[e] = "recv" /\ wire[e] # << >>
  /\ \E n \in 1 .. Len(wire[e]) :
       /\ Split(e, buf[e] \o SubSeq(wire[e], 1, n))
       /\ wire' = [wire EXCEPT ![e] = Rest(@, n)]
  /\ UNCHANGED call

(* It throws: with nothing in _recvbuf recvPack returns, otherwise its loop *)
(* goes on with what is there.                                              *)
ReadFails(e) ==
  /\ pc[e] = "recv" /\ wire[e] = << >> /\ ~ open
  /\ IF buf[e] = << >>
     THEN /\ Gets(e, Nothing)
          /\ cur' = Restarted(cur, e) /\ tries' = Restarted(tries, e)
          /\ UNCHANGED buf
     ELSE Split(e, buf[e])
  /\ UNCHANGED << call, wire >>

(* clientEntry: a new sequence number, sendPack, recvPack(3).  sendPack     *)
(* returns true whether or not it could send.                               *)
ClientEntry ==
  /\ pc["client"] = "idle" /\ call < MaxCall
  /\ call' = call + 1
  /\ pc' = [pc EXCEPT !["client"] = "recv"]
  /\ wire' = IF open THEN [wire EXCEPT !["server"] = @ \o Frame("server", call + 1)] ELSE wire
  /\ UNCHANGED << buf, cur, tries, open, dealt, got, gaveUp >>

ReplyTo_Stale == dealt[1][1]
(* pack(reqSeq(), ...): the number that the last unpack left in reqSeq().   *)
ReplyTo == dealt[Len(dealt)][1]

(* dealmsg returned a reply, with the sequence number of its request ...    *)
ServerReplies ==
  /\ pc["server"] = "deal" /\ dealt[Len(dealt)] # Garbled
  /\ pc' = [pc EXCEPT !["server"] = "recv"]
  /\ wire' = IF open THEN [wire EXCEPT !["client"] = @ \o Frame("client", ReplyTo)] ELSE wire
  /\ UNCHANGED << call, buf, cur, tries, open, dealt, got, gaveUp >>

(* ... or nothing (it found no function, or an empty answer): the loop ends *)
(* and the socket goes with the channel.                                    *)
ServerLeaves ==
  /\ pc["server"] = "deal"
  /\ pc' = [pc EXCEPT !["server"] = "over"] /\ open' = FALSE
  /\ UNCHANGED << call, wire, buf, cur, tries, dealt, got, gaveUp >>

(* The connection is lost, and what was on its way with it. *)
Lose ==
  /\ open /\ open' = FALSE
  /\ wire' = [e \in Ends |-> << >>]
  /\ UNCHANGED << call, pc, buf, cur, tries, dealt, got, gaveUp >>

Next ==
  \/ ClientEntry \/ ServerReplies \/ ServerLeaves \/ Lose
  \/ \E e \in Ends : Read(e) \/ ReadFails(e)

Fairness ==
  /\ \A e \in Ends : WF_vars(Read(e) \/ ReadFails(e))
  /\ WF_vars(ServerReplies \/ ServerLeaves)

Spec == Init /\ [][Next]_vars /\ Fairness

-----------------------------------------------------------------------------
(* The server's recvPack never loses the boundary between packs: it deals   *)
(* with requests 1, 2, 3, ... and nothing else, however reads cut the       *)
(* stream and whatever its client has given up.                             *)
ServerInOrder == \A j \in DOMAIN dealt : dealt[j] = Unpacked(j)

(* Until a recvPack of the client has ended without a pack, each call of    *)
(* clientEntry returns the reply to its own request.  Afterwards nothing is *)
(* promised: the rest of the late reply is taken for the next one.          *)
InStep == ~ gaveUp => \A k \in DOMAIN got : got[k] = Unpacked(k)

(* Every call of clientEntry returns, unless an earlier one gave up.        *)
CallReturns == pc["client"] = "recv" ~> (pc["client"] = "idle" \/ gaveUp)

=============================================================================
