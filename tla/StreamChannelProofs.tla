------------------------ MODULE StreamChannelProofs ------------------------
(***************************************************************************)
(* Theorems about the older stream stack, for every number of calls, every *)
(* length of head and body and every number of reads: the server's         *)
(* recvPack keeps the boundaries of the packs, and the client's does until *)
(* it has given up once.                                                   *)
(*                                                                         *)
(* Both follow from where in the stream an end is.  The words an end has   *)
(* or is going to have are its _recvbuf and what is on the wire, and they  *)
(* begin Used(e) words into the stream of frames 1, 2, 3, ...; so a read   *)
(* may cut anywhere, and recvPack may take a head in one turn and its body *)
(* in another.                                                             *)
(***************************************************************************)
EXTENDS StreamChannel, TLAPS

FrameLen == HeadLen + BodyLen

(* The words in front of frame k of a stream. *)
Pos(k) == (k - 1) * FrameLen

Words == [to : Ends, of : Nat, i : Nat]

(* The words of s are those of the stream to e after its first u words. *)
InPlace(e, s, u) ==
  \A j \in 1 .. Len(s), k \in 1 .. MaxCall, i \in 1 .. FrameLen :
    j + u = Pos(k) + i => s[j] = Word(e, k, i)

(* The packs that e has taken from its stream, and those put into it. *)
Taken(e) == IF e = "server" THEN Len(dealt) ELSE Len(got)
Sent(e) ==
  IF e = "server" THEN call
  ELSE IF pc["server"] = "deal" THEN Len(dealt) - 1 ELSE Len(dealt)

HeadTaken(n) == IF n = 0 THEN 0 ELSE HeadLen

(* The words that e has taken from its stream. *)
Used(e) == Pos(Taken(e) + 1) + HeadTaken(cur[e])

(* While this holds, e still reads its stream from the start of a pack on. *)
Live(e) == pc[e] # "over" /\ (e = "client" => ~ gaveUp)

Aligned(e) ==
  /\ cur[e] \in {0, BodyLen}
  /\ InPlace(e, buf[e] \o wire[e], Used(e))
  /\ Len(buf[e]) + Len(wire[e]) + Used(e) <= Pos(Sent(e) + 1)
  /\ open => Len(buf[e]) + Len(wire[e]) + Used(e) = Pos(Sent(e) + 1)

(* Every variable of the two ends has its type. *)
StreamTyped ==
  /\ call \in 0 .. MaxCall
  /\ pc \in [Ends -> {"idle", "recv", "deal", "over"}]
  /\ wire \in [Ends -> Seq(Words)] /\ buf \in [Ends -> Seq(Words)]
  /\ cur \in [Ends -> Nat] /\ tries \in [Ends -> Nat]
  /\ open \in BOOLEAN /\ gaveUp \in BOOLEAN
  /\ dealt \in Seq(Seq(Nat)) /\ got \in Seq(Seq(Nat))

Placed ==
  /\ Len(dealt) <= call
  /\ pc["server"] = "deal" => Len(dealt) > 0
  /\ open => pc["server"] # "over"

StreamInv ==
  /\ StreamTyped /\ Placed
  /\ ServerInOrder /\ InStep
  /\ \A e \in Ends : Live(e) => Aligned(e)

-----------------------------------------------------------------------------
(* Places in a stream. *)

LEMMA PosFacts ==
  /\ FrameLen \in Nat /\ FrameLen > HeadLen /\ FrameLen = HeadLen + BodyLen
  /\ Pos(1) = 0
  /\ \A k \in Nat : Pos(k) \in Int /\ Pos(k + 1) = Pos(k) + FrameLen
  /\ \A k \in Nat : Pos(k + 1) \in Nat
PROOF
  <1>1. FrameLen \in Nat /\ FrameLen > HeadLen /\ FrameLen = HeadLen + BodyLen
    BY StreamAssumption DEF FrameLen
  <1>2. Pos(1) = 0
    BY <1>1 DEF Pos
  <1>3. ASSUME NEW k \in Nat PROVE Pos(k) \in Int /\ Pos(k + 1) = Pos(k) + FrameLen
    <2>1. k * FrameLen = (k - 1) * FrameLen + FrameLen
      BY <1>1
    <2>2. (k + 1) - 1 = k
      OBVIOUS
    <2> QED
      BY <1>1, <2>1, <2>2 DEF Pos
  <1>4. ASSUME NEW k \in Nat PROVE Pos(k + 1) \in Nat
    <2>1. k * FrameLen \in Nat
      BY <1>1
    <2> QED
      BY <2>1 DEF Pos
  <1> QED
    BY <1>1, <1>2, <1>3, <1>4

(* A later frame begins behind the end of an earlier one. *)
LEMMA PosOrder ==
  ASSUME NEW k \in Nat, NEW l \in Nat, k < l
  PROVE  Pos(k) + FrameLen <= Pos(l)
PROOF
  <1> DEFINE d == l - k - 1
  <1>1. d \in Nat /\ FrameLen \in Nat
    BY PosFacts
  <1>2. d * FrameLen >= 0
    BY <1>1
  <1>3. (l - 1) * FrameLen = (k - 1) * FrameLen + FrameLen + d * FrameLen
    <2>1. l - 1 = (k - 1) + 1 + d
      BY <1>1
    <2>2. ((k - 1) + 1 + d) * FrameLen = (k - 1) * FrameLen + FrameLen + d * FrameLen
      BY <1>1
    <2> QED
      BY <2>1, <2>2
  <1>4. (k - 1) * FrameLen \in Int /\ d * FrameLen \in Int
    BY <1>1
  <1> QED
    BY <1>1, <1>2, <1>3, <1>4 DEF Pos

(* A word is in one frame at one place. *)
LEMMA PosUnique ==
  ASSUME NEW k \in Nat, NEW l \in Nat, NEW i \in 1 .. FrameLen, NEW j \in 1 .. FrameLen,
         Pos(k) + i = Pos(l) + j
  PROVE  k = l /\ i = j
PROOF
  <1>1. FrameLen \in Nat /\ Pos(k) \in Int /\ Pos(l) \in Int
    BY PosFacts
  <1>2. ~ k < l
    BY <1>1, PosOrder
  <1>3. ~ l < k
    <2>1. l < k => Pos(l) + FrameLen <= Pos(k)
      BY PosOrder
    <2> QED
      BY <1>1, <2>1
  <1>4. k = l
    BY <1>2, <1>3
  <1> QED
    BY <1>1, <1>4

LEMMA FrameFacts ==
  ASSUME NEW e \in Ends, NEW k \in Nat
  PROVE  /\ Frame(e, k) \in Seq(Words) /\ Len(Frame(e, k)) = FrameLen
         /\ \A i \in 1 .. FrameLen : Frame(e, k)[i] = Word(e, k, i)
PROOF
  <1>1. FrameLen \in Nat
    BY PosFacts
  <1>2. \A i \in 1 .. FrameLen : Word(e, k, i) \in Words
    BY <1>1 DEF Word, Words
  <1>3. Frame(e, k) = [i \in 1 .. FrameLen |-> Word(e, k, i)]
    BY DEF Frame, FrameLen
  <1>4. Frame(e, k) \in [1 .. FrameLen -> Words]
    BY <1>2, <1>3
  <1>5. Frame(e, k) \in Seq(Words)
    BY <1>1, <1>4
  <1>6. Len(Frame(e, k)) = FrameLen
    BY <1>1, <1>3, <1>5
  <1> QED
    BY <1>3, <1>5, <1>6

LEMMA RestFacts ==
  ASSUME NEW S, NEW s \in Seq(S), NEW n \in 0 .. Len(s)
  PROVE  /\ Rest(s, n) \in Seq(S) /\ Len(Rest(s, n)) = Len(s) - n
         /\ \A j \in 1 .. Len(s) - n : Rest(s, n)[j] = s[j + n]
PROOF
  <1>1. Len(s) \in Nat
    OBVIOUS
  <1>2. Rest(s, n) = SubSeq(s, n + 1, Len(s))
    BY DEF Rest
  <1>3. Rest(s, n) \in Seq(S)
    BY <1>1, <1>2
  <1>4. Len(SubSeq(s, n + 1, Len(s))) = Len(s) - n
    BY <1>1
  <1>5. \A j \in 1 .. Len(s) - n : SubSeq(s, n + 1, Len(s))[j] = s[j + n]
    BY <1>1
  <1> QED
    BY <1>2, <1>3, <1>4, <1>5

LEMMA ConcatFacts ==
  ASSUME NEW S, NEW s \in Seq(S), NEW t \in Seq(S)
  PROVE  /\ s \o t \in Seq(S) /\ Len(s \o t) = Len(s) + Len(t)
         /\ \A j \in 1 .. Len(s) : (s \o t)[j] = s[j]
         /\ \A j \in 1 .. Len(s) + Len(t) : j > Len(s) => (s \o t)[j] = t[j - Len(s)]
PROOF
  OBVIOUS

(* What is taken from the front of b is not in front of w any more. *)
LEMMA DropKeepsPlace ==
  ASSUME NEW e \in Ends, NEW b \in Seq(Words), NEW w \in Seq(Words), NEW u \in Nat,
         NEW n \in 0 .. Len(b), InPlace(e, b \o w, u)
  PROVE  InPlace(e, Rest(b, n) \o w, u + n)
PROOF
  <1> DEFINE r == Rest(b, n)
  <1>1. /\ r \in Seq(Words) /\ Len(r) = Len(b) - n
        /\ \A j \in 1 .. Len(b) - n : r[j] = b[j + n]
    BY RestFacts
  <1> HIDE DEF r
  <1> SUFFICES ASSUME NEW j \in 1 .. Len(r \o w), NEW k \in 1 .. MaxCall, NEW i \in 1 .. FrameLen,
                      j + (u + n) = Pos(k) + i
               PROVE  (r \o w)[j] = Word(e, k, i)
    BY DEF InPlace, r
  <1>2. Len(b) \in Nat /\ Len(w) \in Nat /\ Len(r \o w) = Len(r) + Len(w) /\ Len(b \o w) = Len(b) + Len(w)
    <2>1. r \in Seq(Words)
      BY <1>1
    <2>2. Len(r \o w) = Len(r) + Len(w)
      BY <2>1, ConcatFacts
    <2>3. Len(b \o w) = Len(b) + Len(w)
      BY ConcatFacts
    <2> QED
      BY <2>2, <2>3
  <1>3. j + n \in 1 .. Len(b \o w)
    BY <1>1, <1>2
  <1>4. (r \o w)[j] = (b \o w)[j + n]
    <2>1. CASE j <= Len(r)
      <3>1. (r \o w)[j] = r[j] /\ (b \o w)[j + n] = b[j + n]
        <4>1. j \in 1 .. Len(r) /\ j + n \in 1 .. Len(b)
          BY <1>1, <1>2, <2>1
        <4>2. r \in Seq(Words)
          BY <1>1
        <4> QED
          BY <4>1, <4>2, ConcatFacts
      <3>2. j \in 1 .. Len(b) - n
        BY <1>1, <1>2, <2>1
      <3>3. r[j] = b[j + n]
        BY <1>1, <3>2
      <3> QED
        BY <3>1, <3>3
    <2>2. CASE j > Len(r)
      <3>1. (r \o w)[j] = w[j - Len(r)]
        BY <1>1, <1>2, <2>2, ConcatFacts, SMTT(30)
      <3>2. (b \o w)[j + n] = w[(j + n) - Len(b)]
        BY <1>1, <1>2, <1>3, <2>2, ConcatFacts
      <3>3. j - Len(r) = (j + n) - Len(b)
        BY <1>1, <1>2
      <3> QED
        BY <3>1, <3>2, <3>3
    <2>3. j <= Len(r) \/ j > Len(r)
      <3>1. Len(r) \in Nat /\ j \in Nat
        BY <1>1
      <3> QED
        BY <3>1
    <2> QED
      BY <2>1, <2>2, <2>3
  <1>5. (j + n) + u = Pos(k) + i
    BY <1>2
  <1> QED
    BY <1>3, <1>4, <1>5 DEF InPlace

(* What is lost on the wire is missing at the end. *)
LEMMA PrefixKeepsPlace ==
  ASSUME NEW e \in Ends, NEW b \in Seq(Words), NEW w \in Seq(Words), NEW u \in Nat,
         InPlace(e, b \o w, u)
  PROVE  InPlace(e, b \o << >>, u)
PROOF
  <1>1. Len(b \o << >>) = Len(b) /\ Len(b \o w) = Len(b) + Len(w)
    OBVIOUS
  <1>2. \A j \in 1 .. Len(b) : (b \o << >>)[j] = b[j] /\ (b \o w)[j] = b[j]
    OBVIOUS
  <1> QED
    BY <1>1, <1>2 DEF InPlace

(* The next frame is put behind the words of the stream so far. *)
LEMMA FrameKeepsPlace ==
  ASSUME NEW e \in Ends, NEW b \in Seq(Words), NEW w \in Seq(Words), NEW u \in Nat,
         NEW m \in Nat, Len(b) + Len(w) + u = Pos(m), InPlace(e, b \o w, u)
  PROVE  InPlace(e, b \o (w \o Frame(e, m)), u)
PROOF
  <1> DEFINE f == Frame(e, m)
  <1>1. f \in Seq(Words) /\ Len(f) = FrameLen /\ \A i \in 1 .. FrameLen : f[i] = Word(e, m, i)
    BY FrameFacts
  <1> HIDE DEF f
  <1>2. FrameLen \in Nat /\ Pos(m) \in Int
    BY PosFacts
  <1> SUFFICES ASSUME NEW j \in 1 .. Len(b \o (w \o f)), NEW k \in 1 .. MaxCall,
                      NEW i \in 1 .. FrameLen, j + u = Pos(k) + i
               PROVE  (b \o (w \o f))[j] = Word(e, k, i)
    BY DEF InPlace, f
  <1>3. /\ Len(b) \in Nat /\ Len(w) \in Nat /\ Len(b \o w) = Len(b) + Len(w)
        /\ Len(b \o (w \o f)) = Len(b) + Len(w) + FrameLen /\ j \in Nat
    <2>1. w \o f \in Seq(Words) /\ Len(w \o f) = Len(w) + FrameLen
      BY <1>1, ConcatFacts
    <2>2. Len(b \o (w \o f)) = Len(b) + Len(w \o f) /\ Len(b \o w) = Len(b) + Len(w)
      BY <2>1, ConcatFacts
    <2> QED
      BY <1>2, <2>1, <2>2
  <1>4. CASE j <= Len(b) + Len(w)
    <2>1. (b \o (w \o f))[j] = (b \o w)[j]
      BY <1>1, <1>3, <1>4
    <2> QED
      BY <1>3, <1>4, <2>1 DEF InPlace
  <1>5. CASE j > Len(b) + Len(w)
    <2> DEFINE x == j - (Len(b) + Len(w))
    <2>1. x \in 1 .. FrameLen
      BY <1>2, <1>3, <1>5
    <2>2. (b \o (w \o f))[j] = f[x]
      <3>1. w \o f \in Seq(Words) /\ Len(w \o f) = Len(w) + FrameLen
        BY <1>1, ConcatFacts
      <3>2. (b \o (w \o f))[j] = (w \o f)[j - Len(b)]
        <4>1. \A h \in 1 .. Len(b) + Len(w \o f) :
                h > Len(b) => (b \o (w \o f))[h] = (w \o f)[h - Len(b)]
          BY <3>1, ConcatFacts
        <4>2. j \in 1 .. Len(b) + Len(w \o f) /\ j > Len(b)
          BY <1>2, <1>3, <1>5, <3>1
        <4> QED
          BY <4>1, <4>2
      <3>3. j - Len(b) \in 1 .. Len(w) + FrameLen /\ j - Len(b) > Len(w) /\ (j - Len(b)) - Len(w) = x
        BY <1>2, <1>3, <1>5
      <3>4. (w \o f)[j - Len(b)] = f[(j - Len(b)) - Len(w)]
        BY <1>1, <3>3, ConcatFacts
      <3> QED
        BY <3>2, <3>3, <3>4
    <2>3. Pos(m) + x = Pos(k) + i
      BY <1>2, <1>3
    <2> HIDE DEF x
    <2>4. k \in Nat
      BY StreamAssumption
    <2>5. m = k /\ x = i
      BY <2>1, <2>3, <2>4, PosUnique
    <2> QED
      BY <1>1, <2>1, <2>2, <2>5
  <1> QED
    BY <1>3, <1>4, <1>5

(* n words of b, as a piece of the frame they are in. *)
LEMMA PieceInPlace ==
  ASSUME NEW e \in Ends, NEW b \in Seq(Words), NEW w \in Seq(Words), NEW u \in Nat,
         InPlace(e, b \o w, u), NEW k \in 1 .. MaxCall,
         NEW from \in Nat, NEW n \in Nat, u = Pos(k) + from, from + n <= FrameLen, n <= Len(b)
  PROVE  SubSeq(b, 1, n) = SubSeq(Frame(e, k), from + 1, from + n)
PROOF
  <1>1. k \in Nat /\ FrameLen \in Nat /\ Pos(k) \in Int /\ Len(b) \in Nat
    BY StreamAssumption, PosFacts
  <1> DEFINE f == Frame(e, k)
             p == SubSeq(b, 1, n)
             q == SubSeq(f, from + 1, from + n)
  <1>2. f \in Seq(Words) /\ Len(f) = FrameLen /\ \A i \in 1 .. FrameLen : f[i] = Word(e, k, i)
    BY <1>1, FrameFacts
  <1> HIDE DEF f
  <1>3. p \in Seq(Words) /\ Len(p) = n /\ \A j \in 1 .. n : p[j] = b[j]
    BY <1>1
  <1>4. q \in Seq(Words) /\ Len(q) = n /\ \A j \in 1 .. n : q[j] = f[from + j]
    BY <1>1, <1>2
  <1>5. ASSUME NEW j \in 1 .. n PROVE p[j] = q[j]
    <2>1. j \in 1 .. Len(b) /\ j \in 1 .. Len(b \o w) /\ (b \o w)[j] = b[j]
      BY <1>1
    <2>2. from + j \in 1 .. FrameLen /\ j + u = Pos(k) + (from + j)
      BY <1>1
    <2>3. (b \o w)[j] = Word(e, k, from + j)
      BY <2>1, <2>2 DEF InPlace
    <2> QED
      BY <1>2, <1>3, <1>4, <2>1, <2>2, <2>3
  <1> HIDE DEF p, q
  <1>6. p = q
    BY <1>3, <1>4, <1>5
  <1> QED
    BY <1>6 DEF p, q, f

-----------------------------------------------------------------------------
(* One turn of recvPack at an end that still knows where it is.  w is what  *)
(* the turn left on the wire.                                               *)

(* The turn took the next pack, ... *)
TookPack(e, w) ==
  \E b \in Seq(Words) :
    /\ Gets(e, Unpacked(Taken(e) + 1)) /\ Taken(e) < Sent(e)
    /\ buf' = [buf EXCEPT ![e] = b] /\ cur' = [cur EXCEPT ![e] = 0]
    /\ InPlace(e, b \o w, Pos(Taken(e) + 2))
    /\ Len(b) + Len(w) + Pos(Taken(e) + 2) = Len(buf[e]) + Len(wire[e]) + Used(e)

(* ... was the last one, ... *)
TookNothing(e) ==
  \E b \in Seq(Words) :
    Gets(e, Nothing) /\ buf' = [buf EXCEPT ![e] = b] /\ cur' = [cur EXCEPT ![e] = 0]

(* ... or went on, with a head taken or not. *)
TookHead(e, w) ==
  \E b \in Seq(Words), n \in {0, BodyLen} :
    /\ GoesOn
    /\ buf' = [buf EXCEPT ![e] = b] /\ cur' = [cur EXCEPT ![e] = n]
    /\ InPlace(e, b \o w, Pos(Taken(e) + 1) + HeadTaken(n))
    /\ Len(b) + Len(w) + (Pos(Taken(e) + 1) + HeadTaken(n)) = Len(buf[e]) + Len(wire[e]) + Used(e)

LEMMA TakenFacts ==
  ASSUME StreamInv, NEW e \in Ends
  PROVE  /\ Taken(e) \in Nat /\ Sent(e) \in 0 .. MaxCall
         /\ Pos(Taken(e) + 1) \in Nat
         /\ Pos(Taken(e) + 2) = Pos(Taken(e) + 1) + FrameLen
         /\ HeadTaken(cur[e]) \in Nat /\ Used(e) = Pos(Taken(e) + 1) + HeadTaken(cur[e])
         /\ Used(e) \in Nat
PROOF
  <1>1. Len(dealt) \in Nat /\ Len(got) \in Nat /\ call \in 0 .. MaxCall /\ cur[e] \in Nat
    BY DEF StreamInv, StreamTyped
  <1>2. Taken(e) \in Nat
    BY <1>1 DEF Taken
  <1>3. Sent(e) \in 0 .. MaxCall
    BY <1>1, StreamAssumption DEF Sent, StreamInv, Placed
  <1>4. Pos(Taken(e) + 1) \in Nat
    BY <1>2, PosFacts
  <1>5. Pos(Taken(e) + 2) = Pos(Taken(e) + 1) + FrameLen
    <2>1. Taken(e) + 1 \in Nat /\ (Taken(e) + 1) + 1 = Taken(e) + 2
      BY <1>2
    <2>2. Pos((Taken(e) + 1) + 1) = Pos(Taken(e) + 1) + FrameLen
      BY <2>1, PosFacts
    <2> QED
      BY <2>1, <2>2
  <1>6. HeadTaken(cur[e]) \in Nat
    BY StreamAssumption DEF HeadTaken
  <1> QED
    BY <1>2, <1>3, <1>4, <1>5, <1>6 DEF Used

LEMMA SizeFacts ==
  ASSUME StreamTyped, NEW e \in Ends
  PROVE  /\ buf[e] \in Seq(Words) /\ wire[e] \in Seq(Words)
         /\ Len(buf[e]) \in Nat /\ Len(wire[e]) \in Nat
PROOF
  <1>1. buf[e] \in Seq(Words) /\ wire[e] \in Seq(Words)
    BY DEF StreamTyped
  <1> QED
    BY <1>1

(* Words that are there belong to a frame that was sent. *)
LEMMA MoreWasSent ==
  ASSUME StreamInv, NEW e \in Ends, Aligned(e),
         HeadTaken(cur[e]) + Len(buf[e]) + Len(wire[e]) > 0
  PROVE  Taken(e) < Sent(e) /\ Taken(e) + 1 \in 1 .. MaxCall
PROOF
  <1>1. Taken(e) \in Nat /\ Sent(e) \in 0 .. MaxCall /\ Pos(Taken(e) + 1) \in Nat
    BY TakenFacts
  <1>2. Len(buf[e]) \in Nat /\ Len(wire[e]) \in Nat /\ HeadTaken(cur[e]) \in Nat
    BY TakenFacts, SizeFacts DEF StreamInv
  <1>3. Pos(Taken(e) + 1) < Pos(Sent(e) + 1)
    <2>1. Pos(Sent(e) + 1) \in Nat
      <3>1. Sent(e) \in Nat
        BY <1>1, StreamAssumption
      <3> QED
        BY <3>1, PosFacts
    <2>2. Len(buf[e]) + Len(wire[e]) + (Pos(Taken(e) + 1) + HeadTaken(cur[e])) <= Pos(Sent(e) + 1)
      BY DEF Aligned, Used
    <2> DEFINE lb == Len(buf[e])
               lw == Len(wire[e])
               x == Pos(Taken(e) + 1)
               y == Pos(Sent(e) + 1)
               h == HeadTaken(cur[e])
    <2>3. lb \in Nat /\ lw \in Nat /\ x \in Nat /\ y \in Nat /\ h \in Nat
      BY <1>1, <1>2, <2>1
    <2>4. h + lb + lw > 0 /\ lb + lw + (x + h) <= y
      BY <2>2
    <2> HIDE DEF lb, lw, x, y, h
    <2>5. x < y
      BY <2>3, <2>4
    <2> QED
      BY <2>5 DEF x, y
  <1>4. Sent(e) \in Nat /\ Pos(Sent(e) + 1) \in Nat /\ FrameLen \in Nat
    <2>1. Sent(e) \in Nat
      BY <1>1, StreamAssumption
    <2> QED
      BY <2>1, PosFacts
  <1>5. Sent(e) + 1 # Taken(e) + 1
    BY <1>3, <1>4
  <1>6. ~ Sent(e) + 1 < Taken(e) + 1
    <2>1. Sent(e) + 1 < Taken(e) + 1 => Pos(Sent(e) + 1) + FrameLen <= Pos(Taken(e) + 1)
      BY <1>1, <1>4, PosOrder
    <2> QED
      BY <1>1, <1>3, <1>4, <2>1
  <1> QED
    BY <1>1, <1>4, <1>5, <1>6, StreamAssumption

LEMMA TurnOfRecvPack ==
  ASSUME StreamInv, NEW e \in Ends, Aligned(e),
         NEW b \in Seq(Words), NEW w \in Seq(Words),
         InPlace(e, b \o w, Used(e)),
         Len(b) + Len(w) = Len(buf[e]) + Len(wire[e]),
         Split(e, b)
  PROVE  TookPack(e, w) \/ TookNothing(e) \/ TookHead(e, w)
PROOF
  <1> DEFINE c == Taken(e)
             u == Used(e)
  <1>1. /\ c \in Nat /\ Pos(c + 1) \in Nat /\ Pos(c + 2) = Pos(c + 1) + FrameLen
        /\ u = Pos(c + 1) + HeadTaken(cur[e]) /\ u \in Nat
    BY TakenFacts
  <1>2. /\ FrameLen \in Nat /\ FrameLen = HeadLen + BodyLen
        /\ HeadLen \in Nat /\ HeadLen > 0 /\ BodyLen \in Nat /\ BodyLen > 0
    BY PosFacts, StreamAssumption
  <1>3. /\ Len(b) \in Nat /\ Len(w) \in Nat /\ Len(buf[e]) \in Nat /\ Len(wire[e]) \in Nat
        /\ cur[e] \in {0, BodyLen}
    BY SizeFacts DEF StreamInv, Aligned
  <1> DEFINE lb == Len(buf[e])
             lw == Len(wire[e])
  <1>b. lb \in Nat /\ lw \in Nat /\ Len(b) + Len(w) = lb + lw
    BY <1>3
  <1> HIDE DEF lb, lw
  <1> HIDE DEF c, u
  <1> DEFINE Turn(h, n) ==
        LET b1 == Rest(b, h)
        IN  IF Complete(b1, n)
            THEN /\ Gets(e, Meaning(e, SubSeq(b1, 1, n)))
                 /\ buf' = [buf EXCEPT ![e] = AfterPack(b1, n)]
                 /\ cur' = Restarted(cur, e) /\ tries' = Restarted(tries, e)
            ELSE /\ buf' = [buf EXCEPT ![e] = b1]
                 /\ IF LastTurn(e)
                    THEN Gets(e, Nothing) /\ cur' = Restarted(cur, e) /\ tries' = Restarted(tries, e)
                    ELSE GoesOn /\ cur' = [cur EXCEPT ![e] = n] /\ tries' = [tries EXCEPT ![e] = @ + 1]
  <1>a. PICK h \in (IF cur[e] = 0 /\ Len(b) >= HeadLen THEN {HeadLen} ELSE {0}) :
          \E n \in (IF h = 0 THEN {cur[e]} ELSE Lengths(e, b)) : Turn(h, n)
    BY DEF Split
  <1>4. PICK n \in (IF h = 0 THEN {cur[e]} ELSE Lengths(e, b)) : Turn(h, n)
    BY <1>a
  <1> HIDE DEF Turn
  <1> DEFINE b1 == Rest(b, h)
  <1>5. h \in 0 .. Len(b) /\ h \in Nat
    BY <1>2, <1>3
  <1>6. b1 \in Seq(Words) /\ Len(b1) = Len(b) - h
    BY <1>5, RestFacts
  <1>7. InPlace(e, b1 \o w, u + h)
    BY <1>1, <1>5, DropKeepsPlace DEF u
  (* The head, if it is there, is that of the next pack. *)
  <1>8. n \in {0, BodyLen} /\ u + h = Pos(c + 1) + HeadTaken(n)
    <2>1. CASE h = 0
      <3>1. n = cur[e]
        BY <2>1
      <3> QED
        BY <1>1, <1>3, <2>1, <3>1
    <2>2. CASE h # 0
      <3>1. h = HeadLen /\ cur[e] = 0 /\ Len(b) >= HeadLen
        BY <2>2
      <3>2. c + 1 \in 1 .. MaxCall
        <4>1. HeadTaken(cur[e]) = 0 /\ lb + lw > 0
          BY <1>2, <1>3, <1>b, <3>1 DEF HeadTaken
        <4>2. HeadTaken(cur[e]) + lb + lw > 0
          BY <1>b, <4>1
        <4> QED
          BY <4>2, MoreWasSent DEF c, lb, lw
      <3>3. u = Pos(c + 1) + 0
        BY <1>1, <3>1 DEF HeadTaken
      <3>4. SubSeq(b, 1, HeadLen) = SubSeq(Frame(e, c + 1), 0 + 1, 0 + HeadLen)
        <4>1. InPlace(e, b \o w, u) /\ 0 + HeadLen <= FrameLen /\ 0 \in Nat
          BY <1>2 DEF u
        <4> QED
          BY <1>1, <1>2, <3>1, <3>2, <3>3, <4>1, PieceInPlace
      <3>5. 0 + 1 = 1 /\ 0 + HeadLen = HeadLen
        BY <1>2
      <3>6. SubSeq(b, 1, HeadLen) = SubSeq(Frame(e, c + 1), 1, HeadLen)
        BY <3>4, <3>5
      <3>7. n = BodyLen
        BY <2>2, <3>2, <3>6 DEF Lengths
      <3> QED
        BY <1>1, <1>2, <3>1, <3>3, <3>7 DEF HeadTaken
    <2> QED
      BY <2>1, <2>2
  <1> HIDE DEF b1
  <1>9. CASE Complete(b1, n)
    <2>1. n = BodyLen /\ Len(b1) >= BodyLen
      BY <1>2, <1>8, <1>9 DEF Complete
    <2>2. u + h = Pos(c + 1) + HeadLen
      BY <1>2, <1>8, <2>1 DEF HeadTaken
    <2>3. c < Sent(e) /\ c + 1 \in 1 .. MaxCall
      <3>1. HeadTaken(cur[e]) + lb + lw > 0
        <4>1. Len(b) > 0
          BY <1>2, <1>3, <1>5, <1>6, <2>1
        <4>2. HeadTaken(cur[e]) \in Nat
          BY <1>2 DEF HeadTaken
        <4> QED
          BY <1>3, <1>b, <4>1, <4>2
      <3> QED
        BY <3>1, MoreWasSent DEF c, lb, lw
    <2>4. SubSeq(b1, 1, BodyLen) = SubSeq(Frame(e, c + 1), HeadLen + 1, HeadLen + BodyLen)
      <3>1. u + h \in Nat
        BY <1>1, <1>5
      <3> QED
        BY <1>2, <1>6, <1>7, <2>1, <2>2, <2>3, <3>1, PieceInPlace
    <2>5. Meaning(e, SubSeq(b1, 1, n)) = Unpacked(c + 1)
      <3> DEFINE ws == SubSeq(b1, 1, BodyLen)
                 f == Frame(e, c + 1)
      <3>1. f \in Seq(Words) /\ Len(f) = FrameLen /\ \A i \in 1 .. FrameLen : f[i] = Word(e, c + 1, i)
        BY <1>1, FrameFacts
      <3> HIDE DEF f
      <3>2. SubSeq(f, HeadLen + 1, HeadLen + BodyLen)[1] = f[HeadLen + 1]
        BY <1>2, <3>1
      <3>3. f[HeadLen + 1] = Word(e, c + 1, HeadLen + 1)
        BY <1>2, <3>1
      <3>4. ws[1] = Word(e, c + 1, HeadLen + 1)
        BY <2>4, <3>2, <3>3 DEF f
      <3>5. ws[1].of = c + 1
        <4>1. Word(e, c + 1, HeadLen + 1).of = c + 1
          BY DEF Word
        <4> HIDE DEF ws
        <4> QED
          BY <3>4, <4>1
      <3> QED
        BY <2>1, <2>3, <2>4, <3>5 DEF Meaning
    <2> DEFINE b2 == Rest(b1, n)
    <2>6. b2 \in Seq(Words) /\ Len(b2) = Len(b1) - n
      <3>1. Len(b1) \in Nat
        BY <1>6
      <3>2. n \in 0 .. Len(b1)
        BY <1>2, <2>1, <3>1
      <3> QED
        BY <1>6, <3>2, RestFacts
    <2>7. InPlace(e, b2 \o w, (u + h) + n)
      BY <1>1, <1>2, <1>5, <1>6, <1>7, <2>1, DropKeepsPlace, SMTT(30)
    <2>8. (u + h) + n = Pos(c + 2)
      BY <1>1, <1>2, <2>1, <2>2
    <2>9. /\ Gets(e, Unpacked(c + 1))
          /\ buf' = [buf EXCEPT ![e] = b2] /\ cur' = [cur EXCEPT ![e] = 0]
      BY <1>4, <1>9, <2>5 DEF Turn, b1, AfterPack, Restarted
    <2>10. Len(b2) + Len(w) + Pos(c + 2) = lb + lw + u
      <3>1. Len(b2) = (Len(b) - h) - n
        BY <1>6, <2>6
      <3> HIDE DEF b2
      <3> QED
        <4>1. Pos(c + 2) = (u + h) + n /\ u \in Nat /\ h \in Nat /\ n \in Nat
          BY <1>1, <1>2, <1>5, <2>1, <2>8
        <4>2. Len(b) \in Nat /\ Len(w) \in Nat
          BY <1>3
        <4>3. Len(b2) + Len(w) + ((u + h) + n) = Len(b) + Len(w) + u
          BY <3>1, <4>1, <4>2
        <4> QED
          BY <1>b, <4>1, <4>3
    <2> HIDE DEF b2
    <2>11. TookPack(e, w)
      BY <2>3, <2>6, <2>7, <2>8, <2>9, <2>10 DEF TookPack, c, u, lb, lw
    <2> QED
      BY <2>11
  <1>10. CASE ~ Complete(b1, n)
    <2>1. buf' = [buf EXCEPT ![e] = b1]
      BY <1>4, <1>10 DEF Turn, b1
    <2>2. CASE LastTurn(e)
      <3>1. Gets(e, Nothing) /\ cur' = [cur EXCEPT ![e] = 0]
        BY <1>4, <1>10, <2>2 DEF Turn, b1, Restarted
      <3>2. TookNothing(e)
        BY <1>6, <2>1, <3>1 DEF TookNothing
      <3> QED
        BY <3>2
    <2>3. CASE ~ LastTurn(e)
      <3>1. GoesOn /\ cur' = [cur EXCEPT ![e] = n]
        BY <1>4, <1>10, <2>3 DEF Turn, b1
      <3>2. InPlace(e, b1 \o w, Pos(c + 1) + HeadTaken(n))
        BY <1>7, <1>8
      <3>3. HeadTaken(n) \in Nat
        BY <1>2 DEF HeadTaken
      <3>4. Len(b1) + Len(w) + (Pos(c + 1) + HeadTaken(n)) = lb + lw + u
        <4>1. Pos(c + 1) + HeadTaken(n) = u + h /\ Pos(c + 1) \in Nat /\ u \in Nat
          BY <1>1, <1>8
        <4>2. Len(b1) = Len(b) - h /\ Len(b) \in Nat /\ Len(w) \in Nat /\ h \in Nat
          BY <1>3, <1>5, <1>6
        <4>3. Len(b1) + Len(w) + (u + h) = Len(b) + Len(w) + u
          BY <4>1, <4>2
        <4> QED
          BY <1>b, <4>1, <4>3
      <3>5. TookHead(e, w)
        BY <1>6, <1>8, <2>1, <3>1, <3>2, <3>4 DEF TookHead, c, u, lb, lw
      <3> QED
        BY <3>5
    <2> QED
      BY <2>2, <2>3
  <1> QED
    BY <1>9, <1>10

-----------------------------------------------------------------------------
(* Types. *)

LEMMA GetsTyped ==
  ASSUME StreamTyped, NEW e \in Ends, NEW r \in Seq(Nat), Gets(e, r)
  PROVE  /\ pc' \in [Ends -> {"idle", "recv", "deal", "over"}]
         /\ open' \in BOOLEAN /\ gaveUp' \in BOOLEAN
         /\ dealt' \in Seq(Seq(Nat)) /\ got' \in Seq(Seq(Nat))
PROOF
  <1>1. CASE ClientGets(r)
    <2>1. pc' \in [Ends -> {"idle", "recv", "deal", "over"}]
      BY <1>1 DEF ClientGets, StreamTyped
    <2>2. open' \in BOOLEAN /\ gaveUp' \in BOOLEAN
      BY <1>1, Zenon DEF ClientGets, StreamTyped
    <2>3. dealt' \in Seq(Seq(Nat)) /\ got' \in Seq(Seq(Nat))
      BY <1>1 DEF ClientGets, StreamTyped
    <2> QED
      BY <2>1, <2>2, <2>3
  <1>2. CASE ServerGets(r)
    <2>1. pc' \in [Ends -> {"idle", "recv", "deal", "over"}]
      BY <1>2 DEF ServerGets, StreamTyped
    <2>2. open' \in BOOLEAN /\ gaveUp' \in BOOLEAN
      <3>1. (open' = FALSE \/ open' = open) /\ gaveUp' = gaveUp
        BY <1>2, Zenon DEF ServerGets
      <3> QED
        BY <3>1 DEF StreamTyped
    <2>3. dealt' = dealt \/ dealt' = Append(dealt, r)
      BY <1>2, Zenon DEF ServerGets
    <2>4. dealt' \in Seq(Seq(Nat)) /\ got' \in Seq(Seq(Nat))
      <3>1. got' = got /\ dealt \in Seq(Seq(Nat)) /\ got \in Seq(Seq(Nat))
        BY <1>2 DEF ServerGets, StreamTyped
      <3>2. Append(dealt, r) \in Seq(Seq(Nat))
        BY <3>1
      <3> QED
        BY <2>3, <3>1, <3>2
    <2> QED
      BY <2>1, <2>2, <2>4
  <1>3. CASE Aborts(e)
    BY <1>3 DEF Aborts, StreamTyped
  <1> QED
    BY <1>1, <1>2, <1>3 DEF Gets

LEMMA MeaningTyped ==
  ASSUME NEW e \in Ends, NEW ws \in Seq(Words), Len(ws) > 0
  PROVE  Meaning(e, ws) \in Seq(Nat)
PROOF
  <1>1. ws[1] \in Words
    OBVIOUS
  <1>2. ws[1].of \in Nat
    BY <1>1 DEF Words
  <1>3. Unpacked(ws[1].of) \in Seq(Nat) /\ Garbled \in Seq(Nat)
    BY <1>2 DEF Unpacked, Garbled
  <1> QED
    BY <1>3 DEF Meaning

LEMMA SplitTyped ==
  ASSUME StreamTyped, NEW e \in Ends, NEW b \in Seq(Words), Split(e, b)
  PROVE  /\ pc' \in [Ends -> {"idle", "recv", "deal", "over"}]
         /\ open' \in BOOLEAN /\ gaveUp' \in BOOLEAN
         /\ dealt' \in Seq(Seq(Nat)) /\ got' \in Seq(Seq(Nat))
         /\ buf' \in [Ends -> Seq(Words)] /\ cur' \in [Ends -> Nat] /\ tries' \in [Ends -> Nat]
PROOF
  <1>1. HeadLen \in Nat /\ BodyLen \in Nat /\ MaxGarbage \in Nat
    BY StreamAssumption
  <1>2. /\ buf \in [Ends -> Seq(Words)] /\ cur \in [Ends -> Nat] /\ tries \in [Ends -> Nat]
        /\ Len(b) \in Nat
    BY DEF StreamTyped
  <1> DEFINE Turn(h, n) ==
        LET b1 == Rest(b, h)
        IN  IF Complete(b1, n)
            THEN /\ Gets(e, Meaning(e, SubSeq(b1, 1, n)))
                 /\ buf' = [buf EXCEPT ![e] = AfterPack(b1, n)]
                 /\ cur' = Restarted(cur, e) /\ tries' = Restarted(tries, e)
            ELSE /\ buf' = [buf EXCEPT ![e] = b1]
                 /\ IF LastTurn(e)
                    THEN Gets(e, Nothing) /\ cur' = Restarted(cur, e) /\ tries' = Restarted(tries, e)
                    ELSE GoesOn /\ cur' = [cur EXCEPT ![e] = n] /\ tries' = [tries EXCEPT ![e] = @ + 1]
  <1>3. PICK h \in (IF cur[e] = 0 /\ Len(b) >= HeadLen THEN {HeadLen} ELSE {0}) :
          \E n \in (IF h = 0 THEN {cur[e]} ELSE Lengths(e, b)) : Turn(h, n)
    BY DEF Split
  <1>4. PICK n \in (IF h = 0 THEN {cur[e]} ELSE Lengths(e, b)) : Turn(h, n)
    BY <1>3
  <1> HIDE DEF Turn
  <1> DEFINE b1 == Rest(b, h)
  <1>5. h \in 0 .. Len(b)
    BY <1>1, <1>2
  <1>6. b1 \in Seq(Words)
    BY <1>5, RestFacts
  <1>7. n \in Nat
    <2>1. cur[e] \in Nat
      BY <1>2
    <2>2. Lengths(e, b) \subseteq Nat
      BY <1>1 DEF Lengths
    <2> QED
      BY <2>1, <2>2
  <1> HIDE DEF b1
  <1>8. CASE Complete(b1, n)
    <2> DEFINE ws == SubSeq(b1, 1, n)
    <2>1. n > 0 /\ Len(b1) >= n /\ Len(b1) \in Nat
      BY <1>6, <1>8 DEF Complete
    <2>2. ws \in Seq(Words) /\ Len(ws) > 0
      BY <1>6, <1>7, <2>1
    <2>3. Meaning(e, ws) \in Seq(Nat)
      BY <2>2, MeaningTyped
    <2>4. Rest(b1, n) \in Seq(Words)
      BY <1>6, <1>7, <2>1, RestFacts
    <2>5. /\ Gets(e, Meaning(e, ws))
          /\ buf' = [buf EXCEPT ![e] = Rest(b1, n)]
          /\ cur' = [cur EXCEPT ![e] = 0] /\ tries' = [tries EXCEPT ![e] = 0]
      BY <1>4, <1>8 DEF Turn, b1, AfterPack, Restarted
    <2> HIDE DEF ws
    <2>6. buf' \in [Ends -> Seq(Words)] /\ cur' \in [Ends -> Nat] /\ tries' \in [Ends -> Nat]
      BY <1>2, <2>4, <2>5
    <2> QED
      BY <2>3, <2>5, <2>6, GetsTyped
  <1>9. CASE ~ Complete(b1, n) /\ LastTurn(e)
    <2>1. /\ Gets(e, Nothing) /\ buf' = [buf EXCEPT ![e] = b1]
          /\ cur' = [cur EXCEPT ![e] = 0] /\ tries' = [tries EXCEPT ![e] = 0]
      BY <1>4, <1>9 DEF Turn, b1, Restarted
    <2>2. Nothing \in Seq(Nat)
      BY DEF Nothing
    <2>3. buf' \in [Ends -> Seq(Words)] /\ cur' \in [Ends -> Nat] /\ tries' \in [Ends -> Nat]
      BY <1>2, <1>6, <2>1
    <2> QED
      BY <2>1, <2>2, <2>3, GetsTyped
  <1>10. CASE ~ Complete(b1, n) /\ ~ LastTurn(e)
    <2>1. /\ GoesOn /\ buf' = [buf EXCEPT ![e] = b1]
          /\ cur' = [cur EXCEPT ![e] = n] /\ tries' = [tries EXCEPT ![e] = @ + 1]
      BY <1>4, <1>10 DEF Turn, b1
    <2>2. buf' \in [Ends -> Seq(Words)] /\ cur' \in [Ends -> Nat] /\ tries' \in [Ends -> Nat]
      BY <1>2, <1>6, <1>7, <2>1
    <2> QED
      BY <2>1, <2>2 DEF GoesOn, StreamTyped
  <1> QED
    BY <1>8, <1>9, <1>10

-----------------------------------------------------------------------------
(* The effect of a turn on the invariant. *)

(* What a step of the one end does not touch stays where it was. *)
LEMMA AlignedStays ==
  ASSUME NEW e \in Ends, Aligned(e),
         buf'[e] = buf[e], wire'[e] = wire[e], cur'[e] = cur[e],
         Taken(e)' = Taken(e), Sent(e)' = Sent(e), open' => open
  PROVE  Aligned(e)'
PROOF
  <1>1. Used(e)' = Used(e)
    BY DEF Used
  <1> QED
    BY <1>1 DEF Aligned, InPlace

(* Aligned after a step, from what the step made of e. *)
LEMMA AlignedNow ==
  ASSUME NEW e \in Ends, cur'[e] \in {0, BodyLen},
         NEW b, NEW w, NEW u, NEW v,
         buf'[e] = b, wire'[e] = w, Used(e)' = u, Sent(e)' = v,
         InPlace(e, b \o w, u), Len(b) + Len(w) + u <= Pos(v + 1),
         open' => Len(b) + Len(w) + u = Pos(v + 1)
  PROVE  Aligned(e)'
PROOF
  <1>1. InPlace(e, buf[e] \o wire[e], Used(e))'
    BY DEF InPlace
  <1>2. (Len(buf[e]) + Len(wire[e]) + Used(e) <= Pos(Sent(e) + 1))'
    OBVIOUS
  <1>3. open' => (Len(buf[e]) + Len(wire[e]) + Used(e) = Pos(Sent(e) + 1))'
    OBVIOUS
  <1> QED
    BY <1>1, <1>2, <1>3 DEF Aligned

(* An end that takes words from its stream stays in place. *)
LEMMA AlignedMoves ==
  ASSUME NEW e \in Ends, Aligned(e), cur'[e] \in {0, BodyLen},
         NEW b, NEW w, NEW u, buf'[e] = b, wire'[e] = w, Used(e)' = u, InPlace(e, b \o w, u),
         Len(b) + Len(w) + u = Len(buf[e]) + Len(wire[e]) + Used(e),
         Sent(e)' = Sent(e), open' => open
  PROVE  Aligned(e)'
PROOF
  <1>1. /\ Len(b) + Len(w) + u <= Pos(Sent(e) + 1)
        /\ open' => Len(b) + Len(w) + u = Pos(Sent(e) + 1)
    BY DEF Aligned
  <1> QED
    BY <1>1, AlignedNow

(* What a pack, the end of the reads, or a turn without either does to the  *)
(* two ends.                                                                *)
LEMMA ServerEffect ==
  ASSUME StreamTyped, NEW k \in Nat
  PROVE  /\ Gets("server", Unpacked(k)) =>
              /\ dealt' = Append(dealt, Unpacked(k)) /\ pc' = [pc EXCEPT !["server"] = "deal"]
              /\ open' = open /\ got' = got /\ gaveUp' = gaveUp
         /\ Gets("server", Nothing) =>
              /\ dealt' = dealt /\ pc' = [pc EXCEPT !["server"] = "over"]
              /\ open' = FALSE /\ got' = got /\ gaveUp' = gaveUp
PROOF
  <1>1. Unpacked(k) # Nothing /\ Unpacked(k) # Garbled /\ Nothing # Garbled
    BY DEF Unpacked, Nothing, Garbled
  <1> QED
    BY <1>1 DEF Gets, ServerGets

LEMMA ClientEffect ==
  ASSUME StreamTyped, NEW k \in Nat
  PROVE  /\ Gets("client", Unpacked(k)) =>
              /\ got' = Append(got, Unpacked(k)) /\ pc' = [pc EXCEPT !["client"] = "idle"]
              /\ open' = open /\ dealt' = dealt /\ gaveUp' = gaveUp
         /\ \A r : Gets("client", r) =>
              /\ dealt' = dealt /\ pc'["server"] = pc["server"]
              /\ (open' => open) /\ (gaveUp => gaveUp')
         /\ Gets("client", Nothing) => gaveUp'
PROOF
  <1>1. Unpacked(k) # Nothing /\ Unpacked(k) # Garbled /\ Nothing # Garbled
    BY DEF Unpacked, Nothing, Garbled
  <1>2. open \in BOOLEAN /\ gaveUp \in BOOLEAN /\ "client" # "server" /\ "server" \in Ends
    BY DEF StreamTyped, Ends
  <1>3. \A x : \A e \in Ends : e # "server" => [pc EXCEPT ![e] = x]["server"] = pc["server"]
    BY <1>2 DEF StreamTyped
  <1>4. ASSUME Gets("client", Unpacked(k))
        PROVE  /\ got' = Append(got, Unpacked(k)) /\ pc' = [pc EXCEPT !["client"] = "idle"]
               /\ open' = open /\ dealt' = dealt /\ gaveUp' = gaveUp
    <2>1. ClientGets(Unpacked(k))
      BY <1>1, <1>4 DEF Gets
    <2> QED
      BY <1>1, <1>2, <2>1, Zenon DEF ClientGets
  <1>5. ASSUME NEW r, Gets("client", r)
        PROVE  /\ dealt' = dealt /\ pc'["server"] = pc["server"]
               /\ (open' => open) /\ (gaveUp => gaveUp')
    <2>1. CASE ClientGets(r)
      BY <1>2, <1>3, <2>1, Zenon DEF ClientGets, Ends
    <2>2. CASE Aborts("client")
      BY <1>2, <1>3, <2>2, Zenon DEF Aborts, Ends
    <2> QED
      BY <1>5, <2>1, <2>2 DEF Gets
  <1>6. ASSUME Gets("client", Nothing) PROVE gaveUp'
    BY <1>1, <1>6, Zenon DEF Gets, ClientGets
  <1> QED
    BY <1>4, <1>5, <1>6

(* A turn of the server: it is where it should be, and the client's stream  *)
(* is as it was.                                                            *)
LEMMA ServerTurn ==
  ASSUME StreamInv, StreamTyped', pc["server"] = "recv",
         NEW w \in Seq(Words), wire' = [wire EXCEPT !["server"] = w], call' = call,
         Len(w) <= Len(wire["server"]),
         TookPack("server", w) \/ TookNothing("server") \/ TookHead("server", w)
  PROVE  StreamInv'
PROOF
  <1>1. /\ "server" \in Ends /\ "client" \in Ends /\ "client" # "server"
        /\ Ends = {"client", "server"}
    BY DEF Ends
  <1>2. /\ StreamTyped /\ Placed /\ ServerInOrder /\ InStep
        /\ Live("client") => Aligned("client")
        /\ Live("server") /\ Aligned("server")
    BY <1>1 DEF StreamInv, Live
  <1>3. /\ dealt \in Seq(Seq(Nat)) /\ Len(dealt) \in Nat /\ pc \in [Ends -> {"idle", "recv", "deal", "over"}]
        /\ buf \in [Ends -> Seq(Words)] /\ wire \in [Ends -> Seq(Words)] /\ cur \in [Ends -> Nat]
        /\ call \in 0 .. MaxCall
    BY <1>2 DEF StreamTyped
  <1>4. Taken("server") = Len(dealt) /\ Sent("server") = call /\ Sent("server")' = call
    BY DEF Taken, Sent
  <1>5. Sent("client") = Len(dealt)
    BY <1>1 DEF Sent
  <1>6. wire'["server"] = w /\ wire'["client"] = wire["client"]
    BY <1>1, <1>3
  (* The client sees a change of what was sent to it only. *)
  <1>7. ASSUME buf'["client"] = buf["client"], cur'["client"] = cur["client"], got' = got,
               pc'["client"] = pc["client"], gaveUp' = gaveUp, open' => open,
               Sent("client")' = Sent("client"), Live("client")'
        PROVE  Aligned("client")'
    <2>1. Live("client")
      BY <1>1, <1>7 DEF Live
    <2>2. Taken("client")' = Taken("client")
      BY <1>1, <1>7 DEF Taken
    <2> QED
      BY <1>1, <1>2, <1>6, <1>7, <2>1, <2>2, AlignedStays
  <1>8. CASE TookPack("server", w)
    <2> DEFINE c == Len(dealt)
    <2>1. PICK b \in Seq(Words) :
            /\ Gets("server", Unpacked(c + 1)) /\ c < call
            /\ buf' = [buf EXCEPT !["server"] = b] /\ cur' = [cur EXCEPT !["server"] = 0]
            /\ InPlace("server", b \o w, Pos(c + 2))
            /\ Len(b) + Len(w) + Pos(c + 2)
                 = Len(buf["server"]) + Len(wire["server"]) + Used("server")
      BY <1>4, <1>8 DEF TookPack
    <2>2. /\ dealt' = Append(dealt, Unpacked(c + 1)) /\ pc' = [pc EXCEPT !["server"] = "deal"]
          /\ open' = open /\ got' = got /\ gaveUp' = gaveUp
      <3>1. c + 1 \in Nat
        BY <1>3
      <3> QED
        BY <1>2, <2>1, <3>1, ServerEffect, Zenon
    <2>3. Unpacked(c + 1) \in Seq(Nat)
      BY <1>3 DEF Unpacked
    <2>4. Len(dealt') = c + 1 /\ pc'["server"] = "deal" /\ pc'["client"] = pc["client"]
      BY <1>1, <1>3, <2>2, <2>3
    <2>5. Placed'
      BY <1>2, <1>3, <2>1, <2>2, <2>4 DEF Placed
    <2>6. ServerInOrder'
      <3> SUFFICES ASSUME NEW j \in DOMAIN dealt' PROVE dealt'[j] = Unpacked(j)
        BY DEF ServerInOrder
      <3>1. j \in 1 .. c + 1
        BY <1>3, <2>2, <2>3, <2>4
      <3>2. CASE j = c + 1
        BY <1>3, <2>2, <2>3, <3>2
      <3>3. CASE j \in 1 .. c
        <4>1. dealt'[j] = dealt[j]
          BY <1>3, <2>2, <2>3, <3>3
        <4> QED
          BY <1>2, <1>3, <3>3, <4>1 DEF ServerInOrder
      <3> QED
        BY <1>3, <3>1, <3>2, <3>3
    <2>7. InStep'
      BY <1>2, <2>2 DEF InStep
    <2>8. Sent("client")' = Sent("client")
      BY <1>1, <1>3, <1>5, <2>4 DEF Sent
    <2>9. Live("client")' => Aligned("client")'
      <3>1. buf'["client"] = buf["client"] /\ cur'["client"] = cur["client"]
        BY <1>1, <1>3, <2>1
      <3> QED
        BY <1>7, <2>2, <2>4, <2>8, <3>1
    <2>10. Aligned("server")'
      <3>1. buf'["server"] = b /\ cur'["server"] = 0
        BY <1>1, <1>3, <2>1
      <3>2. Used("server")' = Pos(c + 2)
        <4>1. Taken("server")' + 1 = c + 2 /\ HeadTaken(cur["server"])' = 0
          BY <1>3, <2>4, <3>1 DEF Taken, HeadTaken
        <4>2. Pos(c + 2) \in Int
          BY <1>3, PosFacts
        <4> QED
          BY <4>1, <4>2 DEF Used
      <3> QED
        BY <1>1, <1>2, <1>4, <1>6, <2>1, <2>2, <3>1, <3>2, AlignedMoves
    <2> QED
      BY <1>1, <2>5, <2>6, <2>7, <2>9, <2>10 DEF StreamInv
  <1>9. CASE TookNothing("server")
    <2>1. PICK b \in Seq(Words) :
            /\ Gets("server", Nothing)
            /\ buf' = [buf EXCEPT !["server"] = b] /\ cur' = [cur EXCEPT !["server"] = 0]
      BY <1>9 DEF TookNothing
    <2>2. /\ dealt' = dealt /\ pc' = [pc EXCEPT !["server"] = "over"]
          /\ open' = FALSE /\ got' = got /\ gaveUp' = gaveUp
      BY <1>2, <2>1, ServerEffect
    <2>3. pc'["server"] = "over" /\ pc'["client"] = pc["client"]
      BY <1>1, <1>3, <2>2
    <2>4. Placed' /\ ServerInOrder' /\ InStep'
      BY <1>2, <2>2, <2>3 DEF Placed, ServerInOrder, InStep
    <2>5. Live("client")' => Aligned("client")'
      <3>1. buf'["client"] = buf["client"] /\ cur'["client"] = cur["client"]
        BY <1>1, <1>3, <2>1
      <3>2. Sent("client")' = Sent("client")
        BY <1>1, <1>5, <2>2, <2>3 DEF Sent
      <3> QED
        BY <1>7, <2>2, <2>3, <3>1, <3>2
    <2>6. ~ Live("server")'
      BY <2>3 DEF Live
    <2> QED
      BY <1>1, <2>4, <2>5, <2>6 DEF StreamInv
  <1>10. CASE TookHead("server", w)
    <2>1. PICK b \in Seq(Words), n \in {0, BodyLen} :
            /\ GoesOn
            /\ buf' = [buf EXCEPT !["server"] = b] /\ cur' = [cur EXCEPT !["server"] = n]
            /\ InPlace("server", b \o w, Pos(Len(dealt) + 1) + HeadTaken(n))
            /\ Len(b) + Len(w) + (Pos(Len(dealt) + 1) + HeadTaken(n))
                 = Len(buf["server"]) + Len(wire["server"]) + Used("server")
      BY <1>4, <1>10 DEF TookHead
    <2>2. dealt' = dealt /\ pc' = pc /\ open' = open /\ got' = got /\ gaveUp' = gaveUp
      BY <2>1 DEF GoesOn
    <2>3. Placed' /\ ServerInOrder' /\ InStep'
      BY <1>2, <2>2 DEF Placed, ServerInOrder, InStep
    <2>4. Live("client")' => Aligned("client")'
      <3>1. buf'["client"] = buf["client"] /\ cur'["client"] = cur["client"]
        BY <1>1, <1>3, <2>1
      <3>2. Sent("client")' = Sent("client")
        BY <1>1, <1>5, <2>2 DEF Sent
      <3> QED
        BY <1>7, <2>2, <3>1, <3>2
    <2>5. Aligned("server")'
      <3>1. buf'["server"] = b /\ cur'["server"] = n
        BY <1>1, <1>3, <2>1
      <3>2. Used("server")' = Pos(Len(dealt) + 1) + HeadTaken(n)
        BY <2>2, <3>1 DEF Used, Taken, HeadTaken
      <3> QED
        BY <1>1, <1>2, <1>4, <1>6, <2>1, <2>2, <3>1, <3>2, AlignedMoves
    <2> QED
      BY <1>1, <2>3, <2>4, <2>5 DEF StreamInv
  <1> QED
    BY <1>8, <1>9, <1>10

(* A turn of the client: until it has given up it is where it should be,    *)
(* and afterwards it can do the server no harm.                             *)
LEMMA ClientTurn ==
  ASSUME StreamInv, StreamTyped', pc["client"] = "recv",
         NEW w \in Seq(Words), wire' = [wire EXCEPT !["client"] = w], call' = call,
         buf'["server"] = buf["server"], cur'["server"] = cur["server"],
         \/ ~ gaveUp /\ (TookPack("client", w) \/ TookNothing("client") \/ TookHead("client", w))
         \/ gaveUp /\ (GoesOn \/ \E r : Gets("client", r))
  PROVE  StreamInv'
PROOF
  <1>1. /\ "server" \in Ends /\ "client" \in Ends /\ "client" # "server"
        /\ Ends = {"client", "server"}
    BY DEF Ends
  <1>2. /\ StreamTyped /\ Placed /\ ServerInOrder /\ InStep
        /\ Live("client") => Aligned("client")
        /\ Live("server") => Aligned("server")
    BY <1>1 DEF StreamInv
  <1>3. /\ got \in Seq(Seq(Nat)) /\ Len(got) \in Nat /\ pc \in [Ends -> {"idle", "recv", "deal", "over"}]
        /\ buf \in [Ends -> Seq(Words)] /\ wire \in [Ends -> Seq(Words)] /\ cur \in [Ends -> Nat]
    <2>1. got \in Seq(Seq(Nat))
      BY <1>2 DEF StreamTyped
    <2>2. Len(got) \in Nat
      BY <2>1
    <2> QED
      BY <1>2, <2>1, <2>2 DEF StreamTyped
  <1>4. Taken("client") = Len(got)
    BY <1>1 DEF Taken
  <1>5. wire'["client"] = w /\ wire'["server"] = wire["server"]
    BY <1>1, <1>3
  <1>6. (GoesOn \/ \E r : Gets("client", r))
          => /\ dealt' = dealt /\ pc'["server"] = pc["server"]
             /\ (open' => open) /\ (gaveUp => gaveUp')
    BY <1>2, ClientEffect DEF GoesOn
  <1>7. GoesOn \/ \E r : Gets("client", r)
    BY DEF TookPack, TookNothing, TookHead
  <1>8. /\ dealt' = dealt /\ pc'["server"] = pc["server"]
        /\ (open' => open) /\ (gaveUp => gaveUp')
    BY <1>6, <1>7
  <1>9. Placed' /\ ServerInOrder'
    BY <1>2, <1>8 DEF Placed, ServerInOrder
  <1>10. Sent("client")' = Sent("client") /\ Sent("server")' = Sent("server")
    BY <1>1, <1>8 DEF Sent
  <1>11. Live("server")' => Aligned("server")'
    <2>1. Live("server")' => Live("server")
      BY <1>1, <1>8 DEF Live
    <2>2. Taken("server")' = Taken("server")
      BY <1>8 DEF Taken
    <2> QED
      BY <1>1, <1>2, <1>5, <1>8, <1>10, <2>1, <2>2, AlignedStays
  <1>12. InStep' /\ (Live("client")' => Aligned("client")')
    <2>1. CASE gaveUp'
      <3>1. ~ Live("client")'
        BY <1>1, <2>1 DEF Live
      <3> QED
        BY <2>1, <3>1 DEF InStep
    <2>2. CASE ~ gaveUp'
      <3>1. ~ gaveUp /\ Live("client") /\ Aligned("client")
        BY <1>1, <1>2, <1>8, <2>2 DEF Live
      <3>2. CASE TookPack("client", w)
        <4> DEFINE c == Len(got)
        <4>1. PICK b \in Seq(Words) :
                /\ Gets("client", Unpacked(c + 1))
                /\ buf' = [buf EXCEPT !["client"] = b] /\ cur' = [cur EXCEPT !["client"] = 0]
                /\ InPlace("client", b \o w, Pos(c + 2))
                /\ Len(b) + Len(w) + Pos(c + 2)
                     = Len(buf["client"]) + Len(wire["client"]) + Used("client")
          BY <1>4, <3>2 DEF TookPack
        <4>2. got' = Append(got, Unpacked(c + 1)) /\ open' = open
          <5>1. c + 1 \in Nat
            BY <1>3
          <5> QED
            BY <1>2, <4>1, <5>1, ClientEffect, Zenon
        <4>3. Unpacked(c + 1) \in Seq(Nat)
          BY <1>3 DEF Unpacked
        <4>4. Len(got') = c + 1
          BY <1>3, <4>2, <4>3
        <4>5. ASSUME NEW j \in DOMAIN got' PROVE got'[j] = Unpacked(j)
          <5>1. j \in 1 .. c + 1
            BY <1>3, <4>2, <4>3, <4>4, <4>5
          <5>2. CASE j = c + 1
            BY <1>3, <4>2, <4>3, <5>2
          <5>3. CASE j \in 1 .. c
            <6>1. got'[j] = got[j]
              BY <1>3, <4>2, <4>3, <5>3
            <6> QED
              BY <1>2, <1>3, <3>1, <5>3, <6>1 DEF InStep
          <5> QED
            BY <1>3, <5>1, <5>2, <5>3
        <4>6. Aligned("client")'
          <5>1. buf'["client"] = b /\ cur'["client"] = 0
            BY <1>1, <1>3, <4>1
          <5>2. Used("client")' = Pos(c + 2)
            <6>1. Taken("client")' + 1 = c + 2 /\ HeadTaken(cur["client"])' = 0
              BY <1>1, <1>3, <4>4, <5>1 DEF Taken, HeadTaken
            <6>2. Pos(c + 2) \in Int
              BY <1>3, PosFacts
            <6> QED
              BY <6>1, <6>2 DEF Used
          <5> QED
            BY <1>1, <1>5, <1>8, <1>10, <3>1, <4>1, <5>1, <5>2, AlignedMoves
        <4> QED
          BY <4>5, <4>6 DEF InStep
      <3>3. CASE TookNothing("client")
        BY <1>2, <2>2, <3>3, ClientEffect DEF TookNothing
      <3>4. CASE TookHead("client", w)
        <4>1. PICK b \in Seq(Words), n \in {0, BodyLen} :
                /\ GoesOn
                /\ buf' = [buf EXCEPT !["client"] = b] /\ cur' = [cur EXCEPT !["client"] = n]
                /\ InPlace("client", b \o w, Pos(Len(got) + 1) + HeadTaken(n))
                /\ Len(b) + Len(w) + (Pos(Len(got) + 1) + HeadTaken(n))
                     = Len(buf["client"]) + Len(wire["client"]) + Used("client")
          BY <1>4, <3>4 DEF TookHead
        <4>2. got' = got /\ gaveUp' = gaveUp
          BY <4>1 DEF GoesOn
        <4>3. InStep'
          BY <1>2, <4>2 DEF InStep
        <4>4. buf'["client"] = b /\ cur'["client"] = n
          BY <1>1, <1>3, <4>1
        <4>5. Used("client")' = Pos(Len(got) + 1) + HeadTaken(n)
          BY <1>1, <4>2, <4>4 DEF Used, Taken, HeadTaken
        <4>6. Aligned("client")'
          BY <1>1, <1>5, <1>8, <1>10, <3>1, <4>1, <4>4, <4>5, AlignedMoves
        <4> QED
          BY <4>3, <4>6
      <3> QED
        BY <3>1, <3>2, <3>3, <3>4
    <2> QED
      BY <2>1, <2>2
  <1> QED
    BY <1>1, <1>9, <1>11, <1>12 DEF StreamInv

-----------------------------------------------------------------------------
(* The steps. *)

(* A read moves words from the wire to _recvbuf; the stream is the same. *)
LEMMA ReadKeepsStream ==
  ASSUME NEW b \in Seq(Words), NEW w \in Seq(Words), NEW n \in 1 .. Len(w)
  PROVE  /\ b \o SubSeq(w, 1, n) \in Seq(Words) /\ Rest(w, n) \in Seq(Words)
         /\ Len(b \o SubSeq(w, 1, n)) + Len(Rest(w, n)) = Len(b) + Len(w)
         /\ Len(Rest(w, n)) <= Len(w)
         /\ (b \o SubSeq(w, 1, n)) \o Rest(w, n) = b \o w
PROOF
  <1> DEFINE p == SubSeq(w, 1, n)
             r == Rest(w, n)
  <1>1. Len(b) \in Nat /\ Len(w) \in Nat /\ n \in Nat /\ n <= Len(w)
    OBVIOUS
  <1>2. p \in Seq(Words) /\ Len(p) = n /\ \A j \in 1 .. n : p[j] = w[j]
    BY <1>1
  <1>3. r \in Seq(Words) /\ Len(r) = Len(w) - n /\ \A j \in 1 .. Len(w) - n : r[j] = w[j + n]
    BY <1>1, RestFacts
  <1> HIDE DEF p, r
  <1> DEFINE bp == b \o p
  <1>4. /\ bp \in Seq(Words) /\ Len(bp) = Len(b) + n
        /\ \A j \in 1 .. Len(b) : bp[j] = b[j]
        /\ \A j \in 1 .. Len(b) + n : j > Len(b) => bp[j] = p[j - Len(b)]
    <2>1. p \in Seq(Words) /\ Len(p) = n
      BY <1>2
    <2>2. /\ bp \in Seq(Words) /\ Len(bp) = Len(b) + Len(p)
          /\ \A j \in 1 .. Len(b) : bp[j] = b[j]
          /\ \A j \in 1 .. Len(b) + Len(p) : j > Len(b) => bp[j] = p[j - Len(b)]
      BY <2>1, ConcatFacts
    <2> QED
      BY <2>1, <2>2
  <1> HIDE DEF bp
  <1>5. /\ bp \o r \in Seq(Words) /\ Len(bp \o r) = Len(bp) + Len(r)
        /\ \A j \in 1 .. Len(bp) : (bp \o r)[j] = bp[j]
        /\ \A j \in 1 .. Len(bp) + Len(r) : j > Len(bp) => (bp \o r)[j] = r[j - Len(bp)]
    BY <1>3, <1>4, ConcatFacts
  <1>6. /\ b \o w \in Seq(Words) /\ Len(b \o w) = Len(b) + Len(w)
        /\ \A j \in 1 .. Len(b) : (b \o w)[j] = b[j]
        /\ \A j \in 1 .. Len(b) + Len(w) : j > Len(b) => (b \o w)[j] = w[j - Len(b)]
    BY ConcatFacts
  <1>7. Len(bp) + Len(r) = Len(b) + Len(w)
    BY <1>1, <1>3, <1>4
  <1>8. ASSUME NEW j \in 1 .. Len(b) + Len(w) PROVE (bp \o r)[j] = (b \o w)[j]
    <2>1. CASE j <= Len(b)
      BY <1>1, <1>4, <1>5, <1>6, <2>1
    <2>2. CASE j > Len(b) /\ j <= Len(b) + n
      <3>1. (bp \o r)[j] = p[j - Len(b)]
        BY <1>1, <1>4, <1>5, <2>2
      <3>2. j - Len(b) \in 1 .. n
        BY <1>1, <2>2
      <3>3. p[j - Len(b)] = w[j - Len(b)]
        BY <1>2, <3>2
      <3> QED
        BY <1>6, <2>2, <3>1, <3>3
    <2>3. CASE j > Len(b) + n
      <3>1. (bp \o r)[j] = r[j - Len(bp)]
        BY <1>1, <1>4, <1>5, <1>7, <2>3
      <3>2. j - Len(bp) \in 1 .. Len(w) - n /\ (j - Len(bp)) + n = j - Len(b)
        BY <1>1, <1>4, <2>3
      <3>3. r[j - Len(bp)] = w[j - Len(b)]
        BY <1>3, <3>2
      <3>4. j > Len(b)
        BY <1>1, <2>3
      <3> QED
        BY <1>6, <3>1, <3>3, <3>4
    <2>4. j \in Nat /\ (j <= Len(b) \/ (j > Len(b) /\ j <= Len(b) + n) \/ j > Len(b) + n)
      BY <1>1
    <2> QED
      BY <2>1, <2>2, <2>3, <2>4
  <1>9. bp \o r = b \o w
    <2>1. \A x, y \in Seq(Words) :
            Len(x) = Len(y) /\ (\A j \in 1 .. Len(x) : x[j] = y[j]) => x = y
      OBVIOUS
    <2>2. Len(bp \o r) = Len(b) + Len(w) /\ Len(b \o w) = Len(b) + Len(w)
      BY <1>5, <1>6, <1>7
    <2> QED
      BY <1>5, <1>6, <1>8, <2>1, <2>2, Zenon
  <1>10. Len(r) <= Len(w)
    BY <1>1, <1>3
  <1> QED
    BY <1>3, <1>4, <1>7, <1>9, <1>10 DEF p, r, bp

(* Only e's buffer and length change in a turn of e. *)
LEMMA SplitLocal ==
  ASSUME StreamTyped, NEW e \in Ends, NEW b, Split(e, b), NEW o \in Ends, o # e
  PROVE  /\ buf'[o] = buf[o] /\ cur'[o] = cur[o]
         /\ GoesOn \/ \E r : Gets(e, r)
PROOF
  <1>1. buf \in [Ends -> Seq(Words)] /\ cur \in [Ends -> Nat]
    BY DEF StreamTyped
  <1>2. \E x : buf' = [buf EXCEPT ![e] = x]
    BY Zenon DEF Split
  <1>3. \E y : cur' = [cur EXCEPT ![e] = y]
    BY Zenon DEF Split, Restarted
  <1>4. GoesOn \/ \E r : Gets(e, r)
    BY Zenon DEF Split
  <1> QED
    BY <1>1, <1>2, <1>3, <1>4

(* A turn of either end, after a read or after one that threw. *)
LEMMA TurnStep ==
  ASSUME StreamInv, NEW e \in Ends, pc[e] = "recv", call' = call,
         NEW b \in Seq(Words), NEW w \in Seq(Words), wire' = [wire EXCEPT ![e] = w],
         b \o w = buf[e] \o wire[e], Len(b) + Len(w) = Len(buf[e]) + Len(wire[e]),
         Len(w) <= Len(wire[e]), Split(e, b)
  PROVE  StreamInv'
PROOF
  <1>1. StreamTyped /\ (Live(e) => Aligned(e))
    BY DEF StreamInv
  <1>2. StreamTyped'
    <2>1. wire' \in [Ends -> Seq(Words)] /\ call' \in 0 .. MaxCall
      BY <1>1 DEF StreamTyped
    <2> QED
      BY <1>1, <2>1, SplitTyped DEF StreamTyped
  <1>3. ASSUME Live(e)
        PROVE  TookPack(e, w) \/ TookNothing(e) \/ TookHead(e, w)
    <2>1. Aligned(e) /\ InPlace(e, buf[e] \o wire[e], Used(e))
      BY <1>1, <1>3 DEF Aligned
    <2>2. InPlace(e, b \o w, Used(e))
      BY <2>1
    <2> QED
      BY <2>1, <2>2, TurnOfRecvPack
  <1>4. CASE e = "server"
    <2>1. Live(e)
      BY <1>4 DEF Live
    <2> QED
      BY <1>2, <1>3, <1>4, <2>1, ServerTurn
  <1>5. CASE e = "client"
    <2>1. "server" \in Ends /\ "server" # e
      BY <1>5 DEF Ends
    <2>2. /\ buf'["server"] = buf["server"] /\ cur'["server"] = cur["server"]
          /\ GoesOn \/ \E r : Gets("client", r)
      BY <1>1, <1>5, <2>1, SplitLocal
    <2>3. ~ gaveUp => Live(e)
      BY <1>5 DEF Live
    <2> QED
      BY <1>2, <1>3, <1>5, <2>2, <2>3, ClientTurn
  <1> QED
    BY <1>4, <1>5 DEF Ends

LEMMA ReadStep ==
  ASSUME StreamInv, NEW e \in Ends, Read(e)
  PROVE  StreamInv'
PROOF
  <1>1. pc[e] = "recv" /\ call' = call
    BY DEF Read
  <1>2. PICK n \in 1 .. Len(wire[e]) :
          /\ Split(e, buf[e] \o SubSeq(wire[e], 1, n))
          /\ wire' = [wire EXCEPT ![e] = Rest(wire[e], n)]
    BY DEF Read
  <1>3. buf[e] \in Seq(Words) /\ wire[e] \in Seq(Words)
    BY DEF StreamInv, StreamTyped
  <1> DEFINE b == buf[e] \o SubSeq(wire[e], 1, n)
             w == Rest(wire[e], n)
  <1>4. /\ b \in Seq(Words) /\ w \in Seq(Words)
        /\ Len(b) + Len(w) = Len(buf[e]) + Len(wire[e]) /\ Len(w) <= Len(wire[e])
        /\ b \o w = buf[e] \o wire[e]
    BY <1>3, ReadKeepsStream
  <1>5. Split(e, b) /\ wire' = [wire EXCEPT ![e] = w]
    BY <1>2
  <1> HIDE DEF b, w
  <1> QED
    BY <1>1, <1>4, <1>5, TurnStep

LEMMA ReadFailsStep ==
  ASSUME StreamInv, NEW e \in Ends, ReadFails(e)
  PROVE  StreamInv'
PROOF
  <1>1. pc[e] = "recv" /\ call' = call /\ wire' = wire
    BY DEF ReadFails
  <1>2. /\ StreamTyped /\ buf[e] \in Seq(Words) /\ wire[e] \in Seq(Words)
        /\ wire \in [Ends -> Seq(Words)] /\ buf \in [Ends -> Seq(Words)] /\ cur \in [Ends -> Nat]
    BY DEF StreamInv, StreamTyped
  <1>3. wire' = [wire EXCEPT ![e] = wire[e]] /\ Len(wire[e]) <= Len(wire[e])
    BY <1>1, <1>2
  <1>4. CASE Split(e, buf[e])
    BY <1>1, <1>2, <1>3, <1>4, TurnStep
  <1>5. CASE Gets(e, Nothing) /\ cur' = Restarted(cur, e) /\ tries' = Restarted(tries, e) /\ buf' = buf
    <2>1. cur' = [cur EXCEPT ![e] = 0] /\ buf' = [buf EXCEPT ![e] = buf[e]]
      BY <1>2, <1>5 DEF Restarted
    <2>2. TookNothing(e)
      BY <1>2, <1>5, <2>1 DEF TookNothing
    <2>3. StreamTyped'
      <3>1. Nothing \in Seq(Nat)
        BY DEF Nothing
      <3>2. /\ cur' \in [Ends -> Nat] /\ tries' \in [Ends -> Nat] /\ buf' \in [Ends -> Seq(Words)]
            /\ wire' \in [Ends -> Seq(Words)] /\ call' \in 0 .. MaxCall
        BY <1>1, <1>2, <1>5 DEF StreamTyped, Restarted
      <3> QED
        BY <1>2, <1>5, <3>1, <3>2, GetsTyped DEF StreamTyped
    <2>4. CASE e = "server"
      BY <1>1, <1>2, <1>3, <2>2, <2>3, <2>4, ServerTurn
    <2>5. CASE e = "client"
      <3>1. "server" \in Ends /\ "server" # e
        BY <2>5 DEF Ends
      <3>2. buf'["server"] = buf["server"] /\ cur'["server"] = cur["server"]
        BY <1>2, <1>5, <2>1, <3>1
      <3> QED
        BY <1>1, <1>2, <1>3, <1>5, <2>2, <2>3, <2>5, <3>2, ClientTurn
    <2> QED
      BY <2>4, <2>5 DEF Ends
  <1> QED
    BY <1>4, <1>5 DEF ReadFails

LEMMA ClientEntryStep ==
  ASSUME StreamInv, ClientEntry
  PROVE  StreamInv'
PROOF
  <1>1. /\ "server" \in Ends /\ "client" \in Ends /\ "client" # "server"
        /\ Ends = {"client", "server"}
    BY DEF Ends
  <1>2. /\ StreamTyped /\ Placed /\ ServerInOrder /\ InStep
        /\ Live("client") => Aligned("client")
        /\ Live("server") => Aligned("server")
    BY <1>1 DEF StreamInv
  <1>3. /\ pc["client"] = "idle" /\ call < MaxCall /\ call' = call + 1
        /\ pc' = [pc EXCEPT !["client"] = "recv"]
        /\ wire' = IF open THEN [wire EXCEPT !["server"] = @ \o Frame("server", call + 1)] ELSE wire
        /\ buf' = buf /\ cur' = cur /\ tries' = tries /\ open' = open
        /\ dealt' = dealt /\ got' = got /\ gaveUp' = gaveUp
    BY DEF ClientEntry
  <1>4. /\ call \in Nat /\ call + 1 \in Nat /\ call' \in 0 .. MaxCall
        /\ pc \in [Ends -> {"idle", "recv", "deal", "over"}]
        /\ wire \in [Ends -> Seq(Words)] /\ buf \in [Ends -> Seq(Words)]
        /\ wire["server"] \in Seq(Words) /\ buf["server"] \in Seq(Words)
    BY <1>1, <1>2, <1>3, StreamAssumption DEF StreamTyped
  <1> DEFINE f == Frame("server", call + 1)
  <1>5. f \in Seq(Words) /\ Len(f) = FrameLen /\ wire["server"] \o f \in Seq(Words)
        /\ Len(wire["server"] \o f) = Len(wire["server"]) + FrameLen
    <2>1. f \in Seq(Words) /\ Len(f) = FrameLen
      BY <1>1, <1>4, FrameFacts
    <2> HIDE DEF f
    <2> QED
      BY <1>4, <2>1, ConcatFacts
  <1>6. StreamTyped'
    <2>1. wire' \in [Ends -> Seq(Words)] /\ pc' \in [Ends -> {"idle", "recv", "deal", "over"}]
      BY <1>1, <1>3, <1>4, <1>5
    <2> QED
      BY <1>2, <1>3, <1>4, <2>1 DEF StreamTyped
  <1>7. pc'["server"] = pc["server"] /\ wire'["client"] = wire["client"]
    BY <1>1, <1>3, <1>4
  <1>8. Placed' /\ ServerInOrder' /\ InStep'
    <2>1. Len(dealt) \in Nat
      BY <1>2 DEF StreamTyped
    <2>2. Placed'
      BY <1>2, <1>3, <1>4, <1>7, <2>1 DEF Placed
    <2> QED
      BY <1>2, <1>3, <2>2 DEF ServerInOrder, InStep
  <1>9. Live("client")' => Aligned("client")'
    <2>1. Live("client")' => Live("client")
      BY <1>3 DEF Live
    <2>2. Taken("client")' = Taken("client") /\ Sent("client")' = Sent("client")
      BY <1>1, <1>3, <1>7 DEF Taken, Sent
    <2> QED
      BY <1>1, <1>2, <1>3, <1>7, <2>1, <2>2, AlignedStays
  <1>10. ASSUME Live("server")' PROVE Aligned("server")'
    <2>1. Aligned("server")
      BY <1>2, <1>7, <1>10 DEF Live
    <2>2. Used("server")' = Used("server") /\ Sent("server")' = call + 1 /\ Sent("server") = call
      BY <1>3 DEF Used, Taken, Sent
    <2>3. Used("server") \in Nat
      BY <1>1, TakenFacts
    <2>4. /\ Pos(call + 1) \in Nat /\ Pos((call + 1) + 1) = Pos(call + 1) + FrameLen
          /\ FrameLen \in Nat
      BY <1>4, PosFacts
    <2> DEFINE lb == Len(buf["server"])
               lw == Len(wire["server"])
               u == Used("server")
    <2>5. lb \in Nat /\ lw \in Nat
      BY <1>1, <1>2, SizeFacts
    <2>6. /\ cur["server"] \in {0, BodyLen}
          /\ InPlace("server", buf["server"] \o wire["server"], u)
          /\ lb + lw + u <= Pos(call + 1)
          /\ open => lb + lw + u = Pos(call + 1)
      BY <2>1, <2>2 DEF Aligned
    <2>7. CASE open
      <3>1. wire'["server"] = wire["server"] \o f
        BY <1>1, <1>3, <1>4, <2>7
      <3>2. InPlace("server", buf["server"] \o (wire["server"] \o f), u)
        BY <1>1, <1>4, <2>3, <2>6, <2>7, FrameKeepsPlace
      <3> HIDE DEF f, u, lb
      <3>3. lb + (lw + FrameLen) + u = Pos((call + 1) + 1)
        <4> HIDE DEF lw
        <4> QED
          BY <2>3, <2>4, <2>5, <2>6, <2>7 DEF u
      <3>4. lb + Len(wire["server"] \o f) + u = Pos((call + 1) + 1)
        BY <1>5, <3>3
      <3>5. Pos((call + 1) + 1) \in Nat
        BY <2>4
      <3>6. lb + Len(wire["server"] \o f) + u <= Pos((call + 1) + 1)
        BY <3>4, <3>5
      <3>7. buf'["server"] = buf["server"] /\ cur'["server"] \in {0, BodyLen} /\ Used("server")' = u /\ Sent("server")' = call + 1
        BY <1>3, <2>2, <2>6 DEF u
      <3> QED
        BY <1>1, <3>1, <3>2, <3>4, <3>6, <3>7, AlignedNow DEF lb
    <2>8. CASE ~ open
      <3>1. wire' = wire
        BY <1>3, <2>8
      <3> HIDE DEF lb, lw, u
      <3>2. lb + lw + u <= Pos((call + 1) + 1)
        BY <2>3, <2>4, <2>5, <2>6 DEF u
      <3>3. /\ buf'["server"] = buf["server"] /\ cur'["server"] \in {0, BodyLen} /\ wire'["server"] = wire["server"]
            /\ Used("server")' = u /\ Sent("server")' = call + 1 /\ ~ open'
        BY <1>3, <2>2, <2>6, <2>8, <3>1 DEF u
      <3> QED
        BY <1>1, <2>6, <3>2, <3>3, AlignedNow DEF lb, lw
    <2> QED
      BY <2>7, <2>8
  <1> QED
    BY <1>1, <1>6, <1>8, <1>9, <1>10 DEF StreamInv

LEMMA ServerRepliesStep ==
  ASSUME StreamInv, ServerReplies
  PROVE  StreamInv'
PROOF
  <1>1. /\ "server" \in Ends /\ "client" \in Ends /\ "client" # "server"
        /\ Ends = {"client", "server"}
    BY DEF Ends
  <1>2. /\ StreamTyped /\ Placed /\ ServerInOrder /\ InStep
        /\ Live("client") => Aligned("client")
        /\ Live("server") => Aligned("server")
    BY <1>1 DEF StreamInv
  <1>3. /\ pc["server"] = "deal" /\ call' = call
        /\ pc' = [pc EXCEPT !["server"] = "recv"]
        /\ wire' = IF open THEN [wire EXCEPT !["client"] = @ \o Frame("client", ReplyTo)] ELSE wire
        /\ buf' = buf /\ cur' = cur /\ tries' = tries /\ open' = open
        /\ dealt' = dealt /\ got' = got /\ gaveUp' = gaveUp
    BY DEF ServerReplies
  <1>4. /\ dealt \in Seq(Seq(Nat)) /\ Len(dealt) \in Nat /\ Len(dealt) > 0
        /\ pc \in [Ends -> {"idle", "recv", "deal", "over"}]
        /\ wire \in [Ends -> Seq(Words)] /\ buf \in [Ends -> Seq(Words)]
        /\ wire["client"] \in Seq(Words) /\ buf["client"] \in Seq(Words)
    <2>1. dealt \in Seq(Seq(Nat))
      BY <1>2 DEF StreamTyped
    <2>2. Len(dealt) \in Nat
      BY <2>1
    <2> QED
      BY <1>1, <1>2, <1>3, <2>1, <2>2 DEF StreamTyped, Placed
  (* The reply carries the number of the request it answers. *)
  <1>5. ReplyTo = Len(dealt)
    <2>1. dealt[Len(dealt)] = Unpacked(Len(dealt))
      BY <1>2, <1>4 DEF ServerInOrder
    <2> QED
      BY <2>1 DEF ReplyTo, Unpacked
  <1> DEFINE m == Len(dealt)
             f == Frame("client", m)
  <1>6. f \in Seq(Words) /\ Len(f) = FrameLen /\ wire["client"] \o f \in Seq(Words)
        /\ Len(wire["client"] \o f) = Len(wire["client"]) + FrameLen
    <2>1. f \in Seq(Words) /\ Len(f) = FrameLen
      BY <1>1, <1>4, FrameFacts
    <2> HIDE DEF f
    <2> QED
      BY <1>4, <2>1, ConcatFacts
  <1>7. StreamTyped'
    <2>1. wire' \in [Ends -> Seq(Words)] /\ pc' \in [Ends -> {"idle", "recv", "deal", "over"}]
      BY <1>1, <1>3, <1>4, <1>5, <1>6
    <2> QED
      BY <1>2, <1>3, <2>1 DEF StreamTyped
  <1>8. /\ pc'["server"] = "recv" /\ pc'["client"] = pc["client"]
        /\ wire'["server"] = wire["server"]
    BY <1>1, <1>3, <1>4
  <1>9. Placed' /\ ServerInOrder' /\ InStep'
    BY <1>2, <1>3, <1>8 DEF Placed, ServerInOrder, InStep
  <1>10. Live("server")' => Aligned("server")'
    <2>1. Live("server")
      BY <1>1, <1>3 DEF Live
    <2>2. Taken("server")' = Taken("server") /\ Sent("server")' = Sent("server")
      BY <1>3 DEF Taken, Sent
    <2> QED
      BY <1>1, <1>2, <1>3, <1>8, <2>1, <2>2, AlignedStays
  <1>11. ASSUME Live("client")' PROVE Aligned("client")'
    <2>1. Aligned("client")
      BY <1>2, <1>3, <1>8, <1>11 DEF Live
    <2>2. Used("client")' = Used("client") /\ Sent("client")' = m /\ Sent("client") + 1 = m
      <3>1. Sent("client") = m - 1 /\ Sent("client")' = m
        BY <1>1, <1>3, <1>8 DEF Sent
      <3>2. Used("client")' = Used("client")
        BY <1>3 DEF Used, Taken
      <3> QED
        BY <1>4, <3>1, <3>2
    <2>3. Used("client") \in Nat
      BY <1>1, TakenFacts
    <2>4. /\ Pos(m) \in Int /\ Pos(m + 1) = Pos(m) + FrameLen
          /\ FrameLen \in Nat
      BY <1>4, PosFacts
    <2> DEFINE lb == Len(buf["client"])
               lw == Len(wire["client"])
               u == Used("client")
    <2>5. lb \in Nat /\ lw \in Nat
      BY <1>1, <1>2, SizeFacts
    <2>6. /\ cur["client"] \in {0, BodyLen}
          /\ InPlace("client", buf["client"] \o wire["client"], u)
          /\ lb + lw + u <= Pos(m)
          /\ open => lb + lw + u = Pos(m)
      BY <2>1, <2>2 DEF Aligned
    <2>7. CASE open
      <3>1. wire'["client"] = wire["client"] \o f
        BY <1>1, <1>3, <1>4, <1>5, <2>7
      <3>2. InPlace("client", buf["client"] \o (wire["client"] \o f), u)
        BY <1>1, <1>4, <2>3, <2>6, <2>7, FrameKeepsPlace
      <3> HIDE DEF f, u, lb, m
      <3>3. lb + (lw + FrameLen) + u = Pos(m + 1)
        <4> HIDE DEF lw
        <4> QED
          BY <2>3, <2>4, <2>5, <2>6, <2>7 DEF u
      <3>4. lb + Len(wire["client"] \o f) + u = Pos(m + 1)
        BY <1>6, <3>3
      <3>5. Pos(m + 1) \in Int
        BY <2>4
      <3>6. lb + Len(wire["client"] \o f) + u <= Pos(m + 1)
        BY <3>4, <3>5
      <3>7. buf'["client"] = buf["client"] /\ cur'["client"] \in {0, BodyLen} /\ Used("client")' = u /\ Sent("client")' = m
        BY <1>3, <2>2, <2>6 DEF u
      <3> QED
        BY <1>1, <3>1, <3>2, <3>4, <3>6, <3>7, AlignedNow DEF lb
    <2>8. CASE ~ open
      <3>1. wire' = wire
        BY <1>3, <2>8
      <3> HIDE DEF lb, lw, u, m
      <3>2. lb + lw + u <= Pos(m + 1)
        BY <2>3, <2>4, <2>5, <2>6 DEF u
      <3>3. /\ buf'["client"] = buf["client"] /\ cur'["client"] \in {0, BodyLen} /\ wire'["client"] = wire["client"]
            /\ Used("client")' = u /\ Sent("client")' = m /\ ~ open'
        BY <1>3, <2>2, <2>6, <2>8, <3>1 DEF u
      <3> QED
        BY <1>1, <2>6, <3>2, <3>3, AlignedNow DEF lb, lw
    <2> QED
      BY <2>7, <2>8
  <1> QED
    BY <1>1, <1>7, <1>9, <1>10, <1>11 DEF StreamInv

LEMMA ServerLeavesStep ==
  ASSUME StreamInv, ServerLeaves
  PROVE  StreamInv'
PROOF
  <1>1. /\ "server" \in Ends /\ "client" \in Ends /\ "client" # "server"
        /\ Ends = {"client", "server"}
    BY DEF Ends
  <1>2. /\ StreamTyped /\ Placed /\ ServerInOrder /\ InStep
        /\ Live("client") => Aligned("client")
    BY <1>1 DEF StreamInv
  <1>3. /\ pc["server"] = "deal" /\ pc' = [pc EXCEPT !["server"] = "over"] /\ open' = FALSE
        /\ UNCHANGED << call, wire, buf, cur, tries, dealt, got, gaveUp >>
    BY DEF ServerLeaves
  <1>4. StreamTyped'
    BY <1>1, <1>2, <1>3 DEF StreamTyped
  <1>5. pc'["server"] = "over" /\ pc'["client"] = pc["client"]
    BY <1>1, <1>2, <1>3 DEF StreamTyped
  <1>6. Placed' /\ ServerInOrder' /\ InStep'
    BY <1>2, <1>3, <1>5 DEF Placed, ServerInOrder, InStep
  <1>7. ~ Live("server")'
    BY <1>5 DEF Live
  <1>8. ASSUME Live("client")' PROVE Aligned("client")'
    <2>1. Aligned("client")
      BY <1>2, <1>3, <1>5, <1>8 DEF Live
    <2>2. Used("client")' = Used("client")
      BY <1>3 DEF Used, Taken
    <2>3. InPlace("client", buf["client"] \o wire["client"], Used("client")) /\ cur'["client"] \in {0, BodyLen}
      BY <1>3, <2>1 DEF Aligned
    (* The reply that will not be sent is counted as sent: there is room. *)
    <2>4. Len(buf["client"]) + Len(wire["client"]) + Used("client") <= Pos(Len(dealt) + 1)
      <3>1. Len(dealt) \in Nat /\ Sent("client") + 1 = Len(dealt)
        <4>1. dealt \in Seq(Seq(Nat))
          BY <1>2 DEF StreamTyped
        <4>2. Len(dealt) \in Nat
          BY <4>1
        <4> QED
          BY <1>1, <1>3, <4>2 DEF Sent
      <3>2. /\ FrameLen \in Nat /\ Pos(Len(dealt)) \in Int
            /\ Pos(Len(dealt) + 1) = Pos(Len(dealt)) + FrameLen
        BY <3>1, PosFacts
      <3>3. Len(buf["client"]) \in Nat /\ Len(wire["client"]) \in Nat /\ Used("client") \in Nat
        BY <1>1, <1>2, SizeFacts, TakenFacts
      <3>4. Len(buf["client"]) + Len(wire["client"]) + Used("client") <= Pos(Len(dealt))
        BY <2>1, <3>1 DEF Aligned
      <3> DEFINE x == Len(buf["client"]) + Len(wire["client"]) + Used("client")
      <3>5. x \in Nat
        <4> DEFINE lb == Len(buf["client"])
                   lw == Len(wire["client"])
                   u == Used("client")
        <4> SUFFICES lb + lw + u \in Nat
          OBVIOUS
        <4>1. lb \in Nat /\ lw \in Nat /\ u \in Nat
          BY <3>3
        <4> HIDE DEF lb, lw, u
        <4> QED
          BY <4>1
      <3>6. x <= Pos(Len(dealt))
        BY <3>4
      <3> HIDE DEF x
      <3>7. x <= Pos(Len(dealt) + 1)
        BY <3>2, <3>5, <3>6
      <3> QED
        BY <3>7 DEF x
    <2>5. Sent("client")' = Len(dealt)
      BY <1>1, <1>3, <1>5 DEF Sent
    <2> QED
      BY <1>1, <1>3, <2>2, <2>3, <2>4, <2>5, AlignedNow
  <1> QED
    BY <1>1, <1>4, <1>6, <1>7, <1>8 DEF StreamInv

LEMMA LoseStep ==
  ASSUME StreamInv, Lose
  PROVE  StreamInv'
PROOF
  <1>1. /\ open' = FALSE /\ wire' = [e \in Ends |-> << >>]
        /\ UNCHANGED << call, pc, buf, cur, tries, dealt, got, gaveUp >>
    BY DEF Lose
  <1>2. StreamTyped /\ Placed /\ ServerInOrder /\ InStep
    BY DEF StreamInv
  <1>3. StreamTyped'
    <2>1. << >> \in Seq(Words)
      OBVIOUS
    <2>2. wire' \in [Ends -> Seq(Words)]
      BY <1>1, <2>1, Zenon
    <2> QED
      BY <1>1, <1>2, <2>2 DEF StreamTyped
  <1>4. Placed' /\ ServerInOrder' /\ InStep'
    BY <1>1, <1>2 DEF Placed, ServerInOrder, InStep
  <1>5. ASSUME NEW e \in Ends, Live(e)' PROVE Aligned(e)'
    <2>1. Aligned(e)
      BY <1>1, <1>5 DEF Live, StreamInv
    <2>2. Used(e)' = Used(e) /\ Sent(e)' = Sent(e) /\ wire'[e] = << >> /\ Used(e) \in Nat
      BY <1>1, TakenFacts DEF Used, Taken, Sent
    <2>3. /\ buf[e] \in Seq(Words) /\ wire[e] \in Seq(Words)
          /\ Len(buf[e]) \in Nat /\ Len(wire[e]) \in Nat
      BY <1>2, SizeFacts
    <2>4. InPlace(e, buf[e] \o << >>, Used(e))
      BY <2>1, <2>2, <2>3, PrefixKeepsPlace DEF Aligned
    <2> DEFINE lb == Len(buf[e])
               lw == Len(wire[e])
               u == Used(e)
    <2>5. lb + lw + u <= Pos(Sent(e) + 1) /\ cur'[e] \in {0, BodyLen}
      BY <1>1, <2>1 DEF Aligned
    <2>6. Pos(Sent(e) + 1) \in Nat
      <3>1. Sent(e) \in Nat
        BY TakenFacts, StreamAssumption
      <3> QED
        BY <3>1, PosFacts
    <2>7. lb \in Nat /\ lw \in Nat /\ u \in Nat /\ Len(<< >>) = 0
      BY <2>2, <2>3
    <2> HIDE DEF lb, lw, u
    <2>8. lb + Len(<< >>) + u <= Pos(Sent(e) + 1)
      BY <2>5, <2>6, <2>7
    <2> QED
      BY <1>1, <2>2, <2>4, <2>5, <2>8, AlignedNow DEF lb, u
  <1> QED
    BY <1>3, <1>4, <1>5 DEF StreamInv

LEMMA InitPlaced ==
  ASSUME Init
  PROVE  StreamInv
PROOF
  <1>1. << >> \in Seq(Words) /\ << >> \in Seq(Seq(Nat)) /\ Len(<< >>) = 0 /\ << >> \o << >> = << >>
    OBVIOUS
  <1>2. /\ wire \in [Ends -> Seq(Words)] /\ buf \in [Ends -> Seq(Words)]
        /\ \A e \in Ends : wire[e] = << >> /\ buf[e] = << >> /\ cur[e] = 0
    BY <1>1, Zenon DEF Init
  <1>3. pc \in [Ends -> {"idle", "recv", "deal", "over"}] /\ pc["server"] = "recv"
    BY DEF Init, Ends
  <1>4. StreamTyped
    <2>1. cur \in [Ends -> Nat] /\ tries \in [Ends -> Nat] /\ call \in 0 .. MaxCall
      BY StreamAssumption DEF Init
    <2>2. dealt = << >> /\ got = << >> /\ open \in BOOLEAN /\ gaveUp \in BOOLEAN
      BY DEF Init
    <2> QED
      BY <1>1, <1>2, <1>3, <2>1, <2>2 DEF StreamTyped
  <1>5. Placed /\ ServerInOrder /\ InStep
    BY <1>1, <1>3 DEF Init, Placed, ServerInOrder, InStep
  <1>6. ASSUME NEW e \in Ends PROVE Aligned(e)
    <2>1. Taken(e) = 0 /\ Sent(e) = 0
      BY <1>1, <1>3 DEF Init, Taken, Sent
    <2>2. Pos(0 + 1) = 0
      BY PosFacts
    <2>3. Used(e) = 0
      BY <1>2, <2>1, <2>2 DEF Used, HeadTaken
    <2>4. Len(buf[e] \o wire[e]) = 0 /\ Len(buf[e]) = 0 /\ Len(wire[e]) = 0
      BY <1>1, <1>2
    <2>5. InPlace(e, buf[e] \o wire[e], Used(e))
      BY <2>4 DEF InPlace
    <2> QED
      BY <1>2, <2>1, <2>2, <2>3, <2>4, <2>5 DEF Aligned
  <1> QED
    BY <1>4, <1>5, <1>6 DEF StreamInv

LEMMA StutterPlaced ==
  ASSUME StreamInv, UNCHANGED vars
  PROVE  StreamInv'
PROOF
  <1>1. /\ call' = call /\ pc' = pc /\ wire' = wire /\ buf' = buf /\ cur' = cur /\ tries' = tries
        /\ open' = open /\ dealt' = dealt /\ got' = got /\ gaveUp' = gaveUp
    BY DEF vars
  <1>2. ASSUME NEW e \in Ends, Live(e)' PROVE Aligned(e)'
    <2>1. Live(e) /\ Taken(e)' = Taken(e) /\ Sent(e)' = Sent(e)
      BY <1>1, <1>2 DEF Live, Taken, Sent
    <2> QED
      BY <1>1, <2>1, AlignedStays DEF StreamInv
  <1>3. StreamTyped' /\ Placed' /\ ServerInOrder' /\ InStep'
    BY <1>1 DEF StreamInv, StreamTyped, Placed, ServerInOrder, InStep
  <1> QED
    BY <1>2, <1>3 DEF StreamInv

(* In every reachable state an end of the stream stack that has not given   *)
(* up or ended is where its number of packs says, however recvPack's reads  *)
(* cut the stream.                                                          *)
THEOREM StreamPlaced == Spec => []StreamInv
PROOF
  <1>1. Init => StreamInv
    BY InitPlaced
  <1>2. StreamInv /\ [Next]_vars => StreamInv'
    <2> SUFFICES ASSUME StreamInv, [Next]_vars PROVE StreamInv'
      OBVIOUS
    <2>1. CASE ClientEntry
      BY <2>1, ClientEntryStep
    <2>2. CASE ServerReplies
      BY <2>2, ServerRepliesStep
    <2>3. CASE ServerLeaves
      BY <2>3, ServerLeavesStep
    <2>4. CASE Lose
      BY <2>4, LoseStep
    <2>5. CASE \E e \in Ends : Read(e)
      BY <2>5, ReadStep
    <2>6. CASE \E e \in Ends : ReadFails(e)
      BY <2>6, ReadFailsStep
    <2>7. CASE UNCHANGED vars
      BY <2>7, StutterPlaced
    <2> QED
      BY <2>1, <2>2, <2>3, <2>4, <2>5, <2>6, <2>7 DEF Next
  <1> QED
    BY <1>1, <1>2, PTL DEF Spec

(* _serverEntry deals with requests 1, 2, 3, ... and nothing else, for any  *)
(* lengths, any number of reads at either end and whatever the client       *)
(* gave up.                                                                 *)
THEOREM ServerDealsInOrder == Spec => []ServerInOrder
PROOF
  <1>1. StreamInv => ServerInOrder
    BY DEF StreamInv
  <1> QED
    BY <1>1, StreamPlaced, PTL

(* Until recvPack of clientEntry has ended without a pack, each call        *)
(* returns the reply to its own request.                                    *)
THEOREM CallsStayInStep == Spec => []InStep
PROOF
  <1>1. StreamInv => InStep
    BY DEF StreamInv
  <1> QED
    BY <1>1, StreamPlaced, PTL

=============================================================================
