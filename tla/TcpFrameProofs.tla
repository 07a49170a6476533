--------------------------- MODULE TcpFrameProofs ---------------------------
(***************************************************************************)
(* TcpChannelImpl implements the pipe of module PackPipe, for any number   *)
(* of coroutines that send, any packs and any sizes of buffers.            *)
(*                                                                         *)
(* Ahead is what the receiver has or is going to read.  As long as packs   *)
(* sent before any damage are still to be delivered, they are in front of  *)
(* it, frame behind frame (Laid); as long as there was no damage nothing   *)
(* follows them but the head of the one pack of which sendPack has not     *)
(* sent the body yet (Tailed).  How long frames are depends on the packs,  *)
(* so Laid is about some offsets off[k], and not about multiples of a size.*)
(***************************************************************************)
EXTENDS TcpFrame, TLAPS

Packs == [no : Nat, body : Seq(Nat)]

Ahead == bRecv \o stream

Size(p) == HeadLen + Len(p.body)

(* The frame of p is in s behind its first o words. *)
FrameAt(s, o, p) ==
  /\ s[o + 1] = Len(p.body) /\ s[o + 2] = p.no
  /\ \A i \in 1 .. Len(p.body) : s[o + HeadLen + i] = p.body[i]

(* The frames of the packs q[n + 1], ... , q[m] are in front of s. *)
Laid(off, s, q, n, m) ==
  /\ \A k \in n + 1 .. m + 1 : off[k] \in Nat
  /\ off[n + 1] = 0 /\ off[m + 1] <= Len(s)
  /\ \A j, k \in n + 1 .. m + 1 : j <= k => off[j] <= off[k]
  /\ \A k \in n + 1 .. m : off[k + 1] = off[k] + Size(q[k]) /\ FrameAt(s, off[k], q[k])

Current(w) == Outbox[w][sender[w].i]

(* Behind its first o words s has nothing, or the head of a pack whose body *)
(* is still to be sent.                                                     *)
Tailed(s, o) ==
  \/ (\A w \in Senders : sender[w].pc = "head") /\ Len(s) = o
  \/ \E w \in Senders :
       /\ sender[w].pc = "body" /\ \A v \in Senders \ {w} : sender[v].pc = "head"
       /\ Len(s) = o + HeadLen
       /\ s[o + 1] = Len(Current(w).body) /\ s[o + 2] = Current(w).no

(* Every variable of a direction of a channel has its type; a body that is  *)
(* still to be sent is not empty, and recvPack waits for a body only when   *)
(* it has a head.                                                           *)
FrameTyped ==
  /\ sender \in [Senders -> [pc : {"head", "body"}, i : Nat \ {0}]]
  /\ \A w \in Senders : sender[w].pc = "body" =>
       sender[w].i <= Len(Outbox[w]) /\ Current(w).body # << >>
  /\ stream \in Seq(Nat) /\ open \in BOOLEAN
  /\ okSent \in Seq(AllPacks) /\ intact \in Int /\ (intact = -1 \/ intact \in 0 .. Len(okSent))
  /\ bRecv \in Seq(Nat) /\ rpc \in {"head", "body"} /\ (rpc = "body" => HeadReady)
  /\ len \in Nat /\ recvasio \in Seq(Nat)
  /\ delivered \in Seq(Packs) /\ gaveUp \in BOOLEAN

(* The packs sent before the damage and not yet delivered are ahead. *)
InFront ==
  \E off :
    /\ Laid(off, Ahead, okSent, Len(delivered), Sound)
    /\ Whole => Tailed(Ahead, off[Sound + 1])

FrameInv ==
  /\ FrameTyped
  /\ Whole => Len(delivered) <= Sound
  /\ Whole \/ Len(delivered) < Sound => InFront

-----------------------------------------------------------------------------
(* Sequences. *)

LEMMA CatFacts ==
  ASSUME NEW S, NEW s \in Seq(S), NEW t \in Seq(S)
  PROVE  /\ s \o t \in Seq(S) /\ Len(s \o t) = Len(s) + Len(t)
         /\ \A j \in 1 .. Len(s) : (s \o t)[j] = s[j]
         /\ \A j \in 1 .. Len(s) + Len(t) : j > Len(s) => (s \o t)[j] = t[j - Len(s)]
PROOF
  OBVIOUS

LEMMA SameSeq ==
  ASSUME NEW S, NEW s \in Seq(S), NEW t \in Seq(S), Len(s) = Len(t),
         \A j \in 1 .. Len(s) : s[j] = t[j]
  PROVE  s = t
PROOF
  OBVIOUS

Behind(s, n) == SubSeq(s, n + 1, Len(s))

LEMMA BehindFacts ==
  ASSUME NEW S, NEW s \in Seq(S), NEW n \in 0 .. Len(s)
  PROVE  /\ Behind(s, n) \in Seq(S) /\ Len(Behind(s, n)) = Len(s) - n
         /\ \A j \in 1 .. Len(s) - n : Behind(s, n)[j] = s[j + n]
PROOF
  <1>1. Len(s) \in Nat
    OBVIOUS
  <1>2. SubSeq(s, n + 1, Len(s)) \in Seq(S)
    BY <1>1
  <1>3. Len(SubSeq(s, n + 1, Len(s))) = Len(s) - n
    BY <1>1
  <1>4. \A j \in 1 .. Len(s) - n : SubSeq(s, n + 1, Len(s))[j] = s[j + n]
    BY <1>1
  <1> QED
    BY <1>2, <1>3, <1>4 DEF Behind

LEMMA FrontFacts ==
  ASSUME NEW S, NEW s \in Seq(S), NEW n \in 0 .. Len(s)
  PROVE  /\ SubSeq(s, 1, n) \in Seq(S) /\ Len(SubSeq(s, 1, n)) = n
         /\ \A j \in 1 .. n : SubSeq(s, 1, n)[j] = s[j]
PROOF
  <1>1. Len(s) \in Nat /\ n \in Nat /\ n <= Len(s)
    OBVIOUS
  <1>2. SubSeq(s, 1, n) \in Seq(S)
    BY <1>1
  <1>3. Len(SubSeq(s, 1, n)) = n
    BY <1>1
  <1>4. \A j \in 1 .. n : SubSeq(s, 1, n)[j] = s[j]
    BY <1>1
  <1> QED
    BY <1>2, <1>3, <1>4

LEMMA WholeIsFront ==
  ASSUME NEW S, NEW s \in Seq(S)
  PROVE  SubSeq(s, 1, Len(s)) = s
PROOF
  <1>1. Len(s) \in 0 .. Len(s)
    OBVIOUS
  <1>2. /\ SubSeq(s, 1, Len(s)) \in Seq(S) /\ Len(SubSeq(s, 1, Len(s))) = Len(s)
        /\ \A j \in 1 .. Len(s) : SubSeq(s, 1, Len(s))[j] = s[j]
    BY <1>1, FrontFacts
  <1> QED
    BY <1>2

(* A read moves words from the stream to _bRecv; what is ahead is the same. *)
LEMMA ReadKeepsAhead ==
  ASSUME NEW S, NEW b \in Seq(S), NEW w \in Seq(S), NEW n \in 0 .. Len(w)
  PROVE  (b \o SubSeq(w, 1, n)) \o Behind(w, n) = b \o w
PROOF
  <1> DEFINE p == SubSeq(w, 1, n)
             r == Behind(w, n)
             bp == b \o p
  <1>1. Len(b) \in Nat /\ Len(w) \in Nat /\ n \in Nat /\ n <= Len(w)
    OBVIOUS
  <1>2. p \in Seq(S) /\ Len(p) = n /\ \A j \in 1 .. n : p[j] = w[j]
    BY FrontFacts
  <1>3. r \in Seq(S) /\ Len(r) = Len(w) - n /\ \A j \in 1 .. Len(w) - n : r[j] = w[j + n]
    BY BehindFacts
  <1> HIDE DEF p, r
  <1>4. /\ bp \in Seq(S) /\ Len(bp) = Len(b) + Len(p)
        /\ \A j \in 1 .. Len(b) : bp[j] = b[j]
        /\ \A j \in 1 .. Len(b) + Len(p) : j > Len(b) => bp[j] = p[j - Len(b)]
    <2>1. p \in Seq(S)
      BY <1>2
    <2> QED
      BY <2>1, CatFacts
  <1> HIDE DEF bp
  <1>5. /\ bp \o r \in Seq(S) /\ Len(bp \o r) = Len(bp) + Len(r)
        /\ \A j \in 1 .. Len(bp) : (bp \o r)[j] = bp[j]
        /\ \A j \in 1 .. Len(bp) + Len(r) : j > Len(bp) => (bp \o r)[j] = r[j - Len(bp)]
    <2>1. bp \in Seq(S) /\ r \in Seq(S)
      BY <1>3, <1>4
    <2> QED
      BY <2>1, CatFacts
  <1>6. /\ b \o w \in Seq(S) /\ Len(b \o w) = Len(b) + Len(w)
        /\ \A j \in 1 .. Len(b) : (b \o w)[j] = b[j]
        /\ \A j \in 1 .. Len(b) + Len(w) : j > Len(b) => (b \o w)[j] = w[j - Len(b)]
    BY CatFacts
  <1>7. Len(bp) = Len(b) + n /\ Len(bp) + Len(r) = Len(b) + Len(w)
    BY <1>1, <1>2, <1>3, <1>4
  <1>8. ASSUME NEW j \in 1 .. Len(b) + Len(w) PROVE (bp \o r)[j] = (b \o w)[j]
    <2>0. j \in Nat /\ j >= 1 /\ j <= Len(b) + Len(w)
      BY <1>1
    <2>1. CASE j <= Len(b)
      <3>1. j \in 1 .. Len(b) /\ j \in 1 .. Len(bp)
        BY <1>1, <1>7, <2>0, <2>1
      <3> QED
        BY <1>4, <1>5, <1>6, <3>1
    <2>2. CASE j > Len(b) /\ j <= Len(b) + n
      <3>1. j \in 1 .. Len(bp) /\ j \in 1 .. Len(b) + Len(p) /\ j - Len(b) \in 1 .. n
        BY <1>1, <1>2, <1>7, <2>0, <2>2
      <3>2. (bp \o r)[j] = p[j - Len(b)]
        BY <1>4, <1>5, <2>2, <3>1
      <3>3. p[j - Len(b)] = w[j - Len(b)]
        BY <1>2, <3>1
      <3> QED
        BY <1>6, <2>2, <3>2, <3>3
    <2>3. CASE j > Len(b) + n
      <3>1. /\ j \in 1 .. Len(bp) + Len(r) /\ j > Len(bp) /\ j > Len(b)
            /\ j - Len(bp) \in 1 .. Len(w) - n /\ (j - Len(bp)) + n = j - Len(b)
        BY <1>1, <1>7, <2>0, <2>3
      <3>2. (bp \o r)[j] = r[j - Len(bp)]
        BY <1>5, <3>1
      <3>3. r[j - Len(bp)] = w[j - Len(b)]
        BY <1>3, <3>1
      <3> QED
        BY <1>6, <3>1, <3>2, <3>3
    <2>4. j <= Len(b) \/ (j > Len(b) /\ j <= Len(b) + n) \/ j > Len(b) + n
      BY <1>1, <2>0
    <2> QED
      BY <2>1, <2>2, <2>3, <2>4
  <1> DEFINE x == bp \o r
             y == b \o w
  <1>9. x \in Seq(S) /\ y \in Seq(S) /\ Len(x) = Len(y) /\ \A j \in 1 .. Len(x) : x[j] = y[j]
    BY <1>5, <1>6, <1>7, <1>8
  <1> HIDE DEF x, y
  <1>10. x = y
    BY <1>9, SameSeq
  <1> QED
    BY <1>10 DEF p, r, bp, x, y

(* What is taken from the front of b is taken from the front of b \o w. *)
LEMMA BehindOfCat ==
  ASSUME NEW S, NEW b \in Seq(S), NEW w \in Seq(S), NEW n \in 0 .. Len(b)
  PROVE  Behind(b, n) \o w = Behind(b \o w, n)
PROOF
  <1> DEFINE r == Behind(b, n)
             x == r \o w
             y == Behind(b \o w, n)
  <1>1. Len(b) \in Nat /\ Len(w) \in Nat /\ n \in Nat /\ n <= Len(b)
    OBVIOUS
  <1>2. r \in Seq(S) /\ Len(r) = Len(b) - n /\ \A j \in 1 .. Len(b) - n : r[j] = b[j + n]
    BY BehindFacts
  <1>3. /\ b \o w \in Seq(S) /\ Len(b \o w) = Len(b) + Len(w)
        /\ \A j \in 1 .. Len(b) : (b \o w)[j] = b[j]
        /\ \A j \in 1 .. Len(b) + Len(w) : j > Len(b) => (b \o w)[j] = w[j - Len(b)]
    BY CatFacts
  <1>4. n \in 0 .. Len(b \o w)
    BY <1>1, <1>3
  <1>5. /\ y \in Seq(S) /\ Len(y) = Len(b \o w) - n
        /\ \A j \in 1 .. Len(b \o w) - n : y[j] = (b \o w)[j + n]
    BY <1>3, <1>4, BehindFacts
  <1> HIDE DEF r, y
  <1>6. /\ x \in Seq(S) /\ Len(x) = Len(r) + Len(w)
        /\ \A j \in 1 .. Len(r) : x[j] = r[j]
        /\ \A j \in 1 .. Len(r) + Len(w) : j > Len(r) => x[j] = w[j - Len(r)]
    <2>1. r \in Seq(S)
      BY <1>2
    <2> QED
      BY <2>1, CatFacts
  <1> HIDE DEF x
  <1>7. Len(x) = Len(y) /\ Len(x) = (Len(b) - n) + Len(w)
    BY <1>1, <1>2, <1>3, <1>5, <1>6
  <1>8. ASSUME NEW j \in 1 .. Len(x) PROVE x[j] = y[j]
    <2>0. j \in Nat /\ j >= 1 /\ j <= (Len(b) - n) + Len(w) /\ y[j] = (b \o w)[j + n]
      BY <1>1, <1>3, <1>5, <1>7
    <2>1. CASE j <= Len(r)
      <3>1. j \in 1 .. Len(r) /\ j \in 1 .. Len(b) - n /\ j + n \in 1 .. Len(b)
        BY <1>1, <1>2, <2>0, <2>1
      <3> QED
        BY <1>2, <1>3, <1>6, <2>0, <3>1
    <2>2. CASE j > Len(r)
      <3>1. /\ j \in 1 .. Len(r) + Len(w) /\ j + n \in 1 .. Len(b) + Len(w) /\ j + n > Len(b)
            /\ j - Len(r) = (j + n) - Len(b)
        BY <1>1, <1>2, <2>0, <2>2
      <3> QED
        BY <1>3, <1>6, <2>0, <2>2, <3>1
    <2>3. Len(r) \in Nat
      BY <1>2
    <2> QED
      BY <2>0, <2>1, <2>2, <2>3
  <1>9. x = y
    BY <1>5, <1>6, <1>7, <1>8, SameSeq
  <1> QED
    BY <1>9 DEF x, y, r

-----------------------------------------------------------------------------
(* Frames in front of a sequence of words. *)

LEMMA PackFacts ==
  /\ AllPacks \subseteq Packs
  /\ \A w \in Senders : Outbox[w] \in Seq(Packs) /\ Len(Outbox[w]) \in Nat
  /\ \A w \in Senders : \A i \in 1 .. Len(Outbox[w]) : Outbox[w][i] \in AllPacks
  /\ \A p \in Packs : p.no \in Nat /\ p.body \in Seq(Nat) /\ Len(p.body) \in Nat /\ Size(p) \in Nat
                        /\ Size(p) = HeadLen + Len(p.body)
  /\ HeadLen = 2
PROOF
  <1>1. \A w \in Senders : Outbox[w] \in Seq(Packs)
    BY TcpFrameAssumption DEF Packs
  <1>2. ASSUME NEW w \in Senders
        PROVE  /\ Len(Outbox[w]) \in Nat /\ DOMAIN Outbox[w] = 1 .. Len(Outbox[w])
               /\ \A i \in 1 .. Len(Outbox[w]) : Outbox[w][i] \in Packs
    <2>1. Outbox[w] \in Seq(Packs)
      BY <1>1
    <2> QED
      BY <2>1
  <1>3. AllPacks \subseteq Packs
    BY <1>2 DEF AllPacks
  <1>4. \A w \in Senders : \A i \in 1 .. Len(Outbox[w]) : Outbox[w][i] \in AllPacks
    BY <1>2 DEF AllPacks
  <1>5. ASSUME NEW p \in Packs
        PROVE  p.no \in Nat /\ p.body \in Seq(Nat) /\ Len(p.body) \in Nat /\ Size(p) \in Nat
    <2>1. p.no \in Nat /\ p.body \in Seq(Nat)
      BY DEF Packs
    <2>2. Len(p.body) \in Nat
      BY <2>1
    <2> QED
      BY <2>1, <2>2 DEF Size, HeadLen
  <1> QED
    BY <1>1, <1>2, <1>3, <1>4, <1>5 DEF HeadLen, Size

(* A frame is not moved by what comes behind it. *)
LEMMA FrameStays ==
  ASSUME NEW s \in Seq(Nat), NEW t \in Seq(Nat), NEW o \in Nat, NEW p \in Packs,
         o + Size(p) <= Len(s), FrameAt(s, o, p)
  PROVE  FrameAt(s \o t, o, p)
PROOF
  <1>1. Len(p.body) \in Nat /\ Size(p) = 2 + Len(p.body) /\ HeadLen = 2 /\ Len(s) \in Nat
    BY PackFacts
  <1>2. \A j \in 1 .. Len(s) : (s \o t)[j] = s[j]
    BY CatFacts
  <1>3. o + 1 \in 1 .. Len(s) /\ o + 2 \in 1 .. Len(s)
    BY <1>1
  <1>4. \A i \in 1 .. Len(p.body) : o + HeadLen + i \in 1 .. Len(s)
    BY <1>1
  <1> QED
    BY <1>2, <1>3, <1>4 DEF FrameAt

LEMMA LaidMore ==
  ASSUME NEW s \in Seq(Nat), NEW t \in Seq(Nat), NEW q \in Seq(Packs),
         NEW n \in Nat, NEW m \in Nat, n <= m, m <= Len(q),
         NEW off, Laid(off, s, q, n, m)
  PROVE  Laid(off, s \o t, q, n, m)
PROOF
  <1>1. Len(s) \in Nat /\ Len(t) \in Nat /\ Len(s \o t) = Len(s) + Len(t)
    BY CatFacts
  <1>2. off[m + 1] <= Len(s \o t)
    <2>1. off[m + 1] \in Nat /\ off[m + 1] <= Len(s)
      <3>1. m + 1 \in n + 1 .. m + 1
        OBVIOUS
      <3> QED
        BY <3>1 DEF Laid
    <2> QED
      BY <1>1, <2>1
  <1>3. ASSUME NEW k \in n + 1 .. m PROVE FrameAt(s \o t, off[k], q[k])
    <2>1. k \in 1 .. Len(q) /\ k \in Nat /\ k + 1 \in n + 1 .. m + 1 /\ m + 1 \in n + 1 .. m + 1
      BY <1>3
    <2>2. q[k] \in Packs
      BY <2>1
    <2>3. off[k + 1] <= off[m + 1] /\ off[k + 1] = off[k] + Size(q[k]) /\ FrameAt(s, off[k], q[k])
      BY <2>1 DEF Laid
    <2>4. off[k] \in Nat /\ off[k + 1] \in Nat /\ off[m + 1] \in Nat /\ off[m + 1] <= Len(s)
      BY <2>1 DEF Laid
    <2>5. off[k] + Size(q[k]) <= Len(s)
      BY <1>1, <2>3, <2>4
    <2> QED
      BY <2>2, <2>3, <2>4, <2>5, FrameStays
  <1> QED
    BY <1>2, <1>3 DEF Laid

(* Nor do packs sent later matter. *)
LEMMA LaidAppend ==
  ASSUME NEW s \in Seq(Nat), NEW q \in Seq(Packs), NEW p \in Packs,
         NEW n \in Nat, NEW m \in Nat, n <= m, m <= Len(q), NEW off, Laid(off, s, q, n, m)
  PROVE  Laid(off, s, Append(q, p), n, m)
PROOF
  <1>1. \A k \in 1 .. Len(q) : Append(q, p)[k] = q[k]
    OBVIOUS
  <1>2. \A k \in n + 1 .. m : k \in 1 .. Len(q)
    OBVIOUS
  <1>3. \A k \in n + 1 .. m : Append(q, p)[k] = q[k]
    BY <1>1, <1>2
  <1> QED
    BY <1>3 DEF Laid

(* The frame of a pack that was sent whole comes behind the others. *)
LEMMA LaidNext ==
  ASSUME NEW s \in Seq(Nat), NEW q \in Seq(Packs), NEW p \in Packs,
         NEW n \in Nat, n <= Len(q), NEW off, Laid(off, s, q, n, Len(q)),
         off[Len(q) + 1] + Size(p) = Len(s), FrameAt(s, off[Len(q) + 1], p)
  PROVE  \E off2 :
           Laid(off2, s, Append(q, p), n, Len(q) + 1) /\ off2[(Len(q) + 1) + 1] = Len(s)
PROOF
  <1> DEFINE m == Len(q)
             q2 == Append(q, p)
             off2 == [k \in Nat |-> IF k = m + 2 THEN Len(s) ELSE off[k]]
  <1>1. m \in Nat /\ Len(s) \in Nat /\ (m + 1) + 1 = m + 2 /\ m + 2 \in Nat /\ m + 1 \in Nat
    OBVIOUS
  <1>2. (\A k \in 1 .. m : q2[k] = q[k]) /\ q2[m + 1] = p
    OBVIOUS
  <1> HIDE DEF m, q2
  <1>3. /\ off2[m + 2] = Len(s)
        /\ \A k \in Nat : k # m + 2 => off2[k] = off[k]
    BY <1>1
  <1> HIDE DEF off2
  <1>4. \A k \in n + 1 .. m + 1 : k \in Nat /\ k # m + 2 /\ off2[k] = off[k]
    BY <1>1, <1>3
  <1>5. n <= m /\ off[m + 1] <= Len(s) /\ n + 1 \in n + 1 .. m + 1 /\ off[m + 1] \in Nat
    BY <1>1 DEF m, Laid
  <1>6. off2[n + 1] = 0
    BY <1>4, <1>5 DEF Laid
  <1>7. ASSUME NEW j \in n + 1 .. m + 2, NEW k \in n + 1 .. m + 2, j <= k
        PROVE  off2[j] <= off2[k]
    <2>1. CASE k # m + 2
      <3>1. j \in n + 1 .. m + 1 /\ k \in n + 1 .. m + 1
        BY <1>1, <1>7, <2>1
      <3> QED
        BY <1>4, <1>7, <3>1 DEF Laid, m
    <2>2. CASE k = m + 2 /\ j # m + 2
      <3>1. j \in n + 1 .. m + 1 /\ j \in Nat /\ m + 1 \in n + 1 .. m + 1 /\ j <= m + 1
        BY <1>1, <1>5, <1>7, <2>2
      <3>2. off[j] <= off[m + 1]
        BY <3>1 DEF Laid, m
      <3>3. off[j] \in Nat
        BY <3>1 DEF Laid, m
      <3>4. off2[j] = off[j] /\ off2[k] = Len(s)
        BY <1>3, <1>4, <2>2, <3>1
      <3> QED
        BY <1>1, <1>5, <3>2, <3>3, <3>4
    <2>3. CASE k = m + 2 /\ j = m + 2
      BY <1>1, <1>3, <2>3
    <2> QED
      BY <2>1, <2>2, <2>3
  <1>8. ASSUME NEW k \in n + 1 .. m + 1
        PROVE  off2[k + 1] = off2[k] + Size(q2[k]) /\ FrameAt(s, off2[k], q2[k])
    <2>1. CASE k # m + 1
      <3>1. k \in n + 1 .. m /\ k \in 1 .. m /\ k + 1 \in n + 1 .. m + 1
        BY <1>1, <1>8, <2>1
      <3>2. off2[k] = off[k] /\ off2[k + 1] = off[k + 1] /\ q2[k] = q[k]
        BY <1>2, <1>4, <1>8, <3>1
      <3> QED
        BY <3>1, <3>2 DEF Laid, m
    <2>2. CASE k = m + 1
      <3>1. off2[k] = off[m + 1] /\ off2[k + 1] = Len(s) /\ q2[k] = p
        BY <1>1, <1>2, <1>3, <1>4, <1>8, <2>2
      <3> QED
        BY <3>1 DEF m
    <2> QED
      BY <2>1, <2>2
  <1>9. Len(s) <= Len(s)
    BY <1>1
  <1>10. ASSUME NEW k \in n + 1 .. m + 2 PROVE off2[k] \in Nat
    <2>1. CASE k = m + 2
      BY <1>1, <1>3, <2>1
    <2>2. CASE k # m + 2
      <3>1. k \in n + 1 .. m + 1
        BY <1>1, <1>10, <2>2
      <3>2. off[k] \in Nat
        BY <3>1 DEF Laid, m
      <3> QED
        BY <1>4, <3>1, <3>2
    <2> QED
      BY <2>1, <2>2
  <1>11. Laid(off2, s, q2, n, m + 1)
    <2>1. off2[(m + 1) + 1] <= Len(s)
      BY <1>1, <1>3, <1>9
    <2>2. \A j, k \in n + 1 .. (m + 1) + 1 : j <= k => off2[j] <= off2[k]
      BY <1>1, <1>7
    <2>3. \A k \in n + 1 .. (m + 1) + 1 : off2[k] \in Nat
      BY <1>1, <1>10
    <2> QED
      BY <1>6, <1>8, <2>1, <2>2, <2>3 DEF Laid
  <1> QED
    BY <1>1, <1>3, <1>11 DEF m, q2

(* A frame behind the first c words is moved to the front by c when those *)
(* are taken.                                                              *)
LEMMA FrameMoves ==
  ASSUME NEW s \in Seq(Nat), NEW c \in 0 .. Len(s), NEW o \in Nat, NEW p \in Packs,
         (o + Size(p)) + c <= Len(s), FrameAt(s, o + c, p)
  PROVE  FrameAt(Behind(s, c), o, p)
PROOF
  <1>1. /\ Len(p.body) \in Nat /\ Size(p) = 2 + Len(p.body) /\ HeadLen = 2 /\ Len(s) \in Nat
        /\ c \in Nat
    BY PackFacts
  <1>2. \A j \in 1 .. Len(s) - c : Behind(s, c)[j] = s[j + c]
    BY BehindFacts
  <1>3. o + 1 \in 1 .. Len(s) - c /\ o + 2 \in 1 .. Len(s) - c
    BY <1>1
  <1>4. \A i \in 1 .. Len(p.body) : o + HeadLen + i \in 1 .. Len(s) - c
    BY <1>1
  <1>5. /\ Behind(s, c)[o + 1] = s[(o + c) + 1] /\ Behind(s, c)[o + 2] = s[(o + c) + 2]
    <2>1. (o + 1) + c = (o + c) + 1 /\ (o + 2) + c = (o + c) + 2
      BY <1>1
    <2> QED
      BY <1>2, <1>3, <2>1
  <1>6. ASSUME NEW i \in 1 .. Len(p.body)
        PROVE  Behind(s, c)[o + HeadLen + i] = s[(o + c) + HeadLen + i]
    <2>1. (o + HeadLen + i) + c = (o + c) + HeadLen + i
      BY <1>1
    <2> QED
      BY <1>2, <1>4, <2>1
  <1> QED
    BY <1>5, <1>6 DEF FrameAt

LEMMA FrameDrops ==
  ASSUME NEW s \in Seq(Nat), NEW c \in 0 .. Len(s), NEW p \in Packs,
         NEW o \in Nat, NEW e \in Nat, o >= c, e = o + Size(p), e <= Len(s), FrameAt(s, o, p)
  PROVE  e - c = (o - c) + Size(p) /\ FrameAt(Behind(s, c), o - c, p)
PROOF
  <1>1. Size(p) \in Nat /\ c \in Nat /\ Len(s) \in Nat
    BY PackFacts
  <1>2. o - c \in Nat /\ (o - c) + c = o /\ ((o - c) + Size(p)) + c = e
    BY <1>1
  <1>3. FrameAt(Behind(s, c), o - c, p)
    BY <1>2, FrameMoves
  <1> QED
    BY <1>1, <1>3

(* The first frame is taken. *)
LEMMA LaidDrop ==
  ASSUME NEW s \in Seq(Nat), NEW q \in Seq(Packs),
         NEW n \in Nat, NEW m \in Nat, n < m, m <= Len(q),
         NEW off, Laid(off, s, q, n, m),
         NEW c \in Nat, c = Size(q[n + 1])
  PROVE  /\ c \in 0 .. Len(s)
         /\ \E off2 :
              /\ Laid(off2, Behind(s, c), q, n + 1, m)
              /\ off[m + 1] = off2[m + 1] + c
PROOF
  <1> DEFINE off2 == [k \in Nat |-> IF off[k] >= c THEN off[k] - c ELSE 0]
             r == Behind(s, c)
  <1>1. /\ n + 1 \in n + 1 .. m /\ n + 1 \in n + 1 .. m + 1 /\ n + 2 \in n + 1 .. m + 1
        /\ m + 1 \in n + 1 .. m + 1 /\ n + 1 \in 1 .. Len(q) /\ (n + 1) + 1 = n + 2 /\ n + 2 <= m + 1
        /\ Len(s) \in Nat
    OBVIOUS
  <1>2. q[n + 1] \in Packs
    BY <1>1
  <1>3. c \in Nat
    BY <1>2, PackFacts
  <1>4. off[n + 2] = c /\ off[n + 2] <= off[m + 1] /\ off[m + 1] <= Len(s)
    <2>1. off[(n + 1) + 1] = off[n + 1] + Size(q[n + 1]) /\ off[n + 1] = 0
      BY <1>1 DEF Laid
    <2>2. off[n + 2] = c
      BY <1>1, <1>3, <2>1
    <2> QED
      BY <1>1, <2>2 DEF Laid
  <1>5. c \in 0 .. Len(s)
    <2>1. off[m + 1] \in Nat
      BY <1>1 DEF Laid
    <2> QED
      BY <1>1, <1>3, <1>4, <2>1
  <1>6. /\ r \in Seq(Nat) /\ Len(r) = Len(s) - c
        /\ \A j \in 1 .. Len(s) - c : r[j] = s[j + c]
    BY <1>5, BehindFacts
  <1> HIDE DEF r
  <1>7. ASSUME NEW k \in n + 2 .. m + 1
        PROVE  k \in Nat /\ off[k] \in Nat /\ off[k] >= c /\ off2[k] = off[k] - c /\ off2[k] \in Nat
    <2>1. k \in Nat /\ k \in n + 1 .. m + 1 /\ n + 2 <= k
      BY <1>7
    <2>2. off[n + 2] <= off[k] /\ off[k] \in Nat
      BY <1>1, <2>1 DEF Laid
    <2>3. off[k] >= c
      BY <1>3, <1>4, <2>2
    <2> QED
      BY <1>3, <2>1, <2>2, <2>3
  <1> HIDE DEF off2
  <1>9. off2[n + 2] = 0 /\ off[m + 1] = off2[m + 1] + c /\ off2[m + 1] <= Len(r)
    <2>1. n + 2 \in n + 2 .. m + 1 /\ m + 1 \in n + 2 .. m + 1
      BY <1>1
    <2>2. off2[n + 2] = off[n + 2] - c /\ off2[m + 1] = off[m + 1] - c /\ off[m + 1] \in Nat
      BY <1>7, <2>1
    <2> QED
      BY <1>1, <1>3, <1>4, <1>6, <2>2, SMTT(30)
  <1>10. ASSUME NEW j \in n + 2 .. m + 1, NEW k \in n + 2 .. m + 1, j <= k
         PROVE  off2[j] <= off2[k]
    <2>1. j \in n + 1 .. m + 1 /\ k \in n + 1 .. m + 1
      BY <1>10
    <2>2. off[j] <= off[k]
      BY <1>10, <2>1 DEF Laid
    <2>3. off2[j] = off[j] - c /\ off2[k] = off[k] - c /\ off[j] \in Nat /\ off[k] \in Nat
      BY <1>7, <1>10
    <2> QED
      BY <1>3, <2>2, <2>3
  <1>11. ASSUME NEW k \in n + 2 .. m
         PROVE  off2[k + 1] = off2[k] + Size(q[k]) /\ FrameAt(r, off2[k], q[k])
    <2>1. /\ k \in n + 1 .. m /\ k \in n + 2 .. m + 1 /\ k + 1 \in n + 2 .. m + 1
          /\ k \in 1 .. Len(q) /\ k + 1 \in n + 1 .. m + 1 /\ k + 1 <= m + 1
      BY <1>11
    <2>2. q[k] \in Packs
      BY <2>1
    <2>3. off[k + 1] = off[k] + Size(q[k]) /\ FrameAt(s, off[k], q[k])
      BY <2>1 DEF Laid
    <2>4. off2[k] = off[k] - c /\ off2[k + 1] = off[k + 1] - c /\ off[k] >= c
      BY <1>7, <2>1
    <2>5. off[k] \in Nat /\ off[k + 1] \in Nat
      BY <2>1 DEF Laid
    <2>6. off[k + 1] <= Len(s)
      <3>1. off[k + 1] <= off[m + 1] /\ off[m + 1] <= Len(s) /\ off[m + 1] \in Nat
        BY <1>1, <2>1 DEF Laid
      <3> QED
        BY <1>1, <2>5, <3>1
    <2>7. /\ off[k + 1] - c = (off[k] - c) + Size(q[k])
          /\ FrameAt(Behind(s, c), off[k] - c, q[k])
      BY <1>5, <2>2, <2>3, <2>4, <2>5, <2>6, FrameDrops, SMTT(30)
    <2> QED
      BY <2>4, <2>7 DEF r
  <1>12. Laid(off2, r, q, n + 1, m)
    <2>1. off2[(n + 1) + 1] = 0 /\ off2[m + 1] <= Len(r)
      BY <1>1, <1>9
    <2>2. \A j, k \in (n + 1) + 1 .. m + 1 : j <= k => off2[j] <= off2[k]
      BY <1>1, <1>10
    <2>3. \A k \in (n + 1) + 1 .. m + 1 : off2[k] \in Nat
      BY <1>1, <1>7
    <2>4. \A k \in (n + 1) + 1 .. m : off2[k + 1] = off2[k] + Size(q[k]) /\ FrameAt(r, off2[k], q[k])
      BY <1>1, <1>11
    <2> QED
      BY <2>1, <2>2, <2>3, <2>4 DEF Laid
  <1> QED
    BY <1>5, <1>9, <1>12 DEF r

(* Concatenation is associative. *)
LEMMA CatAssoc ==
  ASSUME NEW S, NEW a \in Seq(S), NEW b \in Seq(S), NEW c \in Seq(S)
  PROVE  (a \o b) \o c = a \o (b \o c)
PROOF
  OBVIOUS

-----------------------------------------------------------------------------
(* One half of sendPack. *)

LEMMA PartFacts ==
  ASSUME FrameTyped, NEW w \in Senders, sender[w].i <= Len(Outbox[w])
  PROVE  /\ Current(w) \in AllPacks /\ Current(w) \in Packs
         /\ Part(w) \in Seq(Nat) /\ Len(Part(w)) \in Nat /\ Len(Part(w)) > 0
         /\ sender[w].pc = "head"
              => /\ Part(w) = << Len(Current(w).body), Current(w).no >>
                 /\ Len(Part(w)) = 2
                 /\ Part(w)[1] = Len(Current(w).body) /\ Part(w)[2] = Current(w).no
         /\ sender[w].pc # "head" => sender[w].pc = "body" /\ Part(w) = Current(w).body
         /\ LastPart(w) <=> sender[w].pc = "body" \/ Current(w).body = << >>
PROOF
  <1> DEFINE p == Current(w)
  <1>1. sender[w].i \in Nat \ {0} /\ sender[w].pc \in {"head", "body"}
    BY DEF FrameTyped
  <1>2. sender[w].i \in 1 .. Len(Outbox[w])
    BY <1>1, PackFacts
  <1>3. p \in AllPacks
    BY <1>2, PackFacts DEF Current
  <1>4. p \in Packs /\ p.no \in Nat /\ p.body \in Seq(Nat) /\ Len(p.body) \in Nat
    BY <1>3, PackFacts
  <1>5. Part(w) = IF sender[w].pc = "head" THEN << Len(p.body), p.no >> ELSE p.body
    BY DEF Part, Pack, Current
  <1>6. LastPart(w) <=> sender[w].pc = "body" \/ p.body = << >>
    BY DEF LastPart, Current
  <1>7. sender[w].pc = "body" => p.body # << >>
    BY DEF FrameTyped
  <1> HIDE DEF p
  <1>8. CASE sender[w].pc = "head"
    <2>1. Part(w) = << Len(p.body), p.no >>
      BY <1>5, <1>8
    <2> QED
      BY <1>3, <1>4, <1>6, <1>8, <2>1 DEF p
  <1>9. CASE sender[w].pc # "head"
    <2>1. Part(w) = p.body /\ sender[w].pc = "body"
      BY <1>1, <1>5, <1>9
    <2>2. Len(p.body) > 0
      BY <1>4, <1>7, <2>1
    <2> QED
      BY <1>3, <1>4, <1>6, <1>9, <2>1, <2>2 DEF p
  <1> QED
    BY <1>8, <1>9

(* The words that the kernel takes. *)
Words(w) == SubSeq(Part(w), 1, Taken(w))

LEMMA WordsFacts ==
  ASSUME FrameTyped, NEW w \in Senders, sender[w].i <= Len(Outbox[w]), open => Len(stream) < SockBuf
  PROVE  /\ Taken(w) \in Nat /\ Taken(w) <= Len(Part(w)) /\ (~ open => Taken(w) = 0)
         /\ Words(w) \in Seq(Nat)
         /\ Taken(w) = Len(Part(w)) => Words(w) = Part(w)
PROOF
  <1>1. Part(w) \in Seq(Nat) /\ Len(Part(w)) \in Nat
    BY PartFacts
  <1>2. Len(stream) \in Nat /\ SockBuf \in Nat
    BY TcpFrameAssumption DEF FrameTyped
  <1>3. Taken(w) \in Nat /\ Taken(w) <= Len(Part(w)) /\ (~ open => Taken(w) = 0)
    <2>1. CASE open
      BY <1>1, <1>2, <2>1 DEF Taken, Smaller
    <2>2. CASE ~ open
      BY <1>1, <2>2 DEF Taken
    <2> QED
      BY <2>1, <2>2
  <1>4. Taken(w) \in 0 .. Len(Part(w))
    BY <1>1, <1>3
  <1>5. Words(w) \in Seq(Nat)
    BY <1>1, <1>4, FrontFacts DEF Words
  <1>6. Taken(w) = Len(Part(w)) => Words(w) = Part(w)
    BY <1>1, WholeIsFront DEF Words
  <1> QED
    BY <1>3, <1>5, <1>6

(* What a half of sendPack does to its coroutine and to the packs that      *)
(* count as sent.                                                           *)
Advances(w) == sender' = [sender EXCEPT ![w] = [pc |-> "head", i |-> @.i + 1]]
ToBody(w) == sender' = [sender EXCEPT ![w].pc = "body"]

LEMMA SendCases ==
  ASSUME NEW w \in Senders, SendPart(w)
  PROVE  /\ sender[w].i <= Len(Outbox[w]) /\ (open => Len(stream) < SockBuf)
         /\ stream' = stream \o Words(w)
         /\ UNCHANGED << open, bRecv, rpc, len, recvasio, delivered, gaveUp >>
         /\ \/ SentWhole(w) /\ ~LastPart(w) /\ ToBody(w) /\ okSent' = okSent
            \/ SentWhole(w) /\ LastPart(w) /\ Advances(w) /\ okSent' = Append(okSent, Current(w))
            \/ ~SentWhole(w) /\ Advances(w) /\ okSent' = okSent
         /\ intact' = IF intact = -1 /\ Damages(w) THEN Len(okSent) ELSE intact
PROOF
  BY DEF SendPart, Words, Current, Advances, ToBody

LEMMA SendTyped ==
  ASSUME FrameTyped, NEW w \in Senders, SendPart(w)
  PROVE  FrameTyped'
PROOF
  <1>1. /\ Current(w) \in AllPacks /\ sender[w].i <= Len(Outbox[w])
        /\ Words(w) \in Seq(Nat)
        /\ LastPart(w) <=> sender[w].pc = "body" \/ Current(w).body = << >>
    BY SendCases, PartFacts, WordsFacts
  <1>2. sender' \in [Senders -> [pc : {"head", "body"}, i : Nat \ {0}]]
    <2>1. sender[w].i + 1 \in Nat \ {0}
      BY DEF FrameTyped
    <2>2. Advances(w) \/ ToBody(w)
      BY SendCases
    <2>3. sender \in [Senders -> [pc : {"head", "body"}, i : Nat \ {0}]]
      BY DEF FrameTyped
    <2>4. CASE Advances(w)
      BY <2>1, <2>3, <2>4 DEF Advances
    <2>5. CASE ToBody(w)
      BY <2>3, <2>5 DEF ToBody
    <2> QED
      BY <2>2, <2>4, <2>5
  <1>3. ASSUME NEW v \in Senders, sender'[v].pc = "body"
        PROVE  sender'[v].i <= Len(Outbox[v]) /\ Outbox[v][sender'[v].i].body # << >>
    <2>1. CASE v # w
      <3>1. sender'[v] = sender[v]
        BY <2>1, SendCases DEF Advances, ToBody, FrameTyped
      <3> QED
        BY <1>3, <3>1 DEF FrameTyped, Current
    <2>2. CASE v = w
      <3>1. ~ Advances(w)
        BY <1>3, <2>2 DEF Advances, FrameTyped
      <3>2. ToBody(w) /\ ~LastPart(w)
        BY <3>1, SendCases
      <3>3. sender'[w].i = sender[w].i
        BY <3>2 DEF ToBody, FrameTyped
      <3> QED
        BY <1>1, <2>2, <3>2, <3>3 DEF Current
    <2> QED
      BY <2>1, <2>2
  <1>4. stream' \in Seq(Nat)
    <2>1. stream \in Seq(Nat)
      BY DEF FrameTyped
    <2> QED
      BY <1>1, <2>1, CatFacts, SendCases
  <1>5. okSent' \in Seq(AllPacks) /\ Len(okSent) \in Nat /\ Len(okSent) <= Len(okSent')
    <2>1. okSent \in Seq(AllPacks)
      BY DEF FrameTyped
    <2>2. okSent' = okSent \/ okSent' = Append(okSent, Current(w))
      BY SendCases
    <2> QED
      BY <1>1, <2>1, <2>2, SMTT(30)
  <1>6. intact' \in Int /\ (intact' = -1 \/ intact' \in 0 .. Len(okSent'))
    <2>1. Len(okSent') \in Nat
      BY <1>5
    <2>2. intact \in Int /\ (intact = -1 \/ intact \in 0 .. Len(okSent))
      BY DEF FrameTyped
    <2>3. intact' = Len(okSent) \/ intact' = intact
      BY SendCases
    <2> QED
      BY <1>5, <2>1, <2>2, <2>3
  <1>7. UNCHANGED << open, bRecv, rpc, len, recvasio, delivered, gaveUp >>
    BY SendCases
  <1> QED
    BY <1>2, <1>3, <1>4, <1>5, <1>6, <1>7 DEF FrameTyped, Current, HeadReady
-----------------------------------------------------------------------------
(* What the packs sent so far look like to the receiver. *)

LEMMA CountFacts ==
  ASSUME FrameTyped
  PROVE  /\ Len(delivered) \in Nat /\ Len(okSent) \in Nat /\ Sound \in Nat /\ Sound <= Len(okSent)
         /\ okSent \in Seq(Packs) /\ Ahead \in Seq(Nat) /\ Len(Ahead) = Len(bRecv) + Len(stream)
         /\ \A j \in 1 .. Len(bRecv) : Ahead[j] = bRecv[j]
         /\ Len(bRecv) \in Nat /\ Len(stream) \in Nat
         /\ bRecv \in Seq(Nat) /\ stream \in Seq(Nat)
         /\ \A k \in 1 .. Len(okSent) : okSent[k] \in Packs
PROOF
  <1>1. bRecv \in Seq(Nat) /\ stream \in Seq(Nat)
    BY DEF FrameTyped
  <1>2. Ahead \in Seq(Nat) /\ Len(Ahead) = Len(bRecv) + Len(stream)
        /\ \A j \in 1 .. Len(bRecv) : Ahead[j] = bRecv[j]
    BY <1>1, CatFacts DEF Ahead
  <1>3. okSent \in Seq(AllPacks) /\ delivered \in Seq(Packs)
    BY DEF FrameTyped
  <1>4. okSent \in Seq(Packs) /\ Len(okSent) \in Nat /\ Len(delivered) \in Nat
    BY <1>3, PackFacts
  <1>5. Sound \in Nat /\ Sound <= Len(okSent)
    <2>1. intact = -1 \/ intact \in 0 .. Len(okSent)
      BY DEF FrameTyped
    <2> QED
      BY <1>4, <2>1 DEF Sound
  <1> QED
    BY <1>1, <1>2, <1>4, <1>5

(* The first of the packs that are laid out is at the front. *)
LEMMA FirstFrame ==
  ASSUME NEW s \in Seq(Nat), NEW q \in Seq(Packs), NEW n \in Nat, NEW m \in Nat,
         n < m, m <= Len(q), NEW off, Laid(off, s, q, n, m)
  PROVE  /\ n + 1 \in 1 .. Len(q) /\ q[n + 1] \in Packs
         /\ s[1] = Len(q[n + 1].body) /\ s[2] = q[n + 1].no
         /\ \A i \in 1 .. Len(q[n + 1].body) : s[2 + i] = q[n + 1].body[i]
         /\ 2 + Len(q[n + 1].body) <= Len(s)
PROOF
  <1>1. n + 1 \in n + 1 .. m /\ n + 1 \in 1 .. Len(q)
    OBVIOUS
  <1>2. q[n + 1] \in Packs
    BY <1>1
  <1> DEFINE p == q[n + 1]
  <1>3. Size(p) \in Nat /\ Size(p) = 2 + Len(p.body) /\ HeadLen = 2 /\ Len(p.body) \in Nat
    BY <1>2, PackFacts
  <1>4. FrameAt(s, 0, p)
    BY <1>1 DEF Laid
  <1>5. Size(p) <= Len(s)
    BY <1>3, LaidDrop
  <1> HIDE DEF p
  <1>6. s[1] = Len(p.body) /\ s[2] = p.no /\ \A i \in 1 .. Len(p.body) : s[2 + i] = p.body[i]
    <2>1. 0 + 1 = 1 /\ 0 + 2 = 2 /\ \A i \in 1 .. Len(p.body) : 0 + HeadLen + i = 2 + i
      BY <1>3
    <2> QED
      BY <1>4, <2>1 DEF FrameAt
  <1> QED
    BY <1>1, <1>2, <1>3, <1>5, <1>6 DEF p

LEMMA SendAhead ==
  ASSUME FrameTyped, NEW w \in Senders, SendPart(w)
  PROVE  Ahead' = Ahead \o Words(w)
PROOF
  <1>1. Words(w) \in Seq(Nat)
    BY WordsFacts, SendCases
  <1>2. stream' = stream \o Words(w) /\ bRecv' = bRecv
    BY SendCases
  <1>3. bRecv \in Seq(Nat) /\ stream \in Seq(Nat)
    BY CountFacts
  <1>4. (bRecv \o stream) \o Words(w) = bRecv \o (stream \o Words(w))
    BY <1>1, <1>3, CatAssoc, SMTT(30)
  <1> QED
    BY <1>2, <1>4 DEF Ahead

(* After the damage, and when only the damage has happened, sending leaves *)
(* what is in front in front.                                              *)
LEMMA SendBehind ==
  ASSUME FrameTyped, NEW w \in Senders, SendPart(w), Sound' = Sound, Len(delivered) <= Sound,
         NEW off, Laid(off, Ahead, okSent, Len(delivered), Sound)
  PROVE  Laid(off, Ahead', okSent', Len(delivered'), Sound')
PROOF
  <1>1. Words(w) \in Seq(Nat) /\ Current(w) \in Packs
    BY PartFacts, WordsFacts, SendCases
  <1>2. Ahead' = Ahead \o Words(w)
    BY SendAhead
  <1>3. Laid(off, Ahead \o Words(w), okSent, Len(delivered), Sound)
    BY <1>1, CountFacts, LaidMore
  <1>4. okSent' = okSent \/ okSent' = Append(okSent, Current(w))
    BY SendCases
  <1>5. Laid(off, Ahead \o Words(w), okSent', Len(delivered), Sound)
    <2>1. Ahead \o Words(w) \in Seq(Nat)
      BY <1>1, CatFacts, CountFacts
    <2> QED
      BY <1>1, <1>3, <1>4, <2>1, CountFacts, LaidAppend
  <1>6. delivered' = delivered
    BY SendCases
  <1> QED
    BY <1>2, <1>5, <1>6

-----------------------------------------------------------------------------
(* A half of sendPack that damages nothing. *)

LEMMA TwoWords ==
  ASSUME NEW s \in Seq(Nat), NEW x \in Seq(Nat), Len(x) = 2
  PROVE  /\ Len(s \o x) = Len(s) + 2
         /\ (s \o x)[Len(s) + 1] = x[1] /\ (s \o x)[Len(s) + 2] = x[2]
PROOF
  <1>1. Len(s) \in Nat
    OBVIOUS
  <1>2. /\ Len(s) + 1 \in 1 .. Len(s) + Len(x) /\ Len(s) + 1 > Len(s)
        /\ (Len(s) + 1) - Len(s) = 1
        /\ Len(s) + 2 \in 1 .. Len(s) + Len(x) /\ Len(s) + 2 > Len(s)
        /\ (Len(s) + 2) - Len(s) = 2
    BY <1>1
  <1>3. /\ Len(s \o x) = Len(s) + Len(x)
        /\ \A j \in 1 .. Len(s) + Len(x) : j > Len(s) => (s \o x)[j] = x[j - Len(s)]
    BY CatFacts
  <1> QED
    BY <1>2, <1>3

LEMMA HeadJoined ==
  ASSUME NEW s \in Seq(Nat), NEW x \in Seq(Nat), NEW p \in Packs,
         Len(x) = 2, x[1] = Len(p.body), x[2] = p.no, Len(p.body) = 0
  PROVE  FrameAt(s \o x, Len(s), p) /\ Len(s) + Size(p) = Len(s \o x)
PROOF
  <1>1. Size(p) = 2 /\ HeadLen = 2
    BY PackFacts
  <1>2. /\ Len(s \o x) = Len(s) + 2
        /\ (s \o x)[Len(s) + 1] = x[1] /\ (s \o x)[Len(s) + 2] = x[2]
    BY TwoWords
  <1>3. \A i \in 1 .. Len(p.body) : (s \o x)[Len(s) + HeadLen + i] = p.body[i]
    OBVIOUS
  <1> QED
    BY <1>1, <1>2, <1>3 DEF FrameAt

LEMMA BodyJoined ==
  ASSUME NEW s \in Seq(Nat), NEW p \in Packs, NEW o \in Nat,
         Len(s) = o + 2, s[o + 1] = Len(p.body), s[o + 2] = p.no
  PROVE  FrameAt(s \o p.body, o, p) /\ o + Size(p) = Len(s \o p.body)
PROOF
  <1> DEFINE x == p.body
  <1>1. x \in Seq(Nat) /\ Len(x) \in Nat /\ Size(p) = 2 + Len(x) /\ HeadLen = 2
    BY PackFacts
  <1> HIDE DEF x
  <1>2. /\ Len(s \o x) = Len(s) + Len(x)
        /\ \A j \in 1 .. Len(s) : (s \o x)[j] = s[j]
        /\ \A j \in 1 .. Len(s) + Len(x) : j > Len(s) => (s \o x)[j] = x[j - Len(s)]
    BY <1>1, CatFacts
  <1>3. o + 1 \in 1 .. Len(s) /\ o + 2 \in 1 .. Len(s)
    OBVIOUS
  <1>4. ASSUME NEW i \in 1 .. Len(x) PROVE (s \o x)[o + HeadLen + i] = x[i]
    <2>1. /\ o + HeadLen + i \in 1 .. Len(s) + Len(x) /\ o + HeadLen + i > Len(s)
          /\ (o + HeadLen + i) - Len(s) = i
      BY <1>1
    <2> QED
      BY <1>2, <2>1
  <1>5. o + Size(p) = Len(s \o x)
    BY <1>1, <1>2
  <1> QED
    BY <1>2, <1>3, <1>4, <1>5 DEF FrameAt, x

LEMMA CleanFacts ==
  ASSUME FrameTyped, NEW w \in Senders, SendPart(w), Whole, ~Damages(w)
  PROVE  /\ Words(w) = Part(w) /\ SentWhole(w) /\ Whole' /\ intact' = -1
         /\ \A v \in Senders \ {w} : sender[v].pc = "head" /\ sender'[v] = sender[v]
         /\ Sound = Len(okSent) /\ Sound' = Len(okSent')
PROOF
  <1>1. /\ Taken(w) \in Nat /\ Taken(w) <= Len(Part(w)) /\ Len(Part(w)) \in Nat
        /\ (Taken(w) = Len(Part(w)) => Words(w) = Part(w))
    BY PartFacts, WordsFacts, SendCases
  <1>2. Taken(w) = Len(Part(w))
    <2>1. ~ (Taken(w) < Len(Part(w)))
      BY DEF Damages
    <2> QED
      BY <1>1, <2>1
  <1>3. open /\ intact = -1
    BY DEF Whole
  <1>4. SentWhole(w)
    BY <1>2, <1>3 DEF SentWhole, Counted
  <1>5. intact' = -1 /\ open'
    BY <1>3, SendCases
  <1>6. ASSUME NEW v \in Senders \ {w} PROVE sender[v].pc = "head" /\ sender'[v] = sender[v]
    <2>1. sender[v].pc \in {"head", "body"} /\ sender[v].pc # "body"
      BY DEF Damages, FrameTyped
    <2>2. Advances(w) \/ ToBody(w)
      BY SendCases
    <2>3. sender'[v] = sender[v]
      BY <2>2 DEF Advances, ToBody, FrameTyped
    <2> QED
      BY <2>1, <2>3
  <1> QED
    BY <1>1, <1>2, <1>3, <1>4, <1>5, <1>6 DEF Whole, Sound

(* The head of a pack with a body. *)
LEMMA CleanHead ==
  ASSUME FrameInv, NEW w \in Senders, SendPart(w), Whole, ~Damages(w), ~LastPart(w)
  PROVE  Len(delivered') <= Sound' /\ InFront'
PROOF
  <1> FrameTyped
    BY DEF FrameInv
  <1> DEFINE p == Current(w)
             x == Part(w)
  <1>1. /\ sender[w].pc = "head" /\ p \in Packs /\ x \in Seq(Nat) /\ Len(x) = 2
        /\ x[1] = Len(p.body) /\ x[2] = p.no
    BY PartFacts, SendCases
  <1>2. ToBody(w) /\ okSent' = okSent /\ delivered' = delivered
    BY SendCases, CleanFacts
  <1>3. sender'[w].pc = "body" /\ sender'[w].i = sender[w].i
    BY <1>2 DEF ToBody, FrameTyped
  <1>4. \A v \in Senders \ {w} : sender[v].pc = "head" /\ sender'[v].pc = "head"
    BY CleanFacts
  <1>5. Sound' = Sound
    BY <1>2, CleanFacts
  <1>6. Len(delivered) <= Sound /\ InFront
    BY DEF FrameInv
  <1>7. PICK off : Laid(off, Ahead, okSent, Len(delivered), Sound) /\ Tailed(Ahead, off[Sound + 1])
    BY <1>6 DEF InFront
  <1>8. Laid(off, Ahead', okSent', Len(delivered'), Sound')
    BY <1>5, <1>6, <1>7, SendBehind
  <1>9. PICK o \in Nat : o = off[Sound + 1] /\ o = Len(Ahead)
    <2>1. \A v \in Senders : sender[v].pc = "head"
      BY <1>1, <1>4
    <2>2. Len(Ahead) = off[Sound + 1]
      BY <1>7, <2>1 DEF Tailed
    <2>3. Len(Ahead) \in Nat
      BY CountFacts
    <2> QED
      BY <2>2, <2>3
  <1>10. Ahead' = Ahead \o x
    BY SendAhead, CleanFacts
  <1>11. Len(Ahead') = o + HeadLen /\ Ahead'[o + 1] = Len(p.body) /\ Ahead'[o + 2] = p.no
    <2>1. Ahead \in Seq(Nat)
      BY CountFacts
    <2> HIDE DEF x, p
    <2>2. /\ Len(Ahead \o x) = Len(Ahead) + Len(x)
          /\ \A j \in 1 .. Len(Ahead) + Len(x) : j > Len(Ahead) => (Ahead \o x)[j] = x[j - Len(Ahead)]
      <3>1. x \in Seq(Nat)
        BY <1>1
      <3> QED
        BY <2>1, <3>1, CatFacts
    <2>3. /\ o + 1 \in 1 .. o + 2 /\ o + 1 > o /\ (o + 1) - o = 1
          /\ o + 2 \in 1 .. o + 2 /\ o + 2 > o /\ (o + 2) - o = 2
      BY <1>9
    <2> QED
      BY <1>1, <1>9, <1>10, <2>2, <2>3 DEF HeadLen
  <1>12. Tailed(Ahead, o)'
    <2>1. Outbox[w][sender'[w].i] = p
      BY <1>3 DEF Current
    <2> HIDE DEF p
    <2> QED
      BY <1>3, <1>4, <1>11, <2>1 DEF Tailed, Current
  <1>13. Tailed(Ahead, off[Sound + 1])'
    BY <1>5, <1>9, <1>12
  <1> QED
    BY <1>2, <1>5, <1>6, <1>8, <1>13 DEF InFront

(* The last part of a pack, its body or the head of an empty one: the pack *)
(* counts as sent, and its frame is behind the others.                     *)
LEMMA CleanLast ==
  ASSUME FrameInv, NEW w \in Senders, SendPart(w), Whole, ~Damages(w), LastPart(w)
  PROVE  Len(delivered') <= Sound' /\ InFront'
PROOF
  <1> FrameTyped
    BY DEF FrameInv
  <1> DEFINE p == Current(w)
             x == Part(w)
             n == Len(delivered)
             m == Len(okSent)
  <1>1. /\ p \in Packs /\ x \in Seq(Nat)
        /\ sender[w].pc = "head" => Len(x) = 2 /\ x[1] = Len(p.body) /\ x[2] = p.no /\ p.body = << >>
        /\ sender[w].pc # "head" => sender[w].pc = "body" /\ x = p.body
    BY PartFacts, SendCases
  <1>2. Advances(w) /\ okSent' = Append(okSent, p) /\ delivered' = delivered
    BY SendCases, CleanFacts
  <1>3. \A v \in Senders : sender'[v].pc = "head"
    BY <1>2, CleanFacts DEF Advances, FrameTyped
  <1>4. \A v \in Senders \ {w} : sender[v].pc = "head"
    BY CleanFacts
  <1>5. /\ n \in Nat /\ m \in Nat /\ okSent \in Seq(Packs) /\ Ahead \in Seq(Nat) /\ Len(Ahead) \in Nat
        /\ Sound = m
    BY CountFacts, CleanFacts
  <1>6. Sound' = m + 1
    BY <1>2, <1>5, CleanFacts
  <1>7. n <= m /\ InFront
    BY <1>5 DEF FrameInv
  <1>8. PICK off : Laid(off, Ahead, okSent, n, m) /\ Tailed(Ahead, off[m + 1])
    BY <1>5, <1>7 DEF InFront
  <1>9. PICK o \in Nat : o = off[m + 1]
    <2>1. m + 1 \in n + 1 .. m + 1
      BY <1>5, <1>7
    <2> HIDE DEF n, m
    <2> QED
      BY <1>8, <2>1 DEF Laid
  <1>10. FrameAt(Ahead \o x, o, p) /\ o + Size(p) = Len(Ahead \o x)
    <2>1. CASE sender[w].pc = "head"
      <3>1. \A v \in Senders : sender[v].pc = "head"
        BY <1>4, <2>1
      <3>2. Len(Ahead) = o
        BY <1>8, <1>9, <3>1 DEF Tailed
      <3>3. Len(p.body) = 0 /\ Len(x) = 2 /\ x[1] = Len(p.body) /\ x[2] = p.no
        BY <1>1, <2>1
      <3> HIDE DEF p, x
      <3> QED
        BY <1>1, <1>5, <3>2, <3>3, HeadJoined
    <2>2. CASE sender[w].pc # "head"
      <3>1. PICK u \in Senders :
              /\ sender[u].pc = "body" /\ Len(Ahead) = o + HeadLen
              /\ Ahead[o + 1] = Len(Current(u).body) /\ Ahead[o + 2] = Current(u).no
        BY <1>8, <1>9, <2>2 DEF Tailed
      <3>2. u = w
        BY <1>4, <3>1
      <3>3. Len(Ahead) = o + 2 /\ Ahead[o + 1] = Len(p.body) /\ Ahead[o + 2] = p.no
        BY <3>1, <3>2 DEF HeadLen
      <3>4. x = p.body
        BY <1>1, <2>2
      <3> HIDE DEF p, x
      <3> QED
        BY <1>1, <1>5, <3>3, <3>4, BodyJoined
    <2> QED
      BY <2>1, <2>2
  <1>11. Ahead' = Ahead \o x
    BY SendAhead, CleanFacts
  <1>12. PICK off2 : Laid(off2, Ahead \o x, Append(okSent, p), n, m + 1)
                       /\ off2[(m + 1) + 1] = Len(Ahead \o x)
    <2>1. Laid(off, Ahead \o x, okSent, n, m)
      <3> HIDE DEF x
      <3> QED
        BY <1>1, <1>5, <1>7, <1>8, LaidMore, SMTT(30)
    <2>2. Ahead \o x \in Seq(Nat)
      BY <1>1, <1>5, CatFacts
    <2> HIDE DEF p, x, n
    <2> QED
      BY <1>1, <1>5, <1>7, <1>9, <1>10, <2>1, <2>2, LaidNext
  <1>13. Laid(off2, Ahead', okSent', Len(delivered'), Sound')
    BY <1>2, <1>6, <1>11, <1>12
  <1>14. Len(Ahead') = off2[Sound' + 1]
    BY <1>6, <1>11, <1>12
  <1>15. Tailed(Ahead, off2[Sound + 1])'
    BY <1>3, <1>14 DEF Tailed
  <1>16. Len(delivered') <= Sound'
    BY <1>2, <1>5, <1>6, <1>7
  <1> QED
    BY <1>13, <1>15, <1>16 DEF InFront

-----------------------------------------------------------------------------
(* Every step keeps the frames in place. *)

(* Sound is left alone by a half of sendPack that finds the channel damaged *)
(* or damages it.                                                           *)
LEMMA DamageFacts ==
  ASSUME FrameTyped, NEW w \in Senders, SendPart(w), ~Whole \/ Damages(w)
  PROVE  Sound' = Sound /\ ~Whole'
PROOF
  <1>1. intact = -1 \/ intact \in 0 .. Len(okSent)
    BY DEF FrameTyped
  <1>2. Len(okSent) \in Nat
    BY CountFacts
  <1>3. CASE intact = -1
    <2>1. Damages(w)
      <3>1. CASE ~ open
        <4>1. Taken(w) = 0 /\ Len(Part(w)) \in Nat /\ Len(Part(w)) > 0
          BY <3>1, PartFacts, WordsFacts, SendCases
        <4> QED
          BY <4>1 DEF Damages
      <3>2. CASE open
        BY <1>3, <3>2 DEF Whole
      <3> QED
        BY <3>1, <3>2
    <2>2. intact' = Len(okSent)
      BY <1>3, <2>1, SendCases
    <2>3. intact' # -1
      BY <1>2, <2>2
    <2> QED
      BY <1>3, <2>2, <2>3 DEF Sound, Whole
  <1>4. CASE intact # -1
    <2>1. intact' = intact
      BY <1>4, SendCases
    <2> QED
      BY <1>4, <2>1 DEF Sound, Whole
  <1> QED
    BY <1>3, <1>4

LEMMA SendInv ==
  ASSUME FrameInv, NEW w \in Senders, SendPart(w)
  PROVE  FrameInv'
PROOF
  <1> FrameTyped
    BY DEF FrameInv
  <1>1. FrameTyped'
    BY SendTyped
  <1>2. CASE Whole /\ ~Damages(w)
    <2>1. Len(delivered') <= Sound' /\ InFront'
      BY <1>2, CleanHead, CleanLast
    <2> QED
      BY <1>1, <2>1 DEF FrameInv
  <1>3. CASE ~Whole \/ Damages(w)
    <2>1. Sound' = Sound /\ ~Whole' /\ delivered' = delivered
      BY <1>3, DamageFacts, SendCases
    <2>2. ASSUME Len(delivered') < Sound' PROVE InFront'
      <3>1. Len(delivered) < Sound
        BY <2>1, <2>2
      <3>2. Len(delivered) <= Sound
        BY <3>1, CountFacts
      <3>3. PICK off : Laid(off, Ahead, okSent, Len(delivered), Sound)
        BY <3>1 DEF FrameInv, InFront
      <3>4. Laid(off, Ahead', okSent', Len(delivered'), Sound')
        BY <2>1, <3>2, <3>3, SendBehind
      <3> QED
        BY <2>1, <3>4 DEF InFront
    <2> QED
      BY <1>1, <2>1, <2>2 DEF FrameInv
  <1> QED
    BY <1>2, <1>3

LEMMA ReadInv ==
  ASSUME FrameInv, ReadSome
  PROVE  FrameInv'
PROOF
  <1> FrameTyped
    BY DEF FrameInv
  <1>1. PICK k \in 1 .. Smaller(ChunkMax, Len(stream)) :
          /\ len' = k
          /\ recvasio' = SubSeq(stream, 1, k)
          /\ bRecv' = bRecv \o SubSeq(stream, 1, k)
          /\ stream' = Behind(stream, k)
    BY DEF ReadSome, Behind
  <1>2. UNCHANGED << sender, open, okSent, intact, rpc, delivered, gaveUp >>
    BY DEF ReadSome
  <1>3. k \in 0 .. Len(stream) /\ k \in Nat
    <2>1. ChunkMax \in Nat /\ Len(stream) \in Nat
      BY TcpFrameAssumption, CountFacts
    <2> QED
      BY <2>1 DEF Smaller
  <1>4. bRecv \in Seq(Nat) /\ stream \in Seq(Nat)
    BY CountFacts
  <1>5. SubSeq(stream, 1, k) \in Seq(Nat) /\ Behind(stream, k) \in Seq(Nat)
    BY <1>3, <1>4, FrontFacts, BehindFacts
  <1>6. /\ bRecv \o SubSeq(stream, 1, k) \in Seq(Nat)
        /\ Len(bRecv \o SubSeq(stream, 1, k)) = Len(bRecv) + Len(SubSeq(stream, 1, k))
    BY <1>4, <1>5, CatFacts
  <1>7. FrameTyped'
    <2>1. rpc' = "body" => HeadReady'
      <3>1. rpc = "body" => HeadReady
        BY DEF FrameTyped
      <3>2. Len(bRecv) \in Nat /\ Len(SubSeq(stream, 1, k)) \in Nat
        BY <1>4, <1>5
      <3> DEFINE l == Len(bRecv)
                 x == Len(SubSeq(stream, 1, k))
      <3>3. Len(bRecv') = l + x
        BY <1>1, <1>6
      <3>4. l \in Nat /\ x \in Nat
        BY <3>2
      <3> HIDE DEF l, x
      <3>5. l >= 2 => l + x >= 2
        BY <3>4
      <3> QED
        BY <1>2, <3>1, <3>3, <3>5 DEF HeadReady, HeadLen, l
    <2> QED
      BY <1>1, <1>2, <1>3, <1>5, <1>6, <2>1 DEF FrameTyped, Current
  <1>8. Ahead' = Ahead
    BY <1>1, <1>3, <1>4, ReadKeepsAhead DEF Ahead
  <1>9. Sound' = Sound /\ Whole' = Whole
    BY <1>2 DEF Sound, Whole
  <1>10. ASSUME NEW o PROVE Tailed(Ahead, o)' <=> Tailed(Ahead, o)
    BY <1>2, <1>8 DEF Tailed, Current
  <1>11. InFront => InFront'
    BY <1>2, <1>8, <1>9, <1>10 DEF InFront
  <1> QED
    BY <1>2, <1>7, <1>9, <1>11 DEF FrameInv

(* recvPack fails to read only when it has returned all that was sent      *)
(* before the damage: the frame of such a pack is in _bRecv as a whole.    *)
LEMMA ReadFailsLate ==
  ASSUME FrameInv, ReadFails
  PROVE  ~Whole /\ ~ (Len(delivered) < Sound)
PROOF
  <1> FrameTyped
    BY DEF FrameInv
  <1>1. Waiting /\ stream = << >> /\ ~open
    BY DEF ReadFails
  <1>2. ~Whole
    BY <1>1 DEF Whole
  <1>3. ASSUME Len(delivered) < Sound PROVE FALSE
    <2>1. PICK off : Laid(off, Ahead, okSent, Len(delivered), Sound)
      BY <1>3 DEF FrameInv, InFront
    <2> DEFINE p == okSent[Len(delivered) + 1]
    <2>2. p \in Packs /\ Ahead[1] = Len(p.body) /\ 2 + Len(p.body) <= Len(Ahead)
      BY <1>3, <2>1, CountFacts, FirstFrame
    <2>3. Len(p.body) \in Nat
      BY <2>2, PackFacts
    <2>4. Len(Ahead) = Len(bRecv) /\ Len(bRecv) \in Nat
      BY <1>1, CountFacts
    <2> HIDE DEF p
    <2>5. 1 \in 1 .. Len(bRecv) /\ Len(bRecv) >= 2
      BY <2>2, <2>3, <2>4
    <2>6. bRecv[1] = Len(p.body)
      BY <2>2, <2>5, CountFacts
    <2>7. HeadReady /\ BodyReady
      BY <2>2, <2>3, <2>4, <2>5, <2>6 DEF HeadReady, BodyReady, HeadLen
    <2> QED
      BY <1>1, <2>7 DEF Waiting
  <1> QED
    BY <1>2, <1>3

(* recvPack returns a pack.  If one that was sent before the damage is     *)
(* still to come it is that one; otherwise the channel is damaged, because *)
(* of an undamaged channel only a head without its body can be ahead.      *)
LEMMA ReturnFacts ==
  ASSUME FrameTyped, ReturnPack
  PROVE  /\ Len(bRecv) \in Nat /\ Len(bRecv) >= 2 /\ bRecv[1] \in Nat /\ bRecv[2] \in Nat
         /\ HeadLen + bRecv[1] \in 0 .. Len(bRecv)
         /\ bRecv' = Behind(bRecv, HeadLen + bRecv[1])
         /\ delivered' = Append(delivered, [no |-> bRecv[2],
                                            body |-> SubSeq(bRecv, HeadLen + 1, HeadLen + bRecv[1])])
         /\ rpc' = "head" /\ len' = 0
         /\ UNCHANGED << sender, stream, open, okSent, intact, recvasio, gaveUp >>
PROOF
  <1>1. rpc = "body" /\ BodyReady
    BY DEF ReturnPack
  <1>2. HeadReady
    BY <1>1 DEF FrameTyped
  <1>3. bRecv \in Seq(Nat) /\ Len(bRecv) \in Nat
    BY CountFacts
  <1>4. Len(bRecv) >= 2
    BY <1>2 DEF HeadReady, HeadLen
  <1>5. bRecv[1] \in Nat /\ bRecv[2] \in Nat
    <2>1. 1 \in 1 .. Len(bRecv) /\ 2 \in 1 .. Len(bRecv)
      BY <1>3, <1>4
    <2> QED
      BY <1>3, <2>1
  <1>6. HeadLen + bRecv[1] \in 0 .. Len(bRecv)
    BY <1>1, <1>3, <1>5 DEF BodyReady, HeadLen
  <1> QED
    BY <1>3, <1>4, <1>5, <1>6 DEF ReturnPack, Rest, Behind

(* A body, as recvPack cuts it out of _bRecv. *)
LEMMA BodyFacts ==
  ASSUME NEW b \in Seq(Nat), NEW n \in Nat, 2 + n <= Len(b)
  PROVE  /\ SubSeq(b, HeadLen + 1, HeadLen + n) \in Seq(Nat)
         /\ Len(SubSeq(b, HeadLen + 1, HeadLen + n)) = n
         /\ \A i \in 1 .. n : SubSeq(b, HeadLen + 1, HeadLen + n)[i] = b[2 + i]
PROOF
  <1>1. Len(b) \in Nat /\ HeadLen = 2 /\ HeadLen + 1 = 3 /\ HeadLen + n = 2 + n
    BY DEF HeadLen
  <1>2. SubSeq(b, 3, 2 + n) \in Seq(Nat)
    BY <1>1
  <1>3. Len(SubSeq(b, 3, 2 + n)) = n
    BY <1>1
  <1>4. \A i \in 1 .. n : SubSeq(b, 3, 2 + n)[i] = b[2 + i]
    BY <1>1, SMTT(30)
  <1> QED
    BY <1>1, <1>2, <1>3, <1>4

LEMMA ReturnTyped ==
  ASSUME FrameTyped, ReturnPack
  PROVE  FrameTyped'
PROOF
  <1> DEFINE n == bRecv[1]
             p == [no |-> bRecv[2], body |-> SubSeq(bRecv, HeadLen + 1, HeadLen + n)]
  <1>1. bRecv \in Seq(Nat) /\ n \in Nat /\ 2 + n <= Len(bRecv)
    BY CountFacts, ReturnFacts, SMTT(30) DEF HeadLen
  <1>2. SubSeq(bRecv, HeadLen + 1, HeadLen + n) \in Seq(Nat)
    BY <1>1, BodyFacts
  <1>3. p \in Packs
    BY <1>2, ReturnFacts DEF Packs
  <1>4. delivered' \in Seq(Packs)
    <2>1. delivered \in Seq(Packs)
      BY DEF FrameTyped
    <2>2. delivered' = Append(delivered, p)
      BY ReturnFacts
    <2> HIDE DEF p
    <2> QED
      BY <1>3, <2>1, <2>2
  <1>5. bRecv' \in Seq(Nat)
    BY <1>1, BehindFacts, ReturnFacts
  <1>6. rpc' = "head" /\ len' = 0 /\ UNCHANGED << sender, stream, open, okSent, intact, recvasio, gaveUp >>
    BY ReturnFacts
  <1> QED
    BY <1>4, <1>5, <1>6 DEF FrameTyped, Current, HeadReady

LEMMA OnlyHead ==
  ASSUME NEW l \in Nat, NEW k \in Nat, NEW h \in Nat, 2 + h <= l, l + k = 2
  PROVE  l = 2 /\ h = 0
PROOF
  OBVIOUS

LEMMA ReturnLate ==
  ASSUME FrameInv, ReturnPack, ~ (Len(delivered) < Sound)
  PROVE  ~Whole
PROOF
  <1> FrameTyped
    BY DEF FrameInv
  <1> SUFFICES ASSUME Whole PROVE FALSE
    OBVIOUS
  <1>1. Len(delivered) = Sound /\ InFront
    BY CountFacts DEF FrameInv
  <1>2. PICK off : Laid(off, Ahead, okSent, Sound, Sound) /\ Tailed(Ahead, off[Sound + 1])
    BY <1>1 DEF InFront
  <1>3. off[Sound + 1] = 0
    BY <1>2 DEF Laid
  <1>4. /\ Len(bRecv) >= 2 /\ bRecv[1] \in Nat /\ 2 + bRecv[1] <= Len(bRecv)
        /\ Len(bRecv) \in Nat /\ Len(stream) \in Nat /\ Len(Ahead) = Len(bRecv) + Len(stream)
    BY ReturnFacts, CountFacts, SMTT(30) DEF HeadLen
  <1>5. Tailed(Ahead, 0)
    BY <1>2, <1>3
  <1>6. PICK w \in Senders :
          sender[w].pc = "body" /\ Len(Ahead) = 0 + HeadLen /\ Ahead[0 + 1] = Len(Current(w).body)
    <2>1. Len(Ahead) # 0
      BY <1>4
    <2> QED
      BY <1>5, <2>1 DEF Tailed
  <1>7. Len(bRecv) = 2 /\ bRecv[1] = 0
    <2>1. Len(Ahead) = 2
      BY <1>6 DEF HeadLen
    <2>2. Len(bRecv) + Len(stream) = 2
      BY <1>4, <2>1, Zenon
    <2> QED
      BY <1>4, <2>2, OnlyHead
  <1>8. Len(Current(w).body) = 0
    <2>1. 1 \in 1 .. Len(bRecv)
      BY <1>7
    <2>2. Ahead[1] = bRecv[1]
      BY <2>1, CountFacts
    <2> QED
      BY <1>6, <1>7, <2>2
  <1>9. Current(w).body # << >> /\ Current(w).body \in Seq(Nat)
    <2>1. sender[w].i <= Len(Outbox[w]) /\ Current(w).body # << >>
      BY <1>6 DEF FrameTyped
    <2>2. Current(w) \in Packs
      BY <2>1, PartFacts
    <2> QED
      BY <2>1, <2>2, PackFacts
  <1> QED
    BY <1>8, <1>9

LEMMA ReturnNext ==
  ASSUME FrameInv, ReturnPack, Len(delivered) < Sound
  PROVE  /\ delivered' = Append(delivered, okSent[Len(delivered) + 1])
         /\ HeadLen + bRecv[1] = Size(okSent[Len(delivered) + 1])
PROOF
  <1> FrameTyped
    BY DEF FrameInv
  <1> DEFINE p == okSent[Len(delivered) + 1]
             b == SubSeq(bRecv, HeadLen + 1, HeadLen + bRecv[1])
  <1>1. PICK off : Laid(off, Ahead, okSent, Len(delivered), Sound)
    BY DEF FrameInv, InFront
  <1>2. /\ p \in Packs /\ Ahead[1] = Len(p.body) /\ Ahead[2] = p.no
        /\ \A i \in 1 .. Len(p.body) : Ahead[2 + i] = p.body[i]
    BY <1>1, CountFacts, FirstFrame, ZenonT(30)
  <1> HIDE DEF p
  <1>3. /\ p.body \in Seq(Nat) /\ Len(p.body) \in Nat /\ HeadLen = 2 /\ Size(p) = 2 + Len(p.body)
    BY <1>2, PackFacts
  <1>4. /\ Len(bRecv) \in Nat /\ Len(bRecv) >= 2 /\ bRecv \in Seq(Nat)
        /\ bRecv[1] \in Nat /\ 2 + bRecv[1] <= Len(bRecv)
    BY CountFacts, ReturnFacts, SMTT(30) DEF HeadLen
  <1>5. bRecv[1] = Len(p.body) /\ bRecv[2] = p.no
    <2>1. 1 \in 1 .. Len(bRecv) /\ 2 \in 1 .. Len(bRecv)
      BY <1>4
    <2>2. Ahead[1] = bRecv[1] /\ Ahead[2] = bRecv[2]
      BY <2>1, CountFacts
    <2> QED
      BY <1>2, <2>2
  <1>6. b \in Seq(Nat) /\ Len(b) = Len(p.body) /\ \A i \in 1 .. Len(p.body) : b[i] = bRecv[2 + i]
    <2>1. b \in Seq(Nat) /\ Len(b) = bRecv[1] /\ \A i \in 1 .. bRecv[1] : b[i] = bRecv[2 + i]
      BY <1>4, BodyFacts
    <2> HIDE DEF b
    <2> QED
      BY <1>5, <2>1
  <1> HIDE DEF b
  <1>7. ASSUME NEW i \in 1 .. Len(p.body) PROVE b[i] = p.body[i]
    <2>1. 2 + i \in 1 .. Len(bRecv)
      BY <1>3, <1>4, <1>5
    <2>2. Ahead[2 + i] = bRecv[2 + i]
      BY <2>1, CountFacts
    <2> QED
      BY <1>2, <1>6, <2>2
  <1>8. b = p.body
    BY <1>3, <1>6, <1>7, SameSeq
  <1>9. [no |-> bRecv[2], body |-> b] = p
    <2>1. p = [no |-> p.no, body |-> p.body]
      BY <1>2 DEF Packs
    <2> QED
      BY <1>5, <1>8, <2>1
  <1>10. delivered' = Append(delivered, [no |-> bRecv[2], body |-> b])
    BY ReturnFacts DEF b
  <1> QED
    BY <1>3, <1>5, <1>9, <1>10 DEF p

LEMMA TailMoves ==
  ASSUME NEW s \in Seq(Nat), NEW c \in 0 .. Len(s), NEW o \in Nat, Tailed(s, o + c)
  PROVE  Tailed(Behind(s, c), o)
PROOF
  <1> DEFINE r == Behind(s, c)
  <1>1. c \in Nat /\ Len(s) \in Nat
    OBVIOUS
  <1>2. Len(r) = Len(s) - c /\ \A j \in 1 .. Len(s) - c : r[j] = s[j + c]
    BY BehindFacts
  <1> HIDE DEF r
  <1>3. CASE (\A w \in Senders : sender[w].pc = "head") /\ Len(s) = o + c
    <2>1. Len(r) = o
      BY <1>1, <1>2, <1>3
    <2> QED
      BY <1>3, <2>1 DEF Tailed, r
  <1>4. CASE \E w \in Senders :
               /\ sender[w].pc = "body" /\ \A v \in Senders \ {w} : sender[v].pc = "head"
               /\ Len(s) = (o + c) + HeadLen
               /\ s[(o + c) + 1] = Len(Current(w).body) /\ s[(o + c) + 2] = Current(w).no
    <2>1. Len(s) = (o + c) + 2
      BY <1>4 DEF HeadLen
    <2>2. /\ Len(r) = o + HeadLen /\ o + 1 \in 1 .. Len(s) - c /\ o + 2 \in 1 .. Len(s) - c
          /\ (o + 1) + c = (o + c) + 1 /\ (o + 2) + c = (o + c) + 2
      BY <1>1, <1>2, <2>1 DEF HeadLen
    <2>3. r[o + 1] = s[(o + c) + 1] /\ r[o + 2] = s[(o + c) + 2]
      BY <1>2, <2>2, SMTT(30)
    <2> QED
      BY <1>4, <2>2, <2>3 DEF Tailed, r
  <1> QED
    BY <1>3, <1>4 DEF Tailed

LEMMA ReturnInv ==
  ASSUME FrameInv, ReturnPack
  PROVE  FrameInv'
PROOF
  <1> FrameTyped
    BY DEF FrameInv
  <1>1. FrameTyped'
    BY ReturnTyped
  <1>2. sender' = sender /\ stream' = stream /\ open' = open /\ okSent' = okSent /\ intact' = intact
    BY ReturnFacts
  <1>3. Sound' = Sound /\ Whole' = Whole
    BY <1>2 DEF Sound, Whole
  <1>4. Len(delivered') = Len(delivered) + 1
    <2>1. delivered \in Seq(Packs)
      BY DEF FrameTyped
    <2>2. \E p : delivered' = Append(delivered, p)
      BY ReturnFacts
    <2> QED
      BY <2>1, <2>2
  <1>5. CASE ~ (Len(delivered) < Sound)
    <2>1. ~Whole
      BY <1>5, ReturnLate
    <2>2. ~ (Len(delivered') < Sound')
      BY <1>3, <1>4, <1>5, CountFacts
    <2> QED
      BY <1>1, <1>3, <2>1, <2>2 DEF FrameInv
  <1>6. CASE Len(delivered) < Sound
    <2>1. PICK c \in Nat : c = Size(okSent[Len(delivered) + 1]) /\ c = HeadLen + bRecv[1]
      <3>1. HeadLen + bRecv[1] \in Nat
        BY ReturnFacts DEF HeadLen
      <3> QED
        BY <1>6, <3>1, ReturnNext
    <2>2. PICK off : /\ Laid(off, Ahead, okSent, Len(delivered), Sound)
                     /\ Whole => Tailed(Ahead, off[Sound + 1])
      BY <1>6 DEF FrameInv, InFront
    <2>3. /\ c \in 0 .. Len(Ahead)
          /\ \E off2 : /\ Laid(off2, Behind(Ahead, c), okSent, Len(delivered) + 1, Sound)
                       /\ off[Sound + 1] = off2[Sound + 1] + c
      <3>1. /\ Ahead \in Seq(Nat) /\ okSent \in Seq(Packs) /\ Len(delivered) \in Nat /\ Sound \in Nat
            /\ Sound <= Len(okSent)
        BY CountFacts
      <3>2. c = Size(okSent[Len(delivered) + 1])
        BY <2>1
      <3> QED
        BY <1>6, <2>2, <3>1, <3>2, LaidDrop, SMTT(30)
    <2>4. PICK off2 : /\ Laid(off2, Behind(Ahead, c), okSent, Len(delivered) + 1, Sound)
                      /\ off[Sound + 1] = off2[Sound + 1] + c
      BY <2>3
    <2>5. Ahead' = Behind(Ahead, c)
      <3>1. c \in 0 .. Len(bRecv) /\ bRecv' = Behind(bRecv, c)
        BY <2>1, ReturnFacts
      <3>2. bRecv \in Seq(Nat) /\ stream \in Seq(Nat)
        BY CountFacts
      <3>3. Behind(bRecv, c) \o stream = Behind(bRecv \o stream, c)
        BY <3>1, <3>2, BehindOfCat
      <3> QED
        BY <1>2, <3>1, <3>3 DEF Ahead
    <2>6. Len(delivered') <= Sound'
      BY <1>3, <1>4, <1>6, CountFacts
    <2>7. Laid(off2, Ahead', okSent', Len(delivered'), Sound')
      BY <1>2, <1>3, <1>4, <2>4, <2>5
    <2>8. ASSUME Whole PROVE Tailed(Ahead, off2[Sound + 1])'
      <3>1. PICK o \in Nat : o = off2[Sound + 1]
        <4>1. Sound + 1 \in (Len(delivered) + 1) + 1 .. Sound + 1
          BY <1>6, CountFacts
        <4> QED
          BY <2>4, <4>1 DEF Laid
      <3>2. Tailed(Ahead, o + c)
        BY <2>2, <2>4, <2>8, <3>1
      <3>3. Tailed(Behind(Ahead, c), o)
        BY <2>3, <3>2, CountFacts, TailMoves
      <3>4. Tailed(Ahead, o)'
        BY <1>2, <2>5, <3>3 DEF Tailed, Current
      <3> QED
        BY <1>3, <3>1, <3>4
    <2>9. InFront'
      BY <1>3, <2>7, <2>8 DEF InFront
    <2> QED
      BY <1>1, <2>6, <2>9 DEF FrameInv
  <1> QED
    BY <1>5, <1>6

LEMMA FailInv ==
  ASSUME FrameInv, ReadFails
  PROVE  FrameInv'
PROOF
  <1> FrameTyped
    BY DEF FrameInv
  <1>1. UNCHANGED << sender, stream, open, okSent, intact, len, recvasio, delivered >>
    BY DEF ReadFails
  <1>2. FrameTyped'
    <2>1. bRecv \in Seq(Nat) /\ recvasio \in Seq(Nat) /\ (rpc = "body" => HeadReady)
      BY DEF FrameTyped
    <2>2. CASE bRecv' = bRecv \o recvasio /\ UNCHANGED << rpc, gaveUp >>
      <3>1. bRecv' \in Seq(Nat) /\ Len(bRecv') = Len(bRecv) + Len(recvasio)
        BY <2>1, <2>2, CatFacts
      <3>2. rpc' = "body" => HeadReady'
        <4>1. Len(bRecv) \in Nat /\ Len(recvasio) \in Nat
          BY <2>1
        <4>2. Len(bRecv) >= 2 => Len(bRecv') >= 2
          BY <3>1, <4>1
        <4> QED
          BY <2>1, <2>2, <4>2 DEF HeadReady, HeadLen
      <3> QED
        BY <1>1, <2>2, <3>1, <3>2 DEF FrameTyped, Current
    <2>3. CASE rpc' = "head" /\ gaveUp' = TRUE /\ UNCHANGED bRecv
      BY <1>1, <2>3 DEF FrameTyped, Current, HeadReady
    <2> QED
      BY <2>2, <2>3 DEF ReadFails
  <1>3. Sound' = Sound /\ Whole' = Whole
    BY <1>1 DEF Sound, Whole
  <1>4. ~Whole /\ ~ (Len(delivered) < Sound)
    BY ReadFailsLate
  <1> QED
    BY <1>1, <1>2, <1>3, <1>4 DEF FrameInv

(* Steps that leave the words where they are. *)
LEMMA QuietInv ==
  ASSUME FrameInv, UnpackHead \/ Close \/ UNCHANGED vars
  PROVE  FrameInv'
PROOF
  <1> FrameTyped
    BY DEF FrameInv
  <1>1. UNCHANGED << sender, stream, okSent, intact, bRecv, len, recvasio, delivered, gaveUp >>
    BY DEF UnpackHead, Close, vars
  <1>2. FrameTyped' /\ (Whole' => Whole)
    <2>1. CASE UnpackHead
      <3>1. rpc' = "body" /\ HeadReady /\ open' = open
        BY <2>1 DEF UnpackHead
      <3>2. HeadReady'
        BY <1>1, <3>1 DEF HeadReady
      <3> QED
        BY <1>1, <3>1, <3>2 DEF FrameTyped, Current, Whole
    <2>2. CASE Close \/ UNCHANGED vars
      <3>1. rpc' = rpc /\ open' \in BOOLEAN /\ (open' => open)
        <4>1. open \in BOOLEAN
          BY DEF FrameTyped
        <4>2. CASE Close
          <5>1. rpc' = rpc /\ open /\ open' = FALSE
            BY <4>2 DEF Close
          <5> QED
            BY <5>1
        <4>3. CASE UNCHANGED vars
          <5>1. rpc' = rpc /\ open' = open
            BY <4>3 DEF vars
          <5> QED
            BY <4>1, <5>1
        <4> QED
          BY <2>2, <4>2, <4>3
      <3>2. rpc' = "body" => HeadReady'
        BY <1>1, <3>1 DEF HeadReady, FrameTyped
      <3>3. FrameTyped'
        BY <1>1, <3>1, <3>2 DEF FrameTyped, Current
      <3> QED
        BY <1>1, <3>1, <3>3 DEF Whole
    <2> QED
      BY <2>1, <2>2
  <1>3. Sound' = Sound /\ Ahead' = Ahead
    BY <1>1 DEF Sound, Ahead
  <1>4. ASSUME NEW o PROVE Tailed(Ahead, o)' <=> Tailed(Ahead, o)
    BY <1>1, <1>3 DEF Tailed, Current
  <1>5. InFront => InFront'
    BY <1>1, <1>2, <1>3, <1>4 DEF InFront
  <1> QED
    BY <1>1, <1>2, <1>3, <1>5 DEF FrameInv

LEMMA InitInv == Init => FrameInv
PROOF
  <1> SUFFICES ASSUME Init PROVE FrameInv
    OBVIOUS
  <1>1. FrameTyped
    <2>1. sender \in [Senders -> [pc : {"head", "body"}, i : Nat \ {0}]]
      BY DEF Init
    <2>2. \A w \in Senders : sender[w].pc = "head"
      BY DEF Init
    <2>3. okSent \in Seq(AllPacks) /\ delivered \in Seq(Packs)
      BY DEF Init
    <2>4. stream \in Seq(Nat) /\ bRecv \in Seq(Nat) /\ recvasio \in Seq(Nat) /\ len \in Nat
      BY DEF Init
    <2>5. open \in BOOLEAN /\ gaveUp \in BOOLEAN
      BY Zenon DEF Init
    <2>6. intact = -1 /\ intact \in Int /\ rpc = "head"
      BY DEF Init
    <2> QED
      BY <2>1, <2>2, <2>3, <2>4, <2>5, <2>6 DEF FrameTyped
  <1>2. Sound = 0 /\ Ahead = << >> /\ Len(Ahead) = 0 /\ Len(delivered) = 0
    BY DEF Init, Sound, Ahead
  <1> DEFINE off == [k \in Nat |-> 0]
  <1>3. \A k \in Nat : off[k] = 0
    OBVIOUS
  <1> HIDE DEF off
  <1>4. Laid(off, Ahead, okSent, 0, 0)
    BY <1>2, <1>3 DEF Laid
  <1>5. Tailed(Ahead, off[1])
    BY <1>2, <1>3 DEF Tailed, Init
  <1>6. InFront
    BY <1>2, <1>4, <1>5 DEF InFront
  <1> QED
    BY <1>1, <1>2, <1>6 DEF FrameInv

LEMMA FrameInvariant == Spec => []FrameInv
PROOF
  <1>1. FrameInv /\ [Next]_vars => FrameInv'
    <2> SUFFICES ASSUME FrameInv, [Next]_vars PROVE FrameInv'
      OBVIOUS
    <2>1. CASE \E w \in Senders : SendPart(w)
      BY <2>1, SendInv
    <2>2. CASE ReadSome
      BY <2>2, ReadInv
    <2>3. CASE ReadFails
      BY <2>3, FailInv
    <2>4. CASE UnpackHead \/ Close \/ UNCHANGED vars
      BY <2>4, QuietInv
    <2>5. CASE ReturnPack
      BY <2>5, ReturnInv
    <2> QED
      BY <2>1, <2>2, <2>3, <2>4, <2>5 DEF Next, RecvStep
  <1> QED
    BY <1>1, InitInv, PTL DEF Spec

-----------------------------------------------------------------------------
(* Every step is a step of the pipe. *)

LEMMA SendSimulates ==
  ASSUME FrameTyped, NEW w \in Senders, SendPart(w)
  PROVE  [Pipe!Next]_(Pipe!vars)
PROOF
  <1>1. Current(w) \in AllPacks
    BY PartFacts, SendCases
  <1>2. /\ okSent' = okSent \/ okSent' = Append(okSent, Current(w))
        /\ delivered' = delivered /\ open' = open
    BY SendCases
  <1>3. CASE ~Whole \/ Damages(w)
    <2>1. Sound' = Sound /\ ~Whole'
      BY <1>3, DamageFacts
    <2>2. CASE Whole
      <3>1. Pipe!Damage
        BY <1>1, <1>2, <2>1, <2>2 DEF Pipe!Damage
      <3> QED
        BY <3>1 DEF Pipe!Next
    <2>3. CASE ~Whole /\ okSent' = okSent
      BY <1>2, <2>1, <2>3 DEF Pipe!vars
    <2>4. CASE ~Whole /\ okSent' = Append(okSent, Current(w))
      <3>1. Pipe!Send
        BY <1>1, <1>2, <2>1, <2>4 DEF Pipe!Send
      <3> QED
        BY <3>1 DEF Pipe!Next
    <2> QED
      BY <1>2, <2>2, <2>3, <2>4
  <1>4. CASE Whole /\ ~Damages(w)
    <2>1. Whole' /\ Sound = Len(okSent) /\ Sound' = Len(okSent')
      BY <1>4, CleanFacts
    <2>2. CASE okSent' = okSent
      BY <1>2, <1>4, <2>1, <2>2 DEF Pipe!vars
    <2>3. CASE okSent' = Append(okSent, Current(w))
      <3>1. Sound' = Sound + 1
        BY <1>1, <2>1, <2>3 DEF FrameTyped
      <3>2. Pipe!Send
        BY <1>1, <1>2, <1>4, <2>1, <2>3, <3>1 DEF Pipe!Send
      <3> QED
        BY <3>2 DEF Pipe!Next
    <2> QED
      BY <1>2, <2>2, <2>3
  <1> QED
    BY <1>3, <1>4

LEMMA ReturnSimulates ==
  ASSUME FrameInv, ReturnPack
  PROVE  [Pipe!Next]_(Pipe!vars)
PROOF
  <1> FrameTyped
    BY DEF FrameInv
  <1>1. okSent' = okSent /\ open' = open /\ intact' = intact
    BY ReturnFacts
  <1>2. Sound' = Sound /\ Whole' = Whole
    BY <1>1 DEF Sound, Whole
  <1>3. CASE Len(delivered) < Sound
    <2>1. Pipe!Receive
      BY <1>1, <1>2, <1>3, ReturnNext DEF Pipe!Receive
    <2> QED
      BY <2>1 DEF Pipe!Next
  <1>4. CASE ~ (Len(delivered) < Sound)
    <2>1. ~Whole /\ Len(delivered) >= Sound
      BY <1>4, CountFacts, ReturnLate
    <2>2. Len(delivered') = Len(delivered) + 1 /\ SubSeq(delivered', 1, Len(delivered)) = delivered
      <3>1. delivered \in Seq(Packs) /\ delivered' \in Seq(Packs)
        BY ReturnTyped DEF FrameTyped
      <3>2. PICK p : delivered' = Append(delivered, p)
        BY ReturnFacts
      <3>3. /\ Len(delivered') = Len(delivered) + 1 /\ Len(delivered) \in Nat
            /\ \A j \in 1 .. Len(delivered) : delivered'[j] = delivered[j]
        BY <3>1, <3>2
      <3>4. Len(delivered) \in 0 .. Len(delivered')
        BY <3>3
      <3> DEFINE f == SubSeq(delivered', 1, Len(delivered))
      <3>5. f \in Seq(Packs) /\ Len(f) = Len(delivered) /\ \A j \in 1 .. Len(delivered) : f[j] = delivered'[j]
        BY <3>1, <3>4, FrontFacts
      <3> HIDE DEF f
      <3>6. f = delivered
        BY <3>1, <3>3, <3>5, SameSeq
      <3> QED
        BY <3>3, <3>6 DEF f
    <2>3. Pipe!Garbage
      BY <1>1, <1>2, <2>1, <2>2 DEF Pipe!Garbage
    <2> QED
      BY <2>3 DEF Pipe!Next
  <1> QED
    BY <1>3, <1>4

LEMMA CloseSimulates ==
  ASSUME Close
  PROVE  [Pipe!Next]_(Pipe!vars)
PROOF
  <1>1. okSent' = okSent /\ intact' = intact /\ delivered' = delivered /\ ~open'
    BY DEF Close
  <1>2. Sound' = Sound /\ ~Whole'
    BY <1>1 DEF Sound, Whole
  <1>3. CASE Whole
    <2>1. Pipe!Damage
      BY <1>1, <1>2, <1>3 DEF Pipe!Damage
    <2> QED
      BY <2>1 DEF Pipe!Next
  <1>4. CASE ~Whole
    BY <1>1, <1>2, <1>4 DEF Pipe!vars
  <1> QED
    BY <1>3, <1>4

(* TcpChannelImpl is the pipe of packs that the request/reply layer expects, *)
(* whoever calls sendPack, whatever the packs, and however the kernel cuts  *)
(* the stream: until a send is cut short, the connection ends or two        *)
(* coroutines meet in sendPack, and for the packs sent before that also     *)
(* afterwards, recvPack returns what was sent, each once and in order.      *)
THEOREM ChannelImplementsPipe == Spec => ImplementsPipe
PROOF
  <1>1. Init => Pipe!Init
    BY DEF Init, Pipe!Init, Sound, Whole
  <1>2. FrameInv /\ [Next]_vars => [Pipe!Next]_(Pipe!vars)
    <2> SUFFICES ASSUME FrameInv, [Next]_vars PROVE [Pipe!Next]_(Pipe!vars)
      OBVIOUS
    <2> FrameTyped
      BY DEF FrameInv
    <2>1. CASE \E w \in Senders : SendPart(w)
      BY <2>1, SendSimulates
    <2>2. CASE ReadSome \/ ReadFails \/ UnpackHead \/ UNCHANGED vars
      <3>1. UNCHANGED << okSent, intact, open, delivered >>
        BY <2>2 DEF ReadSome, ReadFails, UnpackHead, vars
      <3> QED
        BY <3>1 DEF Pipe!vars, Sound, Whole
    <2>3. CASE ReturnPack
      BY <2>3, ReturnSimulates
    <2>4. CASE Close
      BY <2>4, CloseSimulates
    <2> QED
      BY <2>1, <2>2, <2>3, <2>4 DEF Next, RecvStep
  <1> QED
    BY <1>1, <1>2, FrameInvariant, PTL DEF Spec, ImplementsPipe, Pipe!Spec
=============================================================================
