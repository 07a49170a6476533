---------------------------- MODULE WebDbProofs ----------------------------
(* Proofs about the HTTP application in front of the database service, for  *)
(* any number of requests, addresses and pieces of a body, and whatever the *)
(* database does.                                                           *)
EXTENDS WebDb, TLAPS

(***************************************************************************)
(* The argument is about addresses.  Alone: an open response is the only   *)
(* one at its address.  Apart: when an open response began without a trace *)
(* of an earlier one, nothing else at its address is in flight, now or     *)
(* later, and the address is not among the aborted ones.  Accounted: as    *)
(* long as all began so, a request in flight is open or its address is     *)
(* among the aborted ones.  Owing: an entry of _abortReps was made for a   *)
(* request that has left and will consume it, or whose body was cut off;   *)
(* an open response that nobody is going to answer any more (Forgotten)    *)
(* still has such a request at its address.                                *)
(***************************************************************************)
Stages == {"new", "body", "working", "asking", "answered", "deferred", "over", "dropped"}

HttpShape ==
  /\ stage \in [Reqs -> Stages]
  /\ addr = [r \in Reqs |-> addr[r]]
  /\ chunks \in [Reqs -> Nat]
  /\ whole \in [Reqs -> BOOLEAN]
  /\ clean \in [Reqs -> BOOLEAN]
  /\ got \in [Reqs -> SUBSET Reqs]
  /\ live \subseteq Reqs
  /\ deferred \in Seq(Reqs)

(* Each request is deferred once, and only when it has its answer. *)
DeferredOnce ==
  /\ \A k \in DOMAIN deferred : stage[deferred[k]] = "deferred"
  /\ \A j, k \in DOMAIN deferred : deferred[j] = deferred[k] => j = k

(* What has not begun has left no trace. *)
Untouched ==
  \A r \in Reqs : /\ stage[r] = "new" => r \notin live /\ chunks[r] = 0 /\ clean[r]
                  /\ stage[r] = "body" => chunks[r] > 0

Alone == \A q, r \in live : addr[q] = addr[r] => q = r

Apart ==
  \A r \in live : clean[r] =>
    /\ addr[r] \notin abortReps
    /\ \A q \in Reqs : q # r /\ addr[q] = addr[r] => ~ InFlight(q)

AllClean == \A r \in Reqs : clean[r]

Accounted ==
  AllClean => /\ stray = {}
              /\ \A r \in Reqs : InFlight(r) => r \in live \/ addr[r] \in abortReps
              /\ \A q, r \in Reqs : InFlight(q) /\ InFlight(r) /\ addr[q] = addr[r] => q = r

Owes(q) == q \notin live /\ (InFlight(q) \/ chunks[q] > 0)
Forgotten(r) == r \in live /\ stage[r] \in {"dropped", "over"}

Owing ==
  /\ \A a \in abortReps : \E q \in Reqs : addr[q] = a /\ Owes(q)
  /\ \A r \in Reqs : Forgotten(r) =>
       addr[r] \notin abortReps /\ \E q \in Reqs : addr[q] = addr[r] /\ Owes(q)

HttpInv == /\ HttpShape /\ DeferredOnce /\ Untouched /\ Alone /\ Apart
           /\ CleanGetsOwn /\ Accounted /\ Owing

(* Nothing has begun. *)
LEMMA HttpInitInv == HttpInit => HttpInv
  <1> SUFFICES ASSUME HttpInit PROVE HttpInv
    OBVIOUS
  <1>1. HttpShape
    BY DEF HttpInit, HttpShape, Stages
  <1>2. DeferredOnce /\ Untouched /\ Alone /\ Apart /\ Owing
    BY DEF HttpInit, DeferredOnce, Untouched, Alone, Apart, Owing, Forgotten
  <1>3. CleanGetsOwn /\ Accounted
    BY DEF HttpInit, CleanGetsOwn, Accounted, InFlight
  <1> QED
    BY <1>1, <1>2, <1>3 DEF HttpInv

(* A request begins, at an address that may have a past. *)
LEMMA BeginKeeps ==
  ASSUME HttpInv, NEW r \in Reqs, NEW a \in Addrs, NEW w \in Routes \ {"none"},
         NEW n \in 0 .. MaxChunks, Begin(r, a, w, n)
  PROVE  HttpInv'
  <1> USE DEF HttpInv
  <1>1. /\ stage[r] = "new" /\ r \notin live /\ clean[r] /\ chunks[r] = 0
        /\ \A q \in live : addr[q] # a
    BY DEF Begin, Untouched
  <1>2. /\ stage'[r] \in {"working", "body"} /\ addr'[r] = a /\ live' = live \cup {r}
        /\ clean'[r] = Clean(a) /\ chunks'[r] = n
        /\ stage'[r] = "body" => n > 0
        /\ UNCHANGED << whole, abortReps, deferred, got, stray >>
        /\ \A q \in Reqs : q # r => /\ stage'[q] = stage[q] /\ addr'[q] = addr[q]
                                    /\ clean'[q] = clean[q] /\ chunks'[q] = chunks[q]
    BY HttpAssumption DEF Begin, HttpShape
  <1>3. \A q \in Reqs : q # r => InFlight(q)' = InFlight(q) /\ (q \in live' <=> q \in live)
    BY <1>2 DEF InFlight
  <1>4. ~ InFlight(r)
    BY <1>1 DEF InFlight
  <1>5. HttpShape'
    <2>1. n \in Nat /\ Clean(a) \in BOOLEAN
      BY HttpAssumption DEF Clean
    <2>2. stage' \in [Reqs -> Stages]
      BY DEF Begin, HttpShape, Stages
    <2>3. /\ addr' = [q \in Reqs |-> addr'[q]] /\ chunks' \in [Reqs -> Nat]
          /\ live' \subseteq Reqs
      BY <2>1 DEF Begin, HttpShape
    <2>4. clean' \in [Reqs -> BOOLEAN]
      BY <2>1 DEF Begin, HttpShape
    <2> QED
      BY <1>2, <2>2, <2>3, <2>4 DEF HttpShape
  <1>6. DeferredOnce' /\ Untouched' /\ Alone'
    <2>1. \A k \in DOMAIN deferred : deferred[k] \in Reqs
      BY DEF HttpShape
    <2>2. DeferredOnce'
      BY <1>1, <1>2, <2>1 DEF DeferredOnce
    <2>3. Untouched'
      BY <1>1, <1>2 DEF Untouched
    <2>4. Alone'
      <3>1. \A q \in live : q # r /\ addr'[q] = addr[q]
        BY <1>1, <1>2 DEF HttpShape
      <3> QED
        BY <1>1, <1>2, <3>1 DEF Alone
    <2> QED
      BY <2>2, <2>3, <2>4
  <1>7. Apart'
    <2>1. \A q \in live : /\ q \in Reqs /\ q # r /\ addr[q] # a
                         /\ addr'[q] = addr[q] /\ clean'[q] = clean[q]
      BY <1>1, <1>2 DEF HttpShape
    <2>2. \A q \in live : clean'[q] =>
            /\ addr'[q] \notin abortReps'
            /\ \A p \in Reqs : p # q /\ addr'[p] = addr'[q] => ~ InFlight(p)'
      BY <1>1, <1>2, <1>3, <2>1 DEF Apart
    <2>3. clean'[r] => /\ a \notin abortReps
                       /\ \A p \in Reqs : p # r /\ addr[p] = a => ~ InFlight(p)
      BY <1>2 DEF Clean
    <2> QED
      BY <1>2, <1>3, <2>2, <2>3 DEF Apart
  <1>8. CleanGetsOwn'
    BY <1>1, <1>2 DEF CleanGetsOwn
  <1>9. Accounted'
    <2> SUFFICES ASSUME AllClean' PROVE Accounted'
      BY DEF Accounted
    <2>1. AllClean /\ Clean(a)
      BY <1>1, <1>2 DEF AllClean
    <2> QED
      BY <1>1, <1>2, <1>3, <1>4, <2>1 DEF Accounted, Clean
  <1>10. Owing'
    <2>1. \A q \in Reqs : Owes(q) => Owes(q)' /\ addr'[q] = addr[q]
      BY <1>1, <1>2, <1>3, <1>4 DEF Owes
    <2>2. \A q \in Reqs : Forgotten(q)' => Forgotten(q) /\ addr'[q] = addr[q]
      BY <1>2, <1>3 DEF Forgotten
    <2> QED
      BY <1>2, <2>1, <2>2 DEF Owing
  <1> QED
    BY <1>5, <1>6, <1>7, <1>8, <1>9, <1>10

(* A piece of a body: thrown away only if the address has an entry, which   *)
(* was made for another request.                                            *)
LEMMA DataKeeps ==
  ASSUME HttpInv, NEW r \in Reqs, Data(r)
  PROVE  HttpInv'
  <1> USE DEF HttpInv
  <1> DEFINE thrown == addr[r] \in abortReps
  <1>1. /\ stage[r] = "body" /\ r \in live /\ chunks[r] > 0 /\ chunks[r] \in Nat
    BY DEF Data, Untouched, HttpShape
  <1>2. /\ chunks'[r] = chunks[r] - 1
        /\ abortReps' = abortReps \ {addr[r]}
        /\ whole'[r] = (whole[r] /\ ~ thrown)
        /\ stage'[r] = IF chunks[r] # 1 THEN "body" ELSE IF thrown THEN "dropped" ELSE "working"
        /\ UNCHANGED << route, addr, live, deferred, got, stray, clean >>
        /\ \A q \in Reqs : q # r => /\ stage'[q] = stage[q] /\ chunks'[q] = chunks[q]
                                    /\ whole'[q] = whole[q]
    BY DEF Data, Last, HttpShape
  <1>3. \A q \in Reqs : q # r => InFlight(q)' = InFlight(q)
    BY <1>2 DEF InFlight
  <1>4. HttpShape'
    <2>1. chunks' \in [Reqs -> Nat]
      BY <1>1 DEF Data, HttpShape
    <2>2. stage' \in [Reqs -> Stages]
      BY DEF Data, HttpShape, Stages
    <2>3. whole' \in [Reqs -> BOOLEAN]
      BY DEF Data, HttpShape
    <2> QED
      BY <1>2, <2>1, <2>2, <2>3 DEF HttpShape
  <1>5. DeferredOnce' /\ Untouched' /\ Alone'
    <2>1. \A k \in DOMAIN deferred : deferred[k] \in Reqs /\ deferred[k] # r
      BY <1>1 DEF HttpShape, DeferredOnce
    <2>2. DeferredOnce'
      BY <1>2, <2>1 DEF DeferredOnce
    <2>3. Untouched'
      BY <1>1, <1>2 DEF Untouched
    <2>4. Alone'
      BY <1>2 DEF Alone
    <2> QED
      BY <2>2, <2>3, <2>4
  <1>6. Apart'
    BY <1>1, <1>2, <1>3 DEF Apart, Alone
  <1>7. CleanGetsOwn'
    <2>1. clean[r] => ~ thrown
      BY <1>1 DEF Apart
    <2> QED
      BY <1>1, <1>2, <2>1 DEF CleanGetsOwn
  <1>8. Accounted'
    <2> SUFFICES ASSUME AllClean' PROVE Accounted'
      BY DEF Accounted
    <2>1. AllClean
      BY <1>2 DEF AllClean
    <2>2. ~ thrown /\ abortReps' = abortReps
      BY <1>1, <1>2, <2>1 DEF AllClean, Apart
    <2>3. \A q \in Reqs : q # r /\ addr[q] = addr[r] => ~ InFlight(q)
      BY <1>1, <2>1 DEF AllClean, Apart
    <2> QED
      BY <1>1, <1>2, <1>3, <2>1, <2>2, <2>3 DEF Accounted
  <1>9. Owing'
    <2>1. \A q \in Reqs : Owes(q) => Owes(q)'
      BY <1>1, <1>2, <1>3 DEF Owes
    <2>2. \A q \in Reqs : Forgotten(q)' => Forgotten(q) \/ (q = r /\ thrown)
      BY <1>1, <1>2 DEF Forgotten
    <2> QED
      BY <1>2, <2>1, <2>2 DEF Owing
  <1> QED
    BY <1>4, <1>5, <1>6, <1>7, <1>8, <1>9

(* A client that leaves makes an entry, and someone who owes for it. *)
LEMMA AbortKeeps ==
  ASSUME HttpInv, NEW r \in Reqs, Abort(r)
  PROVE  HttpInv'
  <1> USE DEF HttpInv
  <1>1. /\ r \in live /\ live' = live \ {r} /\ abortReps' = abortReps \cup {addr[r]}
        /\ stage'[r] = (IF stage[r] = "body" THEN "over" ELSE stage[r])
        /\ \A q \in Reqs : q # r => stage'[q] = stage[q]
        /\ UNCHANGED << route, addr, chunks, whole, deferred, got, stray, clean >>
    BY DEF Abort, Aborted, HttpShape
  <1>2. \A q \in Reqs : InFlight(q)' = InFlight(q)
    BY <1>1 DEF InFlight
  <1>3. HttpShape'
    <2>1. stage' \in [Reqs -> Stages]
      BY DEF Abort, HttpShape, Stages
    <2> QED
      BY <1>1, <2>1 DEF HttpShape
  <1>4. DeferredOnce' /\ Untouched' /\ Alone'
    <2>1. \A k \in DOMAIN deferred : deferred[k] \in Reqs
      BY DEF HttpShape
    <2> QED
      BY <1>1, <2>1 DEF DeferredOnce, Untouched, Alone
  <1>5. Apart'
    BY <1>1, <1>2 DEF Apart, Alone
  <1>6. CleanGetsOwn'
    BY <1>1 DEF CleanGetsOwn
  <1>7. Accounted'
    BY <1>1, <1>2 DEF Accounted, AllClean
  <1>8. Owing'
    <2>1. \A q \in Reqs : Owes(q) => Owes(q)'
      BY <1>1, <1>2 DEF Owes
    <2>2. \A q \in Reqs : Forgotten(q)' => q # r /\ Forgotten(q)
      BY <1>1 DEF Forgotten
    <2>3. \E q \in Reqs : addr[q] = addr[r] /\ Owes(q)'
      <3>1. CASE stage[r] = "body"
        BY <1>1, <3>1 DEF Owes, Untouched
      <3>2. CASE InFlight(r)
        BY <1>1, <1>2, <3>2 DEF Owes
      <3>3. CASE stage[r] \in {"dropped", "over"}
        BY <1>1, <2>1, <3>3 DEF Owing, Forgotten
      <3> QED
        BY <1>1, <3>1, <3>2, <3>3 DEF HttpShape, Stages, Untouched, InFlight
    <2> QED
      BY <1>1, <2>1, <2>2, <2>3 DEF Owing, Alone, Forgotten
  <1> QED
    BY <1>3, <1>4, <1>5, <1>6, <1>7, <1>8

(* A coroutine goes on: nothing but the stage of its request changes. *)
LEMMA StageKeeps ==
  ASSUME HttpInv, NEW r \in Reqs, NEW s \in {"asking", "answered"},
         stage[r] \in {"working", "asking"}, stage' = [stage EXCEPT ![r] = s],
         UNCHANGED << addr, chunks, whole, live, abortReps, deferred, got, stray, clean >>
  PROVE  HttpInv'
  <1> USE DEF HttpInv
  <1>1. stage' \in [Reqs -> Stages] /\ stage'[r] = s /\ \A q \in Reqs : q # r => stage'[q] = stage[q]
    BY DEF HttpShape, Stages
  <1>2. \A q \in Reqs : InFlight(q)' = InFlight(q)
    BY <1>1 DEF InFlight
  <1>3. HttpShape'
    BY <1>1 DEF HttpShape
  <1>4. DeferredOnce'
    <2>1. \A k \in DOMAIN deferred : deferred[k] \in Reqs /\ deferred[k] # r
      BY DEF HttpShape, DeferredOnce
    <2> QED
      BY <1>1, <2>1 DEF DeferredOnce
  <1>5. Untouched' /\ Alone' /\ Apart' /\ CleanGetsOwn'
    BY <1>1, <1>2 DEF Untouched, Alone, Apart, CleanGetsOwn
  <1>6. Accounted'
    BY <1>2 DEF Accounted, AllClean
  <1>7. Owing'
    <2>1. \A q \in Reqs : Owes(q)' = Owes(q)
      BY <1>2 DEF Owes
    <2>2. \A q \in Reqs : Forgotten(q)' => Forgotten(q)
      BY <1>1 DEF Forgotten
    <2> QED
      BY <2>1, <2>2 DEF Owing
  <1> QED
    BY <1>3, <1>4, <1>5, <1>6, <1>7

(* An answer is deferred to the loop. *)
LEMMA DeferKeeps ==
  ASSUME HttpInv, NEW r \in Reqs, Defer(r)
  PROVE  HttpInv'
  <1> USE DEF HttpInv
  <1>1. /\ stage[r] = "answered" /\ deferred' = Append(deferred, r)
        /\ stage' \in [Reqs -> Stages] /\ stage'[r] = "deferred"
        /\ \A q \in Reqs : q # r => stage'[q] = stage[q]
        /\ UNCHANGED << addr, chunks, whole, live, abortReps, got, stray, clean >>
    BY DEF Defer, HttpShape, Stages
  <1>2. \A q \in Reqs : InFlight(q)' = InFlight(q)
    BY <1>1 DEF InFlight
  <1>3. /\ deferred' \in Seq(Reqs) /\ DOMAIN deferred' = 1 .. Len(deferred) + 1
        /\ DOMAIN deferred = 1 .. Len(deferred) /\ Len(deferred) \in Nat
        /\ deferred'[Len(deferred) + 1] = r
        /\ \A k \in 1 .. Len(deferred) : deferred'[k] = deferred[k] /\ deferred[k] \in Reqs
    BY <1>1 DEF HttpShape
  <1>4. HttpShape'
    BY <1>1, <1>3 DEF HttpShape
  <1>5. DeferredOnce'
    <2>1. \A k \in DOMAIN deferred : deferred[k] # r
      BY <1>1 DEF DeferredOnce
    <2> QED
      BY <1>1, <1>3, <2>1 DEF DeferredOnce
  <1>6. Untouched' /\ Alone' /\ Apart' /\ CleanGetsOwn'
    BY <1>1, <1>2 DEF Untouched, Alone, Apart, CleanGetsOwn
  <1>7. Accounted'
    BY <1>1, <1>2 DEF Accounted, AllClean
  <1>8. Owing'
    <2>1. \A q \in Reqs : Owes(q)' = Owes(q)
      BY <1>1, <1>2 DEF Owes
    <2>2. \A q \in Reqs : Forgotten(q)' => Forgotten(q)
      BY <1>1 DEF Forgotten
    <2> QED
      BY <1>1, <2>1, <2>2 DEF Owing
  <1> QED
    BY <1>4, <1>5, <1>6, <1>7, <1>8

(* The deferred function, for an entry that it consumes or a response that  *)
(* it ends.                                                                 *)
LEMMA RunKeeps ==
  ASSUME HttpInv, Run
  PROVE  HttpInv'
  <1> USE DEF HttpInv
  <1>0. PICK r \in Reqs : r = Head(deferred)
    BY DEF Run, HttpShape
  <1>00. PICK a : a = addr[r]
    OBVIOUS
  <1>1. /\ r = deferred[1] /\ 1 \in DOMAIN deferred /\ stage[r] = "deferred"
        /\ InFlight(r)
    BY <1>0 DEF Run, HttpShape, DeferredOnce, InFlight
  <1>2. /\ stage' = [stage EXCEPT ![r] = "over"] /\ deferred' = Tail(deferred)
        /\ UNCHANGED << route, addr, chunks, whole, clean >>
        /\ \/ a \in abortReps /\ abortReps' = abortReps \ {a} /\ UNCHANGED << live, got, stray >>
           \/ a \notin abortReps /\ End(a, r) /\ UNCHANGED abortReps
    BY <1>0, <1>00 DEF Run, Target, Known, Erased
  <1>3. /\ stage' \in [Reqs -> Stages] /\ stage'[r] = "over"
        /\ \A q \in Reqs : q # r => stage'[q] = stage[q] /\ InFlight(q)' = InFlight(q)
        /\ ~ InFlight(r)'
    <2>1. stage \in [Reqs -> Stages] /\ "over" \in Stages
      BY DEF HttpShape, Stages
    <2> QED
      BY <1>1, <1>2, <2>1 DEF InFlight
  <1>4. /\ DOMAIN deferred = 1 .. Len(deferred) /\ Len(deferred) \in Nat
        /\ deferred' \in Seq(Reqs) /\ DOMAIN deferred' = 1 .. Len(deferred) - 1
        /\ \A k \in DOMAIN deferred' : deferred'[k] = deferred[k + 1] /\ deferred[k + 1] \in Reqs
    BY <1>1, <1>2 DEF HttpShape
  <1>5. DeferredOnce'
    <2>1. \A k \in DOMAIN deferred' : k + 1 \in DOMAIN deferred /\ k + 1 # 1 /\ deferred'[k] # r
      BY <1>1, <1>4 DEF DeferredOnce
    <2>2. \A k \in DOMAIN deferred' : stage'[deferred'[k]] = "deferred"
      BY <1>3, <1>4, <2>1 DEF DeferredOnce
    <2>3. \A j, k \in DOMAIN deferred' : deferred'[j] = deferred'[k] => j = k
      BY <1>4, <2>1 DEF DeferredOnce
    <2> QED
      BY <2>2, <2>3 DEF DeferredOnce
  <1>6. CASE a \in abortReps
    <2>1. abortReps' = abortReps \ {a} /\ UNCHANGED << live, got, stray >>
      BY <1>2, <1>6
    <2>2. HttpShape'
      BY <1>2, <1>3, <1>4, <2>1 DEF HttpShape
    <2>3. Untouched' /\ Alone' /\ Apart' /\ CleanGetsOwn'
      <3>1. Untouched' /\ Alone'
        BY <1>1, <1>2, <1>3, <2>1 DEF Untouched, Alone
      <3>2. Apart'
        BY <1>1, <1>2, <1>3, <2>1 DEF Apart
      <3>3. CleanGetsOwn'
        BY <1>1, <1>2, <1>3, <2>1 DEF CleanGetsOwn
      <3> QED
        BY <3>1, <3>2, <3>3
    <2>4. Accounted'
      <3> SUFFICES ASSUME AllClean' PROVE Accounted'
        BY DEF Accounted
      <3>1. AllClean
        BY <1>2 DEF AllClean
      <3>2. \A q \in Reqs : q # r /\ InFlight(q) => addr[q] # a
        BY <1>00, <1>1, <3>1 DEF Accounted
      <3>3. \A q \in Reqs : InFlight(q)' => q # r /\ InFlight(q)
        BY <1>1, <1>3
      <3> QED
        BY <1>2, <2>1, <3>1, <3>2, <3>3 DEF Accounted
    <2>5. Owing'
      <3>1. \A q \in Reqs : q # r /\ Owes(q) => Owes(q)'
        BY <1>2, <1>3, <2>1 DEF Owes
      <3>2. \A q \in Reqs : Forgotten(q)' => Forgotten(q) \/ (q = r /\ r \in live)
        BY <1>3, <2>1 DEF Forgotten
      <3>3. \A b \in abortReps' : \E q \in Reqs : addr'[q] = b /\ Owes(q)'
        BY <1>00, <1>2, <2>1, <3>1 DEF Owing
      <3>4. ASSUME NEW q \in Reqs, Forgotten(q)'
            PROVE  addr[q] \notin abortReps' /\ \E p \in Reqs : addr[p] = addr[q] /\ Owes(p)'
        <4>1. CASE q = r /\ r \in live
          BY <1>00, <1>6, <2>1, <3>1, <4>1 DEF Owing, Owes
        <4>2. CASE Forgotten(q)
          BY <1>00, <1>6, <2>1, <3>1, <4>2 DEF Owing
        <4> QED
          BY <3>2, <3>4, <4>1, <4>2
      <3> QED
        BY <1>2, <3>3, <3>4 DEF Owing
    <2> QED
      BY <1>5, <2>2, <2>3, <2>4, <2>5
  <1>7. CASE a \notin abortReps
    <2>1. /\ got' = [q \in Reqs |-> IF q \in At(a) THEN got[q] \cup {r} ELSE got[q]]
          /\ live' = live \ At(a) /\ UNCHANGED abortReps
          /\ stray' = IF At(a) = {} THEN stray \cup {a} ELSE stray
      BY <1>2, <1>7 DEF End
    <2>2. \A q \in Reqs : q \in At(a) <=> q \in live /\ addr[q] = a
      BY DEF At
    <2>3. HttpShape'
      <3>1. got' \in [Reqs -> SUBSET Reqs]
        BY <1>1, <2>1 DEF HttpShape
      <3> QED
        BY <1>2, <1>3, <1>4, <2>1, <3>1 DEF HttpShape
    <2>4. Untouched' /\ Alone'
      BY <1>1, <1>2, <1>3, <2>1 DEF Untouched, Alone
    <2>5. Apart'
      BY <1>1, <1>2, <1>3, <2>1 DEF Apart
    <2>6. \A q \in At(a) : clean[q] => q = r
      BY <1>00, <1>1, <2>2 DEF Apart, HttpShape, At
    <2>7. CleanGetsOwn'
      <3>1. \A q \in Reqs : clean[q] => got'[q] \subseteq {q}
        BY <2>1, <2>6 DEF CleanGetsOwn
      <3>2. \A q \in Reqs : clean[q] => whole'[q] /\ stage'[q] # "dropped"
        BY <1>2, <1>3 DEF CleanGetsOwn
      <3> QED
        BY <1>2, <3>1, <3>2 DEF CleanGetsOwn
    <2>8. Accounted'
      <3> SUFFICES ASSUME AllClean' PROVE Accounted'
        BY DEF Accounted
      <3>1. AllClean
        BY <1>2 DEF AllClean
      <3>2. r \in At(a)
        BY <1>00, <1>1, <1>7, <2>2, <3>1 DEF Accounted
      <3>3. stray' = {}
        BY <2>1, <3>1, <3>2 DEF Accounted
      <3>4. \A q \in Reqs : q # r /\ InFlight(q) => addr[q] # a
        BY <1>00, <1>1, <3>1 DEF Accounted
      <3>5. \A q \in Reqs : InFlight(q)' => q # r /\ InFlight(q)
        BY <1>1, <1>3
      <3>6. \A q \in Reqs : q \in live /\ addr[q] # a => q \in live'
        BY <2>1, <2>2
      <3> QED
        BY <1>2, <2>1, <3>1, <3>3, <3>4, <3>5, <3>6 DEF Accounted
    <2>9. Owing'
      <3>1. \A q \in Reqs : q # r /\ Owes(q) => Owes(q)'
        BY <1>2, <1>3, <2>1 DEF Owes
      <3>2. \A q \in Reqs : Forgotten(q)' => Forgotten(q) /\ addr[q] # a
        BY <1>00, <1>3, <2>1, <2>2 DEF Forgotten
      <3> QED
        BY <1>00, <1>2, <1>7, <2>1, <3>1, <3>2 DEF Owing
    <2> QED
      BY <1>5, <2>3, <2>4, <2>5, <2>7, <2>8, <2>9
  <1> QED
    BY <1>6, <1>7

(* Every step of the composition keeps the invariant: those of the database *)
(* service leave the state of the application alone.                        *)
LEMMA HttpStepInv == HttpInv /\ [Next]_vars => HttpInv'
  <1> SUFFICES ASSUME HttpInv, [Next]_vars PROVE HttpInv'
    OBVIOUS
  <1>1. CASE UNCHANGED httpVars
    <2>1. \A r \in Reqs : /\ InFlight(r)' = InFlight(r) /\ Owes(r)' = Owes(r)
                          /\ Forgotten(r)' = Forgotten(r)
      BY <1>1 DEF httpVars, InFlight, Owes, Forgotten
    <2>2. HttpShape' /\ DeferredOnce' /\ Untouched' /\ Alone' /\ CleanGetsOwn'
      BY <1>1 DEF httpVars, HttpInv, HttpShape, DeferredOnce, Untouched, Alone, CleanGetsOwn
    <2>3. Apart' /\ Accounted' /\ Owing'
      BY <1>1, <2>1 DEF httpVars, HttpInv, Apart, Accounted, AllClean, Owing
    <2> QED
      BY <2>2, <2>3 DEF HttpInv
  <1>2. ASSUME NEW r \in Reqs, NEW a \in Addrs, NEW w \in Routes \ {"none"},
               NEW n \in 0 .. MaxChunks, Begin(r, a, w, n)
        PROVE  HttpInv'
    BY <1>2, BeginKeeps
  <1>3. ASSUME NEW r \in Reqs, Data(r) \/ Abort(r) PROVE HttpInv'
    BY <1>3, DataKeeps, AbortKeeps
  <1>4. CASE Run
    BY <1>4, RunKeeps
  <1>5. ASSUME NEW r \in Reqs, Coroutine(r) PROVE HttpInv'
    <2>1. CASE Answer(r)
      BY <2>1, StageKeeps DEF Answer
    <2>2. CASE QueryReturns(r)
      BY <2>2, StageKeeps DEF QueryReturns, Asked
    <2>3. CASE Defer(r)
      BY <2>3, DeferKeeps
    <2> QED
      BY <1>5, <2>1, <2>2, <2>3 DEF Coroutine
  <1>6. ASSUME NEW r \in Reqs, NEW x \in Requests, ExecuteQuery(r, x) PROVE HttpInv'
    BY <1>6, StageKeeps DEF ExecuteQuery, Ask
  <1>7. CASE Loop
    BY <1>7, <1>2, <1>3, <1>4 DEF Loop
  <1> QED
    BY <1>1, <1>5, <1>6, <1>7 DEF Next, vars

(* The invariant holds in every reachable state. *)
LEMMA HttpInvariant == Spec => []HttpInv
  <1>1. Init => HttpInv
    BY HttpInitInv DEF Init
  <1> QED
    BY <1>1, HttpStepInv, PTL DEF Spec

(* A client whose response got an address without a past gets its own       *)
(* answer or none, and the body it sent was kept: whatever the other        *)
(* requests, the aborts and the database do.                                *)
THEOREM CleanResponses == Spec => []CleanGetsOwn
  <1>1. HttpInv => CleanGetsOwn
    BY DEF HttpInv
  <1> QED
    BY <1>1, HttpInvariant, PTL

(* A write to a response that is gone, or an answer for the wrong client,   *)
(* takes an address that was used again while a trace of its earlier use    *)
(* was left: _abortReps is sound as long as the allocator waits.            *)
THEOREM ConfusionIsReuse == Spec => []ConfusionNeedsReuse
  <1>1. HttpInv => ConfusionNeedsReuse
    BY DEF HttpInv, ConfusionNeedsReuse, CleanGetsOwn, Accounted, AllClean
  <1> QED
    BY <1>1, HttpInvariant, PTL

(* No entry of _abortReps is left without a request that will consume it,   *)
(* except those of bodies that were cut off, also when addresses are reused.*)
THEOREM AbortEntriesConsumed == Spec => []EntriesConsumed
  <1>1. HttpInv => EntriesConsumed
    BY DEF HttpInv, Owing, Owes, EntriesConsumed
  <1> QED
    BY <1>1, HttpInvariant, PTL
=============================================================================
