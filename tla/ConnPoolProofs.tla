--------------------------- MODULE ConnPoolProofs ---------------------------
(* Proofs about ConnPool, for any number of queries, connections, channels. *)
EXTENDS ConnPool, FiniteSetTheorems, SequenceTheorems, TLAPS

(***************************************************************************)
(* Ownership is what makes the pool safe.  A connection object belongs to  *)
(* the queue or to one query, never to both (Queued, Held): so a query may *)
(* use its idle list without a lock.  A channel belongs to an idle list or *)
(* to one query (Listed, Carried), and numbers given out by newSockNo are  *)
(* above all that are in use, so a new channel belongs to nobody yet.      *)
(***************************************************************************)
Using(c) == query[c].pc \in {"send", "wait"}

(* Idle lists: at most one channel, registered, sound, in one list only. *)
Listed ==
  \A k \in Conns :
    /\ Len(channelpool[k]) <= 1
    /\ k > nconn => channelpool[k] = << >>
    /\ channelpool[k] # << >> =>
         /\ channelpool[k][1] \in channelsTcp \ failed
         /\ \A l \in Conns : (channelpool[l] # << >> /\ channelpool[l][1] = channelpool[k][1]) => l = k

(* Channels in use: registered, sound, in no idle list, in use once. *)
Carried ==
  \A c \in Queries : Using(c) =>
    /\ query[c].ch \in channelsTcp \ failed
    /\ \A d \in Queries : (Using(d) /\ query[d].ch = query[c].ch) => d = c
    /\ \A k \in Conns : channelpool[k] # << >> => channelpool[k][1] # query[c].ch

(* Connection objects in use: made, with an empty idle list, in use once. *)
Held ==
  \A c \in Queries : query[c].pc # "idle" =>
    /\ query[c].conn \in 1 .. nconn
    /\ channelpool[query[c].conn] = << >>
    /\ \A d \in Queries : (query[d].pc # "idle" /\ query[d].conn = query[c].conn) => d = c

(* Connection objects in the queue. *)
Queued == QueuedConnsReady /\ \A i \in DOMAIN connsTcp : connsTcp[i] <= nconn

Numbered == \A s \in channelsTcp : s <= sockNo

PoolInv == TypeOK /\ Listed /\ Carried /\ Held /\ Queued /\ Numbered

(* The initial state, with no connection, satisfies the invariant. *)
LEMMA InitInv == Init => PoolInv
  <1> SUFFICES ASSUME Init PROVE PoolInv
    OBVIOUS
  <1> USE ConnPoolAssumption
  <1>1. Idle \in QueryStates
    BY DEF Idle, QueryStates, MaxDials
  <1>2. TypeOK
    BY <1>1 DEF Init, TypeOK, Conns
  <1>3. Listed /\ Carried /\ Held /\ Queued /\ Numbered
    BY DEF Init, Listed, Carried, Held, Queued, QueuedConnsReady, Numbered, Using, Idle
  <1> QED
    BY <1>2, <1>3 DEF PoolInv

(* A query that becomes idle and leaves its connection object and its       *)
(* channel to nobody keeps the invariant; its channel may be marked failed. *)
LEMMA DropInv ==
  ASSUME PoolInv, NEW c \in Queries, query' = [query EXCEPT ![c] = Idle],
         UNCHANGED << connsTcp, nconn, channelpool, sockNo, channelsTcp, up >>,
         failed' = failed \/ (Using(c) /\ failed' = failed \cup {query[c].ch})
  PROVE  PoolInv'
  <1> USE ConnPoolAssumption
  <1>1. Idle \in QueryStates
    BY DEF Idle, QueryStates, MaxDials
  <1>2. /\ query' \in [Queries -> QueryStates]
        /\ \A d \in Queries : query'[d] = IF d = c THEN Idle ELSE query[d]
    BY <1>1 DEF PoolInv, TypeOK
  <1>3. Idle.pc = "idle"
    BY DEF Idle
  <1>4. TypeOK'
    BY <1>2 DEF PoolInv, TypeOK, Carried
  <1>5. \A d \in Queries : query'[d].pc # "idle" => d # c /\ query'[d] = query[d]
    BY <1>2, <1>3
  <1>6. \A d \in Queries : Using(d)' => d # c /\ Using(d) /\ query'[d] = query[d]
    BY <1>5 DEF Using
  <1>7. Listed'
    BY DEF PoolInv, Listed, Carried
  <1>8. Carried'
    BY <1>6 DEF PoolInv, Carried
  <1>9. Held'
    BY <1>5 DEF PoolInv, Held
  <1>10. Queued' /\ Numbered'
    BY <1>5 DEF PoolInv, Queued, QueuedConnsReady, Numbered
  <1> QED
    BY <1>4, <1>7, <1>8, <1>9, <1>10 DEF PoolInv

(* A query that only moves on, with its connection object and its channel,  *)
(* keeps the invariant; so does the loss of a connection.                   *)
LEMMA MoveInv ==
  ASSUME PoolInv, query' \in [Queries -> QueryStates],
         \A d \in Queries : /\ query'[d].conn = query[d].conn
                            /\ query'[d].ch = query[d].ch
                            /\ query'[d].pc = "idle" <=> query[d].pc = "idle"
                            /\ Using(d)' <=> Using(d),
         up' \subseteq up,
         UNCHANGED << connsTcp, nconn, channelpool, sockNo, channelsTcp, failed >>
  PROVE  PoolInv'
  <1>1. TypeOK'
    BY DEF PoolInv, TypeOK
  <1>2. Listed' /\ Numbered'
    BY DEF PoolInv, Listed, Numbered
  <1>3. Carried'
    BY DEF PoolInv, Carried
  <1>4. Held'
    BY DEF PoolInv, Held
  <1>5. Queued'
    BY DEF PoolInv, Queued, QueuedConnsReady
  <1> QED
    BY <1>1, <1>2, <1>3, <1>4, <1>5 DEF PoolInv

(* A new connection: its channel has a number nobody uses. *)
LEMMA ConnectedInv ==
  ASSUME PoolInv, NEW c \in Queries, Connected(c)
  PROVE  PoolInv'
  <1> USE ConnPoolAssumption
  <1> DEFINE s == sockNo + 2
  <1>1. /\ query[c].pc = "dial" /\ s \in Chans /\ s = sockNo'
        /\ channelsTcp' = channelsTcp \cup {s} /\ up' = up \cup {s}
        /\ query' = [query EXCEPT ![c].pc = "send", ![c].ch = s]
        /\ UNCHANGED << connsTcp, nconn, channelpool, failed >>
    BY DEF Connected, NewSock, Registered
  <1>2. s \notin channelsTcp
    BY <1>1 DEF PoolInv, TypeOK, Numbered, Chans
  <1>3. /\ query' \in [Queries -> QueryStates]
        /\ query'[c].pc = "send" /\ query'[c].ch = s /\ query'[c].conn = query[c].conn
        /\ \A d \in Queries : d # c => query'[d] = query[d]
    BY <1>1 DEF PoolInv, TypeOK, QueryStates
  <1>4. TypeOK'
    BY <1>1, <1>3 DEF PoolInv, TypeOK, Chans
  <1>5. Listed'
    BY <1>1 DEF PoolInv, Listed
  <1>6. Carried'
    <2> SUFFICES ASSUME NEW d \in Queries, Using(d)'
                 PROVE  /\ query'[d].ch \in channelsTcp' \ failed'
                        /\ \A e \in Queries : (Using(e)' /\ query'[e].ch = query'[d].ch) => e = d
                        /\ \A k \in Conns : channelpool'[k] # << >> => channelpool'[k][1] # query'[d].ch
      BY DEF Carried
    <2>1. \A e \in Queries : e # c /\ Using(e)' => Using(e) /\ query'[e].ch = query[e].ch /\ query[e].ch # s
      BY <1>2, <1>3 DEF PoolInv, Carried, Using
    <2>2. s \notin failed
      BY <1>2 DEF PoolInv, TypeOK
    <2>3. CASE d = c
      BY <2>1, <2>2, <2>3, <1>1, <1>2, <1>3 DEF PoolInv, Listed
    <2>4. CASE d # c
      BY <2>1, <2>4, <1>1, <1>3 DEF PoolInv, Carried
    <2> QED
      BY <2>3, <2>4
  <1>7. /\ \A d \in Queries : /\ query'[d].conn = query[d].conn
                              /\ query'[d].pc = "idle" <=> query[d].pc = "idle"
        /\ UNCHANGED << connsTcp, nconn, channelpool >>
    BY <1>1, <1>3
  <1>8. Held'
    BY <1>7 DEF PoolInv, Held
  <1>9. Queued'
    BY <1>7 DEF PoolInv, Queued, QueuedConnsReady
  <1>10. Numbered'
    BY <1>1 DEF PoolInv, TypeOK, Numbered, Chans
  <1> QED
    BY <1>4, <1>5, <1>6, <1>8, <1>9, <1>10 DEF PoolInv

(* A query that finds no queued connection object makes one, with an empty  *)
(* idle list, and dials.                                                    *)
LEMMA FirstUseInv ==
  ASSUME PoolInv, NEW c \in Queries, ExecuteQuery(c), NoneQueued
  PROVE  PoolInv'
  <1> USE ConnPoolAssumption
  <1> DEFINE k == nconn + 1
  <1>1. /\ k \in Conns /\ nconn \in Nat /\ channelpool[k] = << >> /\ query[c].pc = "idle"
    BY DEF PoolInv, TypeOK, Listed, ExecuteQuery, NoneQueued, TakenConn, Conns
  <1>2. /\ nconn' = k /\ connsTcp' = connsTcp /\ connsTcp = << >>
        /\ query' = [query EXCEPT ![c] = [pc |-> "dial", conn |-> k, ch |-> 0, dial |-> 1]]
        /\ UNCHANGED << channelpool, sockNo, channelsTcp, up, failed >>
    BY <1>1 DEF ExecuteQuery, NoneQueued, TakenConn, Dequeued
  <1>3. [pc |-> "dial", conn |-> k, ch |-> 0, dial |-> 1] \in QueryStates
    BY <1>1 DEF QueryStates, MaxDials
  <1>4. /\ query' \in [Queries -> QueryStates]
        /\ query'[c].pc = "dial" /\ query'[c].conn = k
        /\ \A d \in Queries : d # c => query'[d] = query[d]
    BY <1>2, <1>3 DEF PoolInv, TypeOK
  <1>5. TypeOK'
    BY <1>1, <1>2, <1>4 DEF PoolInv, TypeOK, Conns
  <1>6. Listed' /\ Numbered'
    BY <1>1, <1>2 DEF PoolInv, Listed, Numbered, Conns
  <1>7. \A d \in Queries : Using(d)' => Using(d) /\ query'[d] = query[d]
    BY <1>4 DEF Using
  <1>8. Carried'
    BY <1>2, <1>7 DEF PoolInv, Carried
  <1>9. Held'
    <2>1. \A d \in Queries : query[d].pc # "idle" => query[d].conn # k
      BY <1>1 DEF PoolInv, Held
    <2>2. /\ \A d \in Queries : query[d].pc # "idle" => query[d].conn \in 1 .. nconn'
          /\ k \in 1 .. nconn' /\ channelpool' = channelpool
      BY <1>1, <1>2 DEF PoolInv, Held
    <2> QED
      BY <2>1, <2>2, <1>1, <1>4 DEF PoolInv, Held
  <1>10. Queued'
    BY <1>2 DEF Queued, QueuedConnsReady
  <1> QED
    BY <1>5, <1>6, <1>8, <1>9, <1>10 DEF PoolInv

(* The first element of a queue, and what taking it from a queue of one     *)
(* leaves.                                                                  *)
LEMMA FirstOfQueue ==
  ASSUME NEW S, NEW q \in Seq(S), q # << >>
  PROVE  /\ 1 \in DOMAIN q /\ q[1] \in S /\ Head(q) = q[1]
         /\ Len(q) = 1 => Tail(q) = << >>
  <1>1. 1 \in DOMAIN q /\ q[1] \in S /\ Head(q) = q[1]
    OBVIOUS
  <1>2. ASSUME Len(q) = 1 PROVE Tail(q) = << >>
    <2>1. Tail(q) \in Seq(S) /\ Len(Tail(q)) = 0
      BY <1>2
    <2> QED
      BY <2>1, EmptySeq
  <1> QED
    BY <1>1, <1>2

(* A query that takes a queued connection object takes its one channel.     *)
LEMMA ReuseInv ==
  ASSUME PoolInv, NEW c \in Queries, ExecuteQuery(c), ~NoneQueued
  PROVE  PoolInv'
  <1> USE ConnPoolAssumption
  <1> DEFINE k == connsTcp[1]  s == channelpool[k][1]
  <1>1. /\ connsTcp \in Seq(Conns) /\ connsTcp # << >> /\ 1 \in DOMAIN connsTcp
        /\ k \in Conns /\ Head(connsTcp) = k /\ k \in 1 .. nconn /\ query[c].pc = "idle"
    <2>1. connsTcp \in Seq(Conns) /\ connsTcp # << >> /\ query[c].pc = "idle"
      BY DEF PoolInv, TypeOK, ExecuteQuery, NoneQueued
    <2>2. 1 \in DOMAIN connsTcp /\ k \in Conns /\ Head(connsTcp) = k
      BY <2>1, FirstOfQueue
    <2>3. k \in 1 .. nconn
      BY <2>2 DEF PoolInv, TypeOK, Queued, Conns
    <2> QED
      BY <2>1, <2>2, <2>3
  <1>2. /\ channelpool[k] \in Seq(Chans) /\ Len(channelpool[k]) = 1 /\ channelpool[k] # << >>
        /\ s \in Chans /\ Head(channelpool[k]) = s /\ Tail(channelpool[k]) = << >>
    <2>1. channelpool[k] \in Seq(Chans) /\ Len(channelpool[k]) = 1
      BY <1>1 DEF PoolInv, TypeOK, Queued, QueuedConnsReady
    <2>2. channelpool[k] # << >>
      BY <2>1
    <2> QED
      BY <2>1, <2>2, FirstOfQueue
  <1>3. /\ connsTcp' = Tail(connsTcp)
        /\ query' = [query EXCEPT ![c] = [pc |-> "send", conn |-> k, ch |-> s, dial |-> 0]]
        /\ channelpool' = [channelpool EXCEPT ![k] = << >>]
        /\ UNCHANGED << nconn, sockNo, channelsTcp, up, failed >>
    BY <1>1, <1>2 DEF ExecuteQuery, TakenConn, Dequeued
  <1>4. [pc |-> "send", conn |-> k, ch |-> s, dial |-> 0] \in QueryStates
    BY <1>1, <1>2 DEF QueryStates, MaxDials
  <1>5. /\ query' \in [Queries -> QueryStates]
        /\ query'[c].pc = "send" /\ query'[c].conn = k /\ query'[c].ch = s
        /\ \A d \in Queries : d # c => query'[d] = query[d]
    BY <1>3, <1>4 DEF PoolInv, TypeOK
  <1>6. /\ channelpool' \in [Conns -> Seq(Chans)]
        /\ channelpool'[k] = << >>
        /\ \A l \in Conns : l # k => channelpool'[l] = channelpool[l]
    BY <1>1, <1>3 DEF PoolInv, TypeOK
  <1>7. TypeOK'
    BY <1>1, <1>3, <1>5, <1>6 DEF PoolInv, TypeOK
  <1>8. Listed'
    BY <1>3, <1>6 DEF PoolInv, Listed
  <1>9. Carried'
    <2>1. /\ s \in channelsTcp \ failed
          /\ \A l \in Conns : l # k /\ channelpool[l] # << >> => channelpool[l][1] # s
      BY <1>1, <1>2 DEF PoolInv, Listed
    <2>2. \A d \in Queries : d # c /\ Using(d)' => Using(d) /\ query'[d].ch = query[d].ch /\ query[d].ch # s
      BY <1>1, <1>2, <1>5 DEF PoolInv, Carried, Using
    <2>3. UNCHANGED << channelsTcp, failed >>
      BY <1>3
    <2> SUFFICES ASSUME NEW d \in Queries, Using(d)'
                 PROVE  /\ query'[d].ch \in channelsTcp' \ failed'
                        /\ \A e \in Queries : (Using(e)' /\ query'[e].ch = query'[d].ch) => e = d
                        /\ \A l \in Conns : channelpool'[l] # << >> => channelpool'[l][1] # query'[d].ch
      BY DEF Carried
    <2>4. CASE d = c
      BY <2>1, <2>2, <2>3, <2>4, <1>5, <1>6
    <2>5. CASE d # c
      <3>1. Using(d) /\ query'[d].ch = query[d].ch /\ query[d].ch # s
        BY <2>2, <2>5
      <3>2. query'[d].ch \in channelsTcp' \ failed'
        BY <3>1, <2>3 DEF PoolInv, Carried
      <3>3. \A e \in Queries : (Using(e)' /\ query'[e].ch = query'[d].ch) => e = d
        BY <3>1, <2>2, <1>5 DEF PoolInv, Carried
      <3>4. \A l \in Conns : channelpool'[l] # << >> => channelpool'[l][1] # query'[d].ch
        BY <3>1, <1>6 DEF PoolInv, Carried
      <3> QED
        BY <3>2, <3>3, <3>4
    <2> QED
      BY <2>4, <2>5
  <1>10. \A d \in Queries : query[d].pc # "idle" => query[d].conn # k
    BY <1>1 DEF PoolInv, Queued, QueuedConnsReady
  <1>11. Held'
    <2>1. nconn' = nconn /\ \A d \in Queries : query[d].pc # "idle" => query[d].conn \in Conns
      BY <1>3, <1>1 DEF PoolInv, Held, TypeOK, Conns
    <2> QED
      <3> SUFFICES ASSUME NEW d \in Queries, query'[d].pc # "idle"
                   PROVE  /\ query'[d].conn \in 1 .. nconn'
                          /\ channelpool'[query'[d].conn] = << >>
                          /\ \A e \in Queries : (query'[e].pc # "idle" /\ query'[e].conn = query'[d].conn) => e = d
        BY DEF Held
      <3>1. CASE d = c
        BY <3>1, <2>1, <1>1, <1>5, <1>6, <1>10
      <3>2. CASE d # c
        <4>1. query'[d] = query[d] /\ query[d].conn \in Conns /\ query[d].conn # k
          BY <3>2, <2>1, <1>5, <1>10
        <4>2. query[d].conn \in 1 .. nconn /\ channelpool[query[d].conn] = << >>
          BY <4>1 DEF PoolInv, Held
        <4>3. \A e \in Queries : (query'[e].pc # "idle" /\ query'[e].conn = query'[d].conn) => e = d
          BY <4>1, <1>5 DEF PoolInv, Held
        <4> QED
          BY <4>1, <4>2, <4>3, <2>1, <1>6
      <3> QED
        BY <3>1, <3>2
  <1>12. Queued'
    <2>1. \A i \in DOMAIN connsTcp' :
            /\ i \in Nat \ {0} /\ i + 1 \in DOMAIN connsTcp
            /\ connsTcp'[i] = connsTcp[i + 1] /\ connsTcp[i + 1] \in Conns
      BY <1>1, <1>3
    <2>2. \A i \in DOMAIN connsTcp' : connsTcp'[i] # k
      BY <2>1, <1>1 DEF PoolInv, Queued, QueuedConnsReady
    <2>3. \A i, j \in DOMAIN connsTcp' : connsTcp'[j] = connsTcp'[i] => j = i
      BY <2>1 DEF PoolInv, Queued, QueuedConnsReady
    <2>4. \A i \in DOMAIN connsTcp' : \A d \in Queries : query'[d].pc # "idle" => query'[d].conn # connsTcp'[i]
      BY <2>1, <2>2, <1>5 DEF PoolInv, Queued, QueuedConnsReady
    <2>5. \A i \in DOMAIN connsTcp' : Len(channelpool'[connsTcp'[i]]) = 1 /\ connsTcp'[i] <= nconn'
      BY <2>1, <2>2, <1>3, <1>6 DEF PoolInv, Queued, QueuedConnsReady
    <2> QED
      BY <2>3, <2>4, <2>5 DEF Queued, QueuedConnsReady
  <1>13. Numbered'
    BY <1>3 DEF PoolInv, Numbered
  <1> QED
    BY <1>7, <1>8, <1>9, <1>11, <1>12, <1>13 DEF PoolInv

(* A query that got its reply gives back its channel and its connection     *)
(* object.                                                                  *)
LEMMA RepliedInv ==
  ASSUME PoolInv, NEW c \in Queries, Replied(c)
  PROVE  PoolInv'
  <1> USE ConnPoolAssumption
  <1> DEFINE k == query[c].conn  s == query[c].ch
  <1>1. /\ query[c].pc = "wait" /\ Using(c)
        /\ k \in Conns /\ k \in 1 .. nconn /\ channelpool[k] = << >>
    <2>1. query[c].pc = "wait" /\ Using(c)
      BY DEF Replied, Using
    <2>2. k \in 1 .. nconn /\ channelpool[k] = << >>
      BY <2>1 DEF PoolInv, Held
    <2> QED
      BY <2>1, <2>2 DEF PoolInv, TypeOK, Conns
  <1>2. /\ s \in channelsTcp \ failed /\ s \in Chans
        /\ \A d \in Queries : (Using(d) /\ query[d].ch = s) => d = c
        /\ \A l \in Conns : channelpool[l] # << >> => channelpool[l][1] # s
    BY <1>1 DEF PoolInv, TypeOK, Carried
  <1>3. /\ channelpool' = [channelpool EXCEPT ![k] = Append(@, s)]
        /\ connsTcp' = Append(connsTcp, k)
        /\ query' = [query EXCEPT ![c] = Idle]
        /\ UNCHANGED << nconn, sockNo, channelsTcp, up, failed >>
    BY DEF Replied, Returned
  <1>4. /\ channelpool' \in [Conns -> Seq(Chans)]
        /\ Len(channelpool'[k]) = 1 /\ channelpool'[k] # << >> /\ channelpool'[k][1] = s
        /\ \A l \in Conns : l # k => channelpool'[l] = channelpool[l]
    BY <1>1, <1>2, <1>3 DEF PoolInv, TypeOK
  <1>5. Idle \in QueryStates /\ Idle.pc = "idle"
    BY DEF Idle, QueryStates, MaxDials
  <1>6. /\ query' \in [Queries -> QueryStates] /\ query'[c].pc = "idle"
        /\ \A d \in Queries : d # c => query'[d] = query[d]
    BY <1>3, <1>5 DEF PoolInv, TypeOK
  <1>7. /\ connsTcp' \in Seq(Conns) /\ Len(connsTcp) \in Nat
        /\ DOMAIN connsTcp' = 1 .. Len(connsTcp) + 1
        /\ connsTcp'[Len(connsTcp) + 1] = k
        /\ \A i \in 1 .. Len(connsTcp) : i \in DOMAIN connsTcp /\ connsTcp'[i] = connsTcp[i]
    BY <1>1, <1>3, AppendProperties DEF PoolInv, TypeOK
  <1>8. TypeOK'
    BY <1>3, <1>4, <1>6, <1>7 DEF PoolInv, TypeOK
  <1>9. Listed'
    <2>1. UNCHANGED << nconn, channelsTcp, failed >>
      BY <1>3
    <2> SUFFICES ASSUME NEW l \in Conns
                 PROVE  /\ Len(channelpool'[l]) <= 1
                        /\ l > nconn => channelpool'[l] = << >>
                        /\ channelpool'[l] # << >> =>
                             /\ channelpool'[l][1] \in channelsTcp \ failed
                             /\ \A m \in Conns : (channelpool'[m] # << >>
                                    /\ channelpool'[m][1] = channelpool'[l][1]) => m = l
      BY <2>1 DEF Listed
    <2>2. CASE l = k
      BY <2>2, <1>1, <1>2, <1>4 DEF PoolInv, TypeOK
    <2>3. CASE l # k
      <3>1. channelpool'[l] = channelpool[l] /\ (channelpool[l] # << >> => channelpool[l][1] # s)
        BY <2>3, <1>2, <1>4
      <3>2. /\ Len(channelpool[l]) <= 1
            /\ l > nconn => channelpool[l] = << >>
            /\ channelpool[l] # << >> => channelpool[l][1] \in channelsTcp \ failed
        BY DEF PoolInv, Listed
      <3>3. \A m \in Conns : (channelpool[l] # << >> /\ channelpool'[m] # << >>
                               /\ channelpool'[m][1] = channelpool[l][1]) => m = l
        BY <3>1, <1>4 DEF PoolInv, Listed
      <3> QED
        BY <3>1, <3>2, <3>3
    <2> QED
      BY <2>2, <2>3
  <1>10. Carried'
    <2>1. \A d \in Queries : Using(d)' => d # c /\ Using(d) /\ query'[d] = query[d] /\ query[d].ch # s
      BY <1>2, <1>6 DEF Using
    <2>2. UNCHANGED << channelsTcp, failed >>
      BY <1>3
    <2> QED
      BY <2>1, <2>2, <1>4 DEF PoolInv, Carried
  <1>11. \A d \in Queries : query'[d].pc # "idle" =>
            d # c /\ query'[d] = query[d] /\ query[d].conn \in Conns /\ query[d].conn # k
    BY <1>1, <1>6 DEF PoolInv, TypeOK, Held, Conns
  <1>12. Held'
    <2>1. nconn' = nconn
      BY <1>3
    <2> QED
      BY <2>1, <1>4, <1>11 DEF PoolInv, Held
  <1>13. Queued'
    <2>1. \A i \in 1 .. Len(connsTcp) : connsTcp[i] # k /\ connsTcp[i] \in Conns
      <3>1. \A i \in DOMAIN connsTcp : connsTcp[i] # k
        BY <1>1 DEF PoolInv, Queued, QueuedConnsReady
      <3>2. \A i \in DOMAIN connsTcp : connsTcp[i] \in Conns
        BY DEF PoolInv, TypeOK
      <3> QED
        BY <3>1, <3>2, <1>7
    <2>2. \A i, j \in DOMAIN connsTcp' : connsTcp'[j] = connsTcp'[i] => j = i
      BY <2>1, <1>7 DEF PoolInv, Queued, QueuedConnsReady
    <2>3. \A i \in DOMAIN connsTcp' : \A d \in Queries : query'[d].pc # "idle" => query'[d].conn # connsTcp'[i]
      BY <1>7, <1>11 DEF PoolInv, Queued, QueuedConnsReady
    <2>4. \A i \in DOMAIN connsTcp' : Len(channelpool'[connsTcp'[i]]) = 1 /\ connsTcp'[i] <= nconn'
      BY <2>1, <1>1, <1>3, <1>4, <1>7 DEF PoolInv, Queued, QueuedConnsReady
    <2> QED
      BY <2>2, <2>3, <2>4 DEF Queued, QueuedConnsReady
  <1>14. Numbered'
    BY <1>3 DEF PoolInv, Numbered
  <1> QED
    BY <1>8, <1>9, <1>10, <1>12, <1>13, <1>14 DEF PoolInv

(* Every step keeps the invariant. *)
LEMMA NextInv == PoolInv /\ [Next]_vars => PoolInv'
  <1> SUFFICES ASSUME PoolInv, [Next]_vars PROVE PoolInv'
    OBVIOUS
  <1> USE ConnPoolAssumption
  <1>1. ASSUME NEW c \in Queries, ExecuteQuery(c) PROVE PoolInv'
    BY <1>1, FirstUseInv, ReuseInv
  <1>2. ASSUME NEW c \in Queries, Connected(c) PROVE PoolInv'
    BY <1>2, ConnectedInv
  <1>3. ASSUME NEW c \in Queries, Refused(c) PROVE PoolInv'
    <2>1. CASE query' = [query EXCEPT ![c] = Idle]
      BY <1>3, <2>1, DropInv DEF Refused
    <2>2. CASE query' = [query EXCEPT ![c].dial = NextDial(@)] /\ NextDial(query[c].dial) <= MaxDials
      <3>1. query' \in [Queries -> QueryStates]
        <4>1. NextDial(query[c].dial) \in 0 .. MaxDials
          BY <2>2 DEF PoolInv, TypeOK, QueryStates, NextDial, MaxDials
        <4> QED
          BY <4>1, <2>2 DEF PoolInv, TypeOK, QueryStates
      <3>2. \A d \in Queries : /\ query'[d].conn = query[d].conn /\ query'[d].ch = query[d].ch
                               /\ query'[d].pc = query[d].pc
        BY <2>2 DEF PoolInv, TypeOK, QueryStates
      <3>3. UNCHANGED << connsTcp, nconn, channelpool, sockNo, channelsTcp, up, failed >>
        BY <1>3 DEF Refused
      <3> QED
        BY <3>1, <3>2, <3>3, MoveInv DEF Using
    <2> QED
      BY <1>3, <2>1, <2>2 DEF Refused
  <1>4. ASSUME NEW c \in Queries, Sent(c) PROVE PoolInv'
    <2>1. query' \in [Queries -> QueryStates]
      BY <1>4 DEF PoolInv, TypeOK, QueryStates, Sent
    <2>2. /\ query[c].pc = "send" /\ query'[c].pc = "wait"
          /\ query'[c].conn = query[c].conn /\ query'[c].ch = query[c].ch
          /\ \A d \in Queries : d # c => query'[d] = query[d]
      BY <1>4 DEF PoolInv, TypeOK, QueryStates, Sent
    <2>3. UNCHANGED << connsTcp, nconn, channelpool, sockNo, channelsTcp, up, failed >>
      BY <1>4 DEF Sent
    <2>4. \A d \in Queries : /\ query'[d].conn = query[d].conn /\ query'[d].ch = query[d].ch
                             /\ query'[d].pc = "idle" <=> query[d].pc = "idle"
                             /\ Using(d)' <=> Using(d)
      BY <2>2 DEF Using
    <2> QED
      BY <2>1, <2>3, <2>4, MoveInv
  <1>5. ASSUME NEW c \in Queries, SendFailed(c) PROVE PoolInv'
    BY <1>5, DropInv DEF SendFailed, Using
  <1>6. ASSUME NEW c \in Queries, Replied(c) PROVE PoolInv'
    BY <1>6, RepliedInv
  <1>7. ASSUME NEW s \in Chans, Break(s) PROVE PoolInv'
    <2>1. /\ query' = query /\ up' \subseteq up
          /\ UNCHANGED << connsTcp, nconn, channelpool, sockNo, channelsTcp, failed >>
      BY <1>7 DEF Break
    <2> QED
      BY <2>1, MoveInv DEF Using, PoolInv, TypeOK
  <1>8. CASE UNCHANGED vars
    BY <1>8, MoveInv DEF vars, Using, PoolInv, TypeOK
  <1> QED
    BY <1>1, <1>2, <1>3, <1>4, <1>5, <1>6, <1>7, <1>8 DEF Next, Step

(* The invariant gives what the pool promises. *)
LEMMA PoolInvImplies == PoolInv => ChannelExclusive /\ QueuedConnsReady /\ FailedNotReused
  <1> SUFFICES ASSUME PoolInv PROVE ChannelExclusive /\ QueuedConnsReady /\ FailedNotReused
    OBVIOUS
  <1> USE ConnPoolAssumption
  <1>1. \A k \in Conns : channelpool[k] \in Seq(Chans) /\ Len(channelpool[k]) <= 1
    BY DEF PoolInv, TypeOK, Listed
  <1>2. ChannelExclusive
    <2> SUFFICES ASSUME NEW s \in Chans, NEW c \in Queries, Uses(c, s)
                 PROVE  /\ \A d \in Queries : Uses(d, s) => d = c
                        /\ \A k \in Conns, i \in 1 .. MaxSock :
                             i \in DOMAIN channelpool[k] => channelpool[k][i] # s
      BY DEF ChannelExclusive
    <2>1. \A d \in Queries : Uses(d, s) => d = c
      BY DEF PoolInv, Carried, Uses, Using
    <2>2. \A k \in Conns : channelpool[k] # << >> => channelpool[k][1] # s
      BY DEF PoolInv, Carried, Uses, Using
    <2>3. \A k \in Conns : \A i \in DOMAIN channelpool[k] : i = 1 /\ channelpool[k] # << >>
      BY <1>1
    <2> QED
      BY <2>1, <2>2, <2>3
  <1>3. QueuedConnsReady
    BY DEF PoolInv, Queued
  <1>4. FailedNotReused
    <2> SUFFICES ASSUME NEW s \in failed
                 PROVE  /\ \A c \in Queries : ~Uses(c, s)
                        /\ \A i \in DOMAIN connsTcp : Head(channelpool[connsTcp[i]]) # s
      BY DEF FailedNotReused
    <2>1. \A c \in Queries : ~Uses(c, s)
      BY DEF PoolInv, Carried, Uses, Using
    <2>2. ASSUME NEW i \in DOMAIN connsTcp PROVE Head(channelpool[connsTcp[i]]) # s
      <3> DEFINE k == connsTcp[i]
      <3>1. k \in Conns /\ Len(channelpool[k]) = 1
        BY <1>3 DEF PoolInv, TypeOK, QueuedConnsReady
      <3>2. channelpool[k] # << >> /\ Head(channelpool[k]) = channelpool[k][1]
        <4>1. channelpool[k] \in Seq(Chans) /\ channelpool[k] # << >>
          BY <3>1, <1>1
        <4> QED
          BY <4>1, FirstOfQueue
      <3> QED
        BY <3>1, <3>2 DEF PoolInv, Listed
    <2> QED
      BY <2>1, <2>2
  <1> QED
    BY <1>2, <1>3, <1>4

(* The database client never has two queries on one channel: however many   *)
(* coroutines call executeQueryTCP and whatever the network does, a channel *)
(* is in one idle list or with one query.                                   *)
THEOREM ChannelsExclusive == Spec => []ChannelExclusive
  <1>1. PoolInv => ChannelExclusive
    BY PoolInvImplies
  <1> QED
    BY <1>1, InitInv, NextInv, PTL DEF Spec

(* A connection object in the queue is there once, with one idle channel    *)
(* and no query.                                                            *)
THEOREM QueuedReady == Spec => []QueuedConnsReady
  <1>1. PoolInv => QueuedConnsReady
    BY PoolInvImplies
  <1> QED
    BY <1>1, InitInv, NextInv, PTL DEF Spec

(* The channel of a failed query is never given to another. *)
THEOREM FailedDropped == Spec => []FailedNotReused
  <1>1. PoolInv => FailedNotReused
    BY PoolInvImplies
  <1> QED
    BY <1>1, InitInv, NextInv, PTL DEF Spec

(* A connection object moves between the queue and a query one for one, and *)
(* a new one is made only when the queue is empty.                          *)
LEMMA BoundStep == PoolInv /\ PoolBounded /\ [Next]_vars => PoolBounded'
  <1> SUFFICES ASSUME PoolInv, PoolBounded, [Next]_vars PROVE PoolBounded'
    OBVIOUS
  <1> USE ConnPoolAssumption
  <1>1. /\ Active \subseteq Queries /\ Active' \subseteq Queries
        /\ Cardinality(Queries) \in Nat
        /\ IsFiniteSet(Active) /\ Cardinality(Active) \in Nat
        /\ IsFiniteSet(Active') /\ Cardinality(Active') \in Nat /\ Cardinality(Active') <= Cardinality(Queries)
    BY FS_Subset, FS_CardinalityType DEF Active
  <1>2. connsTcp \in Seq(Conns) /\ Len(connsTcp) \in Nat
    BY DEF PoolInv, TypeOK
  <1>3. ASSUME NEW c \in Queries, ExecuteQuery(c), NoneQueued PROVE PoolBounded'
    <2>1. Len(connsTcp') = 0
      BY <1>3 DEF ExecuteQuery, Dequeued, NoneQueued
    <2> QED
      BY <2>1, <1>1 DEF PoolBounded
  <1>4. ASSUME NEW c \in Queries, ExecuteQuery(c), ~NoneQueued PROVE PoolBounded'
    <2>1. Len(connsTcp') = Len(connsTcp) - 1
      BY <1>2, <1>4 DEF ExecuteQuery, Dequeued, NoneQueued
    <2>2. query[c].pc = "idle" /\ query'[c].pc # "idle" /\ \A d \in Queries \ {c} : query'[d] = query[d]
      BY <1>4 DEF ExecuteQuery, PoolInv, TypeOK
    <2>3. c \notin Active /\ Active' = Active \cup {c}
      BY <2>2 DEF Active
    <2>4. Cardinality(Active') = Cardinality(Active) + 1
      BY <2>3, <1>1, FS_AddElement
    <2> QED
      BY <2>1, <2>4, <1>1, <1>2 DEF PoolBounded
  <1>5. ASSUME connsTcp' = connsTcp, Active' \subseteq Active PROVE PoolBounded'
    <2>1. Cardinality(Active') <= Cardinality(Active)
      BY <1>1, <1>5, FS_Subset
    <2> QED
      BY <2>1, <1>1, <1>2, <1>5 DEF PoolBounded
  <1>6. ASSUME NEW c \in Queries, Connected(c) \/ Refused(c) \/ Sent(c) \/ SendFailed(c) PROVE PoolBounded'
    <2>1. query[c].pc # "idle" /\ connsTcp' = connsTcp /\ \A d \in Queries \ {c} : query'[d] = query[d]
      BY <1>6 DEF Connected, Refused, Sent, SendFailed, PoolInv, TypeOK
    <2> QED
      BY <2>1, <1>5 DEF Active
  <1>7. ASSUME NEW c \in Queries, Replied(c) PROVE PoolBounded'
    <2>1. Len(connsTcp') = Len(connsTcp) + 1
      BY <1>2, <1>7 DEF Replied, PoolInv, Held, TypeOK, QueryStates
    <2>2. query[c].pc # "idle" /\ query'[c] = Idle /\ \A d \in Queries \ {c} : query'[d] = query[d]
      BY <1>7 DEF Replied, PoolInv, TypeOK
    <2>3. c \in Active /\ Active' = Active \ {c}
      BY <2>2 DEF Active, Idle
    <2>4. Cardinality(Active') = Cardinality(Active) - 1
      BY <2>3, <1>1, FS_RemoveElement
    <2> QED
      BY <2>1, <2>4, <1>1, <1>2 DEF PoolBounded
  <1>8. ASSUME NEW s \in Chans, Break(s) PROVE PoolBounded'
    BY <1>5, <1>8 DEF Break, Active
  <1>9. CASE UNCHANGED vars
    BY <1>5, <1>9 DEF vars, Active
  <1> QED
    BY <1>3, <1>4, <1>6, <1>7, <1>8, <1>9 DEF Next, Step

(* The pool never holds more connection objects than there are queries at   *)
(* once, however many queries were made and failed.                         *)
THEOREM PoolIsBounded == Spec => []PoolBounded
  <1>1. Init => PoolBounded
    <2> SUFFICES ASSUME Init PROVE PoolBounded
      OBVIOUS
    <2>1. Active = {} /\ connsTcp = << >>
      BY DEF Init, Active, Idle
    <2>2. Cardinality({}) = 0 /\ Cardinality(Queries) \in Nat
      BY FS_EmptySet, FS_CardinalityType, ConnPoolAssumption
    <2> QED
      BY <2>1, <2>2 DEF PoolBounded
  <1> QED
    BY <1>1, InitInv, NextInv, BoundStep, PTL DEF Spec

(* Every reachable state of the pool is well typed, for every value of the  *)
(* constants.                                                               *)
THEOREM PoolTyped == Spec => []TypeOK
  <1>1. PoolInv => TypeOK
    BY DEF PoolInv
  <1> QED
    BY <1>1, InitInv, NextInv, PTL DEF Spec
=============================================================================
