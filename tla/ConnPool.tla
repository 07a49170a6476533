------------------------------ MODULE ConnPool ------------------------------
(***************************************************************************)
(* The database client's connections: DBConnectManager keeps a queue of    *)
(* DBConnectTCP objects, each of which owns a TcpClientCombine with a list *)
(* of idle channels.  A query takes a connection object (or makes one),    *)
(* takes a channel from it (or dials one) and calls reqrep on it.          *)
(*                                                                         *)
(* The remote call itself is module Rpc: here it is sent, and then answered*)
(* or not.  A channel is its sock number, the key of _channelsTcp.         *)
(***************************************************************************)
EXTENDS Integers, Sequences, FiniteSets

CONSTANTS
  Queries,   \* coroutines that call executeQueryTCP, again and again
  MaxConn,   \* bound: DBConnectTCP objects made
  MaxSock,   \* bound: numbers given out by newSockNo
  MayBreak,  \* whether connections may be lost
  MayRefuse  \* whether the server may refuse a connection

ASSUME ConnPoolAssumption ==
  /\ IsFiniteSet(Queries)
  /\ MaxConn \in Nat /\ MaxSock \in Nat
  /\ MayBreak \in BOOLEAN /\ MayRefuse \in BOOLEAN

Conns == 1 .. MaxConn
Chans == 1 .. MaxSock

VARIABLES
  connsTcp,     \* DBConnectManager::_connsTcp
  nconn,        \* DBConnectTCP objects made so far
  channelpool,  \* TcpClientCombine::_channelpool of a connection
  sockNo,       \* SMNetwork::_sockNo
  channelsTcp,  \* LocalNetManager::_channelsTcp: never erased from
  up,           \* channels whose connection is alive
  query,        \* where a query is, its connection, its channel, its dials
  failed        \* history: channels on which a query failed

vars == << connsTcp, nconn, channelpool, sockNo, channelsTcp, up, query, failed >>

Idle == [pc |-> "idle", conn |-> 0, ch |-> 0, dial |-> 0]

Init ==
  /\ connsTcp = << >> /\ nconn = 0
  /\ channelpool = [k \in Conns |-> << >>]
  /\ sockNo = 0 /\ channelsTcp = {} /\ up = {} /\ failed = {}
  /\ query = [c \in Queries |-> Idle]

-----------------------------------------------------------------------------
NoneQueued_Always == TRUE
(* try_dequeue finds nothing. *)
NoneQueued == connsTcp = << >>

(* _connsTcp after try_dequeue. *)
Dequeued == IF NoneQueued THEN connsTcp ELSE Tail(connsTcp)

(* The connection object a query uses: a queued one, or a new one. *)
TakenConn == IF NoneQueued THEN nconn + 1 ELSE Head(connsTcp)

(* executeQueryTCP, _execQuery and getChannel up to the first co_await. *)
ExecuteQuery(c) ==
  LET k == TakenConn
  IN  /\ query[c].pc = "idle"
      /\ NoneQueued => nconn < MaxConn
      /\ nconn' = IF NoneQueued THEN nconn + 1 ELSE nconn
      /\ connsTcp' = Dequeued
      /\ \/ /\ channelpool[k] = << >>
            /\ query' = [query EXCEPT ![c] = [pc |-> "dial", conn |-> k, ch |-> 0, dial |-> 1]]
            /\ UNCHANGED channelpool
         \/ /\ channelpool[k] # << >>
            /\ query' = [query EXCEPT ![c] =
                           [pc |-> "send", conn |-> k, ch |-> Head(channelpool[k]), dial |-> 0]]
            /\ channelpool' = [channelpool EXCEPT ![k] = Tail(@)]
      /\ UNCHANGED << sockNo, channelsTcp, up, failed >>

NewSock_PerClient(k) == Len(channelpool[k]) + 2
(* getChannel takes a number it does not use, createTcpChannel the next. *)
NewSock(k) == sockNo + 2

(* _channelsTcp.insert *)
Registered(s) == channelsTcp \cup {s}

(* async_connect succeeded: the channel is made, registered and started. *)
Connected(c) ==
  LET s == NewSock(query[c].conn)
  IN  /\ query[c].pc = "dial" /\ s \in Chans
      /\ sockNo' = sockNo + 2
      /\ channelsTcp' = Registered(s)
      /\ up' = up \cup {s}
      /\ query' = [query EXCEPT ![c].pc = "send", ![c].ch = s]
      /\ UNCHANGED << connsTcp, nconn, channelpool, failed >>

MaxDials == 3

NextDial_Reset(d) == IF d = MaxDials THEN 1 ELSE d + 1
(* ++trycount *)
NextDial(d) == d + 1

(* async_connect threw: dial again, or fail the query and drop the         *)
(* connection object.                                                      *)
Refused(c) ==
  /\ MayRefuse /\ query[c].pc = "dial"
  /\ \/ /\ NextDial(query[c].dial) <= MaxDials
        /\ query' = [query EXCEPT ![c].dial = NextDial(@)]
     \/ /\ NextDial(query[c].dial) > MaxDials
        /\ query' = [query EXCEPT ![c] = Idle]
  /\ UNCHANGED << connsTcp, nconn, channelpool, sockNo, channelsTcp, up, failed >>

-----------------------------------------------------------------------------
(* reqrep: the request is on the wire. *)
Sent(c) ==
  /\ query[c].pc = "send" /\ query[c].ch \in up
  /\ query' = [query EXCEPT ![c].pc = "wait"]
  /\ UNCHANGED << connsTcp, nconn, channelpool, sockNo, channelsTcp, up, failed >>

SendFailed_Returned(c) ==
  /\ query[c].pc = "send" /\ query[c].ch \notin up
  /\ channelpool' = [channelpool EXCEPT ![query[c].conn] = Append(@, query[c].ch)]
  /\ connsTcp' = Append(connsTcp, query[c].conn)
  /\ failed' = failed \cup {query[c].ch}
  /\ query' = [query EXCEPT ![c] = Idle]
  /\ UNCHANGED << nconn, sockNo, channelsTcp, up >>

(* reqrep returned null.  trycount goes up twice a round, so _execQuery     *)
(* ends after one round and returns false: neither the channel nor the     *)
(* connection object is given back.                                        *)
SendFailed(c) ==
  /\ query[c].pc = "send" /\ query[c].ch \notin up
  /\ failed' = failed \cup {query[c].ch}
  /\ query' = [query EXCEPT ![c] = Idle]
  /\ UNCHANGED << connsTcp, nconn, channelpool, sockNo, channelsTcp, up >>

Returned_Dropped(c) == channelpool
(* _returnChannel *)
Returned(c) == [channelpool EXCEPT ![query[c].conn] = Append(@, query[c].ch)]

(* reqrep returned a body.  After the connection was lost it may be the     *)
(* empty one of module ReqRep's RecvNothing.                                *)
Replied(c) ==
  /\ query[c].pc = "wait"
  /\ channelpool' = Returned(c)
  /\ connsTcp' = Append(connsTcp, query[c].conn)
  /\ query' = [query EXCEPT ![c] = Idle]
  /\ UNCHANGED << nconn, sockNo, channelsTcp, up, failed >>

(* The environment: a connection is lost. *)
Break(s) ==
  /\ MayBreak /\ s \in up /\ up' = up \ {s}
  /\ UNCHANGED << connsTcp, nconn, channelpool, sockNo, channelsTcp, query, failed >>

-----------------------------------------------------------------------------
Step(c) == Connected(c) \/ Refused(c) \/ Sent(c) \/ SendFailed(c) \/ Replied(c)
Next == (\E c \in Queries : ExecuteQuery(c) \/ Step(c)) \/ \E s \in Chans : Break(s)

Spec == Init /\ [][Next]_vars

(* A connect attempt ends one way or the other, a send completes, and the   *)
(* server answers (module ReqRep's EveryCallReturns, while the connection   *)
(* holds).                                                                  *)
FairSpec == Spec /\ \A c \in Queries : WF_vars(Step(c))

-----------------------------------------------------------------------------
QueryStates == [pc : {"idle", "dial", "send", "wait"}, conn : {0} \cup Conns,
                ch : {0} \cup Chans, dial : 0 .. MaxDials]

(* The pool's variables have their types, and only registered channels are  *)
(* alive or have failed.                                                    *)
TypeOK ==
  /\ connsTcp \in Seq(Conns) /\ nconn \in 0 .. MaxConn
  /\ channelpool \in [Conns -> Seq(Chans)]
  /\ sockNo \in 0 .. MaxSock
  /\ channelsTcp \subseteq Chans /\ up \subseteq channelsTcp /\ failed \subseteq channelsTcp
  /\ query \in [Queries -> QueryStates]

(* Query c is using channel s. *)
Uses(c, s) == query[c].pc \in {"send", "wait"} /\ query[c].ch = s

(* A channel carries at most one query at a time, and never while it is in  *)
(* an idle list: the client never has two sendPacks, or two requests,       *)
(* outstanding on one connection.                                           *)
ChannelExclusive ==
  \A s \in Chans, c \in Queries :
    Uses(c, s) => /\ \A d \in Queries : Uses(d, s) => d = c
                  /\ \A k \in Conns, i \in 1 .. MaxSock :
                       i \in DOMAIN channelpool[k] => channelpool[k][i] # s

(* A queued connection object is queued once, serves no query, and has      *)
(* exactly one idle channel: a query that finds one never dials.            *)
QueuedConnsReady ==
  \A i \in DOMAIN connsTcp :
    /\ \A j \in DOMAIN connsTcp : connsTcp[j] = connsTcp[i] => j = i
    /\ \A c \in Queries : query[c].pc # "idle" => query[c].conn # connsTcp[i]
    /\ Len(channelpool[connsTcp[i]]) = 1

Active == {c \in Queries : query[c].pc # "idle"}

(* The pool never holds more connections than there can be queries at once, *)
(* however many queries were made.                                          *)
PoolBounded == Len(connsTcp) + Cardinality(Active) <= Cardinality(Queries)

(* A channel on which a query failed is never used for another.             *)
FailedNotReused ==
  \A s \in failed :
    /\ \A c \in Queries : ~Uses(c, s)
    /\ \A i \in DOMAIN connsTcp : Head(channelpool[connsTcp[i]]) # s

(* Every query ends, however often the server refuses, unless the           *)
(* connection is lost while it waits for the reply.                         *)
EveryQueryReturns ==
  \A c \in Queries :
    query[c].pc # "idle" ~> \/ query[c].pc = "idle"
                            \/ query[c].pc = "wait" /\ query[c].ch \notin up
=============================================================================
