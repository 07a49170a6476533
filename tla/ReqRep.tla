------------------------------- MODULE ReqRep -------------------------------
(***************************************************************************)
(* The request/reply layer: ChannelCombine over a MessageRouter.           *)
(*                                                                         *)
(* A channel is a pair of socks, s and Peer[s].  An application coroutine   *)
(* calls ChannelCombine::reqrep on its sock, which numbers the message,    *)
(* registers two oneshot signals with the router of its process, queues    *)
(* the message in _dataapp and waits.  Router coroutine 1 takes messages   *)
(* from _dataapp and sends them.  Each sock has a receive loop that hands  *)
(* a pack to the waiting caller with that number, or else starts a handler *)
(* coroutine that queues it in _dataio; router coroutine 2 runs the        *)
(* application's dealer for one queued message at a time and signals the   *)
(* handler coroutine, which sends the reply.                               *)
(*                                                                         *)
(* All coroutines of a process run on one io_context thread: a step is     *)
(* what happens between two co_awaits.  Packs are whole here; how they are *)
(* cut into bytes is the subject of module TcpFrame.                       *)
(***************************************************************************)
EXTENDS Integers, Sequences, FiniteSets

CONSTANTS
  Procs,      \* processes, each with its own MessageRouter
  Socks,      \* channel ends
  Peer,       \* the other end of a sock's channel
  Home,       \* the process a sock belongs to
  Mode,       \* ChannelModeC of the ChannelCombine of a sock
  Kind,       \* "tcp": in _channelsTcp; "pair": made by createPair
  Callers,    \* application coroutines that call reqrep
  Chan,       \* the sock a caller uses
  MaxNo,      \* numeric_limits<uint32_t>::max()
  Cap,        \* buffer size of _dataapp and _dataio (10 in the code)
  MaxReq,     \* bound: requests issued on a sock
  Breakable,  \* socks whose connection may be lost
  MayThrow    \* whether an application dealer may throw

ASSUME ReqRepAssumption ==
  /\ Socks # {}
  /\ Peer \in [Socks -> Socks]
  /\ \A s \in Socks : Peer[s] # s /\ Peer[Peer[s]] = s
  /\ Home \in [Socks -> Procs]
  /\ Mode \in [Socks -> {"Initiative", "Passive"}]
  /\ Kind \in [Socks -> {"tcp", "pair"}]
  /\ Chan \in [Callers -> Socks]
  /\ MaxNo \in Nat \ {0}
  /\ Cap \in Nat \ {0}
  /\ MaxReq \in Nat
  /\ Breakable \subseteq Socks
  /\ MayThrow \in BOOLEAN

VARIABLES
  reqNo,      \* ChannelCombine::_reqNo of a sock
  issued,     \* how many numbers newReq has handed out on a sock
  caller,     \* a reqrep coroutine: where it waits, its number, its result
  sendSignals,\* _sendCompleteSignals[sock][no]
  netSignals, \* _netRepSignals[sock][no]
  appSignals, \* _appRepSignals[sock][no]
  dataapp,    \* _dataapp of a process
  dataio,     \* _dataio of a process
  router1,    \* the coroutine of MessageRouter::start that sends
  router2,    \* the coroutine of MessageRouter::start that dispatches
  handler,    \* the coroutines spawned by the receive loop of a sock
  wire,       \* packs sent by a sock and not yet received by its peer
  link,       \* whether the connection of a sock is up
  aborted,    \* the assert that stopped a process, "no" while it runs
  served      \* history: requests a dealer was called for

vars == << reqNo, issued, caller, sendSignals, netSignals, appSignals, dataapp,
           dataio, router1, router2, handler, wire, link, aborted, served >>

Nos == 0 .. MaxNo
Half_Missing == 0
Half == MaxNo \div 2

(***************************************************************************)
(* What a message body says: the k-th request issued on a sock, or the     *)
(* answer the dealer computed from a body.  NoBody is a null body, Junk    *)
(* the empty string recvPack returns when it read nothing.                 *)
(***************************************************************************)
Req(s, k) == [sock |-> s, k |-> k, kind |-> "req"]
Answer(b) == [b EXCEPT !.kind = "ans"]
Bodies == [sock : Socks, k : 0 .. MaxReq, kind : {"req", "ans", "junk", "null"}]
SomeSock == CHOOSE s \in Socks : TRUE
NoBody == [sock |-> SomeSock, k |-> 0, kind |-> "null"]
Junk == [sock |-> SomeSock, k |-> 0, kind |-> "junk"]

NoSignal == [st |-> "none", msg |-> NoBody]
Armed_NotEntered == NoSignal
Armed == [st |-> "armed", msg |-> NoBody]
Sent(b) == [st |-> "sent", msg |-> b]

Msg(s, n, b) == [sock |-> s, no |-> n, body |-> b]
Msgs == [sock : Socks, no : Nos, body : Bodies]
NoMsg == Msg(SomeSock, 0, NoBody)

-----------------------------------------------------------------------------
InitNo_Signed(s) == IF Mode[s] = "Initiative" THEN -1 ELSE Half
InitNo(s) == IF Mode[s] = "Initiative" THEN 0 ELSE Half

Init ==
  /\ reqNo = [s \in Socks |-> InitNo(s)]
  /\ issued = [s \in Socks |-> 0]
  /\ caller = [c \in Callers |-> [pc |-> "idle", no |-> 0, k |-> 0, ret |-> NoBody]]
  /\ sendSignals = [s \in Socks |-> [n \in Nos |-> "none"]]
  /\ netSignals = [s \in Socks |-> [n \in Nos |-> NoSignal]]
  /\ appSignals = [s \in Socks |-> [n \in Nos |-> NoSignal]]
  /\ dataapp = [p \in Procs |-> << >>]
  /\ dataio = [p \in Procs |-> << >>]
  /\ router1 = [p \in Procs |-> [pc |-> "recv", msg |-> NoMsg]]
  /\ router2 = [p \in Procs |-> [pc |-> "recv", msg |-> NoMsg]]
  /\ handler = [s \in Socks |-> [n \in Nos |-> [pc |-> "none", body |-> NoBody]]]
  /\ wire = [s \in Socks |-> << >>]
  /\ link = [s \in Socks |-> "up"]
  /\ aborted = [p \in Procs |-> "no"]
  /\ served = {}

NewReq_NotCounted(s) == reqNo[s]

(***************************************************************************)
(* ChannelCombine::newReq.  uint32_t arithmetic: ++ wraps to 0 after MaxNo.*)
(***************************************************************************)
NewReq(s) ==
  LET n == (reqNo[s] + 1) % (MaxNo + 1)
  IN  IF Mode[s] = "Initiative" THEN (IF n >= MaxNo THEN 0 ELSE n)
                                ELSE (IF n <= Half THEN Half ELSE n)

CanReqRep(s, n) == sendSignals[s][n] = "none" /\ netSignals[s][n].st = "none"
CanWaitAppRep_AnySock(s, n) == \A t \in Socks : appSignals[t][n].st = "none"
CanWaitAppRep(s, n) == appSignals[s][n].st = "none"

Assertions == {"recvers._valid", "recvAppRep != nullptr", "notifyRecvAppRep"}

(* A failed assert ends the process; its connections go down with it. *)
Abort(p, assertion) ==
  /\ aborted' = [aborted EXCEPT ![p] = assertion]
  /\ link' = [s \in Socks |-> IF p \in {Home[s], Home[Peer[s]]} THEN "down" ELSE link[s]]

Running(p) == aborted[p] = "no"

-----------------------------------------------------------------------------
(* reqrep up to its first co_await: number the message, register the two   *)
(* signals.  assert(recvers._valid) fails when the number is still in use. *)
Reqrep(c) ==
  LET s == Chan[c]
      n == NewReq(s)
  IN  /\ Running(Home[s]) /\ caller[c].pc = "idle" /\ issued[s] < MaxReq
      /\ reqNo' = [reqNo EXCEPT ![s] = n]
      /\ issued' = [issued EXCEPT ![s] = @ + 1]
      /\ \/ /\ CanReqRep(s, n)
            /\ sendSignals' = [sendSignals EXCEPT ![s][n] = "armed"]
            /\ netSignals' = [netSignals EXCEPT ![s][n] = Armed]
            /\ caller' = [caller EXCEPT ![c] =
                            [pc |-> "enq", no |-> n, k |-> issued[s] + 1, ret |-> NoBody]]
            /\ UNCHANGED << link, aborted >>
         \/ /\ ~CanReqRep(s, n)
            /\ Abort(Home[s], "recvers._valid")
            /\ UNCHANGED << sendSignals, netSignals, caller >>
      /\ UNCHANGED << appSignals, dataapp, dataio, router1, router2, handler, wire, served >>

HasRoom_OneLess(q) == Len(q) + 1 < Cap

(* async_send on a concurrent_channel completes while its buffer has room. *)
HasRoom(q) == Len(q) < Cap

(* addPackFromApp: waits while _dataapp is full. *)
AddPackFromApp(c) ==
  LET s == Chan[c]
      p == Home[s]
  IN  /\ Running(Home[s]) /\ caller[c].pc = "enq" /\ HasRoom(dataapp[p])
      /\ dataapp' = [dataapp EXCEPT ![p] =
                       Append(@, Msg(s, caller[c].no, Req(s, caller[c].k)))]
      /\ caller' = [caller EXCEPT ![c].pc = "waitSend"]
      /\ UNCHANGED << reqNo, issued, sendSignals, netSignals, appSignals, dataio, router1,
                      router2, handler, wire, link, aborted, served >>

FinishReqRep_OneTable(s, n) ==
  /\ sendSignals' = [sendSignals EXCEPT ![s][n] = "none"]
  /\ UNCHANGED netSignals

(* FinishReqRepRecver: both signals of the number are erased. *)
FinishReqRep(s, n) ==
  /\ sendSignals' = [sendSignals EXCEPT ![s][n] = "none"]
  /\ netSignals' = [netSignals EXCEPT ![s][n] = NoSignal]

(* reqrep after _r1: a failed send ends the call with a null reply. *)
SendCompleted(c) ==
  LET s == Chan[c]
      n == caller[c].no
  IN  /\ Running(Home[s]) /\ caller[c].pc = "waitSend"
      /\ \/ /\ sendSignals[s][n] = "ok"
            /\ caller' = [caller EXCEPT ![c].pc = "waitRep"]
            /\ UNCHANGED << sendSignals, netSignals >>
         \/ /\ sendSignals[s][n] = "failed"
            /\ FinishReqRep(s, n)
            /\ caller' = [caller EXCEPT ![c].pc = "idle"]
      /\ UNCHANGED << reqNo, issued, appSignals, dataapp, dataio, router1, router2, handler,
                      wire, link, aborted, served >>

(* reqrep after _r2: the reply's body is the result. *)
ReplyReceived(c) ==
  LET s == Chan[c]
      n == caller[c].no
  IN  /\ Running(Home[s]) /\ caller[c].pc = "waitRep"
      /\ netSignals[s][n].st = "sent"
      /\ FinishReqRep(s, n)
      /\ caller' = [caller EXCEPT ![c].pc = "idle", ![c].ret = netSignals[s][n].msg]
      /\ UNCHANGED << reqNo, issued, appSignals, dataapp, dataio, router1, router2, handler,
                      wire, link, aborted, served >>

-----------------------------------------------------------------------------
(* Whether LocalNetManager::sendPack finds the sock in one of its maps. *)
ChannelFound(s) == Kind[s] = "tcp"

SendOutcome_Inverted(s) == "failed"

(* What TcpChannelImpl::sendPack returns. *)
SendOutcome(s) == IF link[s] = "up" THEN "ok" ELSE "failed"

(* Router coroutine 1 takes a message.  LocalNetManager::sendPack looks for *)
(* the sock in _channelsTcp, _channelsRep and _channelsReq; createPair puts *)
(* its channels in _channels, so for a pair the message is only logged and *)
(* nobody is notified.                                                     *)
RouterTakeApp(p) ==
  /\ Running(p) /\ router1[p].pc = "recv" /\ dataapp[p] # << >>
  /\ dataapp' = [dataapp EXCEPT ![p] = Tail(@)]
  /\ \/ /\ ChannelFound(Head(dataapp[p]).sock)
        /\ router1' = [router1 EXCEPT ![p] = [pc |-> "send", msg |-> Head(dataapp[p])]]
     \/ /\ ~ChannelFound(Head(dataapp[p]).sock)
        /\ UNCHANGED router1
  /\ UNCHANGED << reqNo, issued, caller, sendSignals, netSignals, appSignals, dataio, router2,
                  handler, wire, link, aborted, served >>

(* sendPack: the pack is on the wire before the sender's coroutine resumes. *)
RouterSend(p) ==
  LET m == router1[p].msg
  IN  /\ Running(p) /\ router1[p].pc = "send"
      /\ router1' = [router1 EXCEPT ![p].pc = SendOutcome(m.sock)]
      /\ wire' = IF link[m.sock] = "up"
                 THEN [wire EXCEPT ![m.sock] = Append(@, [no |-> m.no, body |-> m.body])]
                 ELSE wire
      /\ UNCHANGED << reqNo, issued, caller, sendSignals, netSignals, appSignals, dataapp,
                      dataio, router2, handler, link, aborted, served >>

(* _sendTcp after sendMessage: notifySendNetComplete, if the caller's entry *)
(* is still there and has not been used (a second send throws).            *)
NotifySendComplete(p) ==
  LET m == router1[p].msg
  IN  /\ Running(p) /\ router1[p].pc \in {"ok", "failed"}
      /\ sendSignals' = IF sendSignals[m.sock][m.no] = "armed"
                        THEN [sendSignals EXCEPT ![m.sock][m.no] = router1[p].pc]
                        ELSE sendSignals
      /\ router1' = [router1 EXCEPT ![p] = [pc |-> "recv", msg |-> NoMsg]]
      /\ UNCHANGED << reqNo, issued, caller, netSignals, appSignals, dataapp, dataio, router2,
                      handler, wire, link, aborted, served >>

-----------------------------------------------------------------------------
(* The receive loop of startIO, for one pack that recvPack returned: give  *)
(* it to the caller waiting for its number; without one (or when that      *)
(* signal is already used) spawn a handler coroutine, whose prepareAppRep  *)
(* fails, and with it assert(recvAppRep != nullptr), when the number has   *)
(* been handled on this sock before: _appRepSignals entries are never      *)
(* erased.                                                                 *)
Deliver(s, n, b) ==
  \/ /\ netSignals[s][n].st = "armed"
     /\ netSignals' = [netSignals EXCEPT ![s][n] = Sent(b)]
     /\ UNCHANGED << appSignals, handler, link, aborted >>
  \/ /\ netSignals[s][n].st # "armed" /\ CanWaitAppRep(s, n)
     /\ appSignals' = [appSignals EXCEPT ![s][n] = Armed]
     /\ handler' = [handler EXCEPT ![s][n] = [pc |-> "enq", body |-> b]]
     /\ UNCHANGED << netSignals, link, aborted >>
  \/ /\ netSignals[s][n].st # "armed" /\ ~CanWaitAppRep(s, n)
     /\ Abort(Home[s], "recvAppRep != nullptr")
     /\ UNCHANGED << netSignals, appSignals, handler >>

RecvPack(s) ==
  LET q == wire[Peer[s]]
  IN  /\ Running(Home[s]) /\ q # << >>
      /\ Deliver(s, Head(q).no, Head(q).body)
      /\ wire' = [wire EXCEPT ![Peer[s]] = Tail(@)]
      /\ UNCHANGED << reqNo, issued, caller, sendSignals, dataapp, dataio, router1, router2, served >>

(* recvPack on a lost connection: async_read_some throws, no head was      *)
(* unpacked, and the tuple returned is the uninitialised StreamNetDealer's *)
(* _no with an empty string.  The loop of startIO does not look.           *)
RecvNothing(s) ==
  /\ Running(Home[s]) /\ link[s] = "down" /\ wire[Peer[s]] = << >>
  /\ \E n \in Nos : Deliver(s, n, Junk)
  /\ UNCHANGED << reqNo, issued, caller, sendSignals, dataapp, dataio, router1, router2, wire, served >>

(* addPackFromIo: the handler coroutine waits while _dataio is full. *)
AddPackFromIo(s, n) ==
  LET p == Home[s]
  IN  /\ Running(Home[s]) /\ handler[s][n].pc = "enq" /\ HasRoom(dataio[p])
      /\ dataio' = [dataio EXCEPT ![p] = Append(@, Msg(s, n, handler[s][n].body))]
      /\ handler' = [handler EXCEPT ![s][n].pc = "wait"]
      /\ UNCHANGED << reqNo, issued, caller, sendSignals, netSignals, appSignals, dataapp,
                      router1, router2, wire, link, aborted, served >>

(* Router coroutine 2 takes a message and calls the dealer.  An empty body *)
(* is too short for the platform head: building strreq throws, END_ASIO    *)
(* swallows it and the loop goes on.                                       *)
RouterTakeIo(p) ==
  LET m == Head(dataio[p])
  IN  /\ Running(p) /\ router2[p].pc = "recv" /\ dataio[p] # << >>
      /\ dataio' = [dataio EXCEPT ![p] = Tail(@)]
      /\ \/ /\ m.body.kind # "junk"
            /\ router2' = [router2 EXCEPT ![p] = [pc |-> "deal", msg |-> m]]
            /\ served' = served \cup {m.body}
         \/ /\ m.body.kind = "junk"
            /\ UNCHANGED << router2, served >>
      /\ UNCHANGED << reqNo, issued, caller, sendSignals, netSignals, appSignals, dataapp,
                      router1, handler, wire, link, aborted >>

(* The dealer returned: notifyRecvAppRep, inside an assert. *)
RouterReply(p) ==
  LET m == router2[p].msg
  IN  /\ Running(p) /\ router2[p].pc = "deal"
      /\ router2' = [router2 EXCEPT ![p] = [pc |-> "recv", msg |-> NoMsg]]
      /\ IF appSignals[m.sock][m.no].st = "armed"
         THEN /\ appSignals' = [appSignals EXCEPT ![m.sock][m.no] = Sent(Answer(m.body))]
              /\ UNCHANGED << link, aborted >>
         ELSE /\ Abort(p, "notifyRecvAppRep")
              /\ UNCHANGED appSignals
      /\ UNCHANGED << reqNo, issued, caller, sendSignals, netSignals, dataapp, dataio, router1,
                      handler, wire, served >>

(* The dealer threw: END_ASIO swallows the exception, nobody is notified. *)
DealerThrows(p) ==
  /\ MayThrow /\ Running(p) /\ router2[p].pc = "deal"
  /\ router2' = [router2 EXCEPT ![p] = [pc |-> "recv", msg |-> NoMsg]]
  /\ UNCHANGED << reqNo, issued, caller, sendSignals, netSignals, appSignals, dataapp, dataio,
                  router1, handler, wire, link, aborted, served >>

(* The handler coroutine got its reply and sends it; a failed send is logged. *)
SendReply(s, n) ==
  /\ Running(Home[s]) /\ handler[s][n].pc = "wait" /\ appSignals[s][n].st = "sent"
  /\ handler' = [handler EXCEPT ![s][n].pc = "done"]
  /\ wire' = IF link[s] = "up"
             THEN [wire EXCEPT ![s] = Append(@, [no |-> n, body |-> appSignals[s][n].msg])]
             ELSE wire
  /\ UNCHANGED << reqNo, issued, caller, sendSignals, netSignals, appSignals, dataapp, dataio,
                  router1, router2, link, aborted, served >>

(* The environment: a connection is lost, with what its peers had not read. *)
Break(s) ==
  /\ s \in Breakable /\ link[s] = "up"
  /\ link' = [link EXCEPT ![s] = "down", ![Peer[s]] = "down"]
  /\ \E i \in 0 .. Len(wire[s]), j \in 0 .. Len(wire[Peer[s]]) :
        wire' = [wire EXCEPT ![s] = SubSeq(@, 1, i), ![Peer[s]] = SubSeq(@, 1, j)]
  /\ UNCHANGED << reqNo, issued, caller, sendSignals, netSignals, appSignals, dataapp, dataio,
                  router1, router2, handler, aborted, served >>

-----------------------------------------------------------------------------
CallerStep(c) == AddPackFromApp(c) \/ SendCompleted(c) \/ ReplyReceived(c)
RouterStep(p) == RouterTakeApp(p) \/ RouterSend(p) \/ NotifySendComplete(p)
DispatchStep(p) == RouterTakeIo(p) \/ RouterReply(p)
HandlerStep(s, n) == AddPackFromIo(s, n) \/ SendReply(s, n)

(* Every request allowed by MaxReq was issued and every coroutine is at rest. *)
Quiescent ==
  /\ \A c \in Callers : caller[c].pc = "idle" /\ issued[Chan[c]] = MaxReq
  /\ \A p \in Procs : router1[p].pc = "recv" /\ router2[p].pc = "recv"
  /\ UNCHANGED vars

Next ==
  \/ \E c \in Callers : Reqrep(c) \/ CallerStep(c)
  \/ \E p \in Procs : RouterStep(p) \/ DispatchStep(p) \/ DealerThrows(p)
  \/ \E s \in Socks : RecvPack(s) \/ RecvNothing(s) \/ Break(s)
  \/ \E s \in Socks, n \in Nos : HandlerStep(s, n)
  \/ Quiescent

(* io_context::run resumes every coroutine that can go on.  Nothing obliges *)
(* the application to call, a dealer to throw or a connection to be lost.  *)
Fairness ==
  /\ \A c \in Callers : WF_vars(CallerStep(c))
  /\ \A p \in Procs : WF_vars(RouterStep(p)) /\ WF_vars(DispatchStep(p))
  /\ \A s \in Socks : WF_vars(RecvPack(s))
  /\ \A s \in Socks, n \in Nos : WF_vars(HandlerStep(s, n))

Spec == Init /\ [][Next]_vars
FairSpec == Spec /\ Fairness

-----------------------------------------------------------------------------
CallerStates == [pc : {"idle", "enq", "waitSend", "waitRep"}, no : Nos, k : 0 .. MaxReq, ret : Bodies]
RepSignals == [st : {"none", "armed", "sent"}, msg : Bodies]
Packs == [no : Nos, body : Bodies]
SenderStates == [pc : {"recv", "send", "ok", "failed"}, msg : Msgs]
DispatcherStates == [pc : {"recv", "deal"}, msg : Msgs]
HandlerStates == [pc : {"none", "enq", "wait", "done"}, body : Bodies]

(* Every variable has the type its C++ counterpart has. *)
TypeOK ==
  /\ reqNo \in [Socks -> Nos]
  /\ issued \in [Socks -> 0 .. MaxReq]
  /\ caller \in [Callers -> CallerStates]
  /\ sendSignals \in [Socks -> [Nos -> {"none", "armed", "ok", "failed"}]]
  /\ netSignals \in [Socks -> [Nos -> RepSignals]]
  /\ appSignals \in [Socks -> [Nos -> RepSignals]]
  /\ dataapp \in [Procs -> Seq(Msgs)]
  /\ dataio \in [Procs -> Seq(Msgs)]
  /\ router1 \in [Procs -> SenderStates]
  /\ router2 \in [Procs -> DispatcherStates]
  /\ handler \in [Socks -> [Nos -> HandlerStates]]
  /\ wire \in [Socks -> Seq(Packs)]
  /\ link \in [Socks -> {"up", "down"}]
  /\ aborted \in [Procs -> {"no"} \cup Assertions]
  /\ served \in SUBSET Bodies

-----------------------------------------------------------------------------
(* A reqrep that returns a body returns the answer the peer's dealer        *)
(* computed from this very request: not another caller's reply, not a       *)
(* request of the peer, not an empty string.  Numbers alone tie a pack to   *)
(* a caller (notifyNetRepComplete in ChannelCombine::startIO).              *)
ReplyCorrelation ==
  \A c \in Callers :
    caller[c].ret \in {NoBody, Answer(Req(Chan[c], caller[c].k))}

(* No assert of the request/reply path fails: recvers._valid in reqrep,     *)
(* recvAppRep != nullptr in startIO, notifyRecvAppRep in MessageRouter.     *)
NoAbort == \A p \in Procs : aborted[p] = "no"

(* Caller c waits in reqrep for number n of sock s. *)
InFlight(c, s, n) == Chan[c] = s /\ caller[c].pc # "idle" /\ caller[c].no = n

(* How many numbers newReq hands out before it repeats one: 0 .. MaxNo - 1, *)
(* or Half .. MaxNo.                                                        *)
Supply(s) == IF Mode[s] = "Initiative" THEN MaxNo ELSE MaxNo - Half + 1

(* A failed assert has one of two causes: a connection of the process was   *)
(* lost, after which recvPack returns uninitialised numbers with an empty   *)
(* body and startIO takes them for requests, or a sock has issued as many   *)
(* requests as it has numbers, and _appRepSignals, of which nothing is      *)
(* erased, still has the first of them.                                     *)
AbortHasCause ==
  [][\A p \in Procs : aborted[p] = "no" /\ aborted'[p] # "no"
        => \E s \in Socks :
             /\ Home[s] = p
             /\ link[s] = "down" \/ \E t \in {s, Peer[s]} : issued'[t] > Supply(t)]_vars

(* The signal tables hold exactly the calls in flight: an entry in          *)
(* _sendCompleteSignals or _netRepSignals belongs to one waiting reqrep, so *)
(* no finished call leaves one behind and no two calls share one.           *)
SignalsMatchCalls ==
  \A s \in Socks, n \in Nos :
    /\ sendSignals[s][n] # "none" <=> \E c \in Callers : InFlight(c, s, n)
    /\ netSignals[s][n].st # "none" <=> \E c \in Callers : InFlight(c, s, n)
    /\ \A c, d \in Callers : InFlight(c, s, n) /\ InFlight(d, s, n) => c = d

(* A reqrep that ended with a null reply (failed send) was not, and will    *)
(* not be, executed by the peer: the application may safely try again.      *)
NullMeansNotServed ==
  \A c \in Callers :
    (caller[c].pc = "idle" /\ caller[c].k > 0 /\ caller[c].ret = NoBody)
      => Req(Chan[c], caller[c].k) \notin served

(* A handler coroutine waits for a reply that nobody will make: the dealer  *)
(* has thrown.                                                              *)
Orphaned(s, n) ==
  LET p == Home[s]
  IN  /\ handler[s][n].pc = "wait" /\ appSignals[s][n].st = "armed"
      /\ ~(router2[p].pc = "deal" /\ router2[p].msg.sock = s /\ router2[p].msg.no = n)
      /\ \A i \in DOMAIN dataio[p] : ~(dataio[p][i].sock = s /\ dataio[p][i].no = n)

(* A reqrep is left waiting for ever for two reasons only: the connection   *)
(* was lost, of which nothing tells the caller that waits for its reply, or *)
(* the dealer of the peer threw and END_ASIO swallowed it.  (An assert that *)
(* failed ends the process.)                                                *)
HangHasCause ==
  \A c \in Callers :
    caller[c].pc # "idle" ~>
      \/ caller[c].pc = "idle"
      \/ link[Chan[c]] = "down"
      \/ Orphaned(Peer[Chan[c]], caller[c].no)
      \/ \E p \in Procs : ~ Running(p)

(* Every reqrep returns: no caller is left waiting for a signal that was    *)
(* lost, used up by another, or never sent.                                 *)
EveryCallReturns ==
  \A c \in Callers : caller[c].pc # "idle" ~> caller[c].pc = "idle"
=============================================================================
