---------------------------- MODULE ReqRepProofs ----------------------------
(* Theorems about the request/reply layer, for every layout of channels,   *)
(* every number of callers, every counter width and queue capacity: types, *)
(* the signal tables, what a call may rely on, and that the layer          *)
(* implements the remote call of module Rpc.                               *)
EXTENDS ReqRepRpc, TLAPS

(* A table of tables, as the router's maps are: updating one entry keeps   *)
(* its type.                                                               *)
LEMMA TableUpdate ==
  ASSUME NEW S, NEW T, NEW V, NEW f \in [S -> [T -> V]], NEW s \in S, NEW n \in T, NEW v \in V
  PROVE  [f EXCEPT ![s][n] = v] \in [S -> [T -> V]]
OBVIOUS

(* The bodies and messages that actions put in variables have their types. *)
LEMMA BodyTypes ==
  /\ SomeSock \in Socks
  /\ NoBody \in Bodies /\ Junk \in Bodies /\ NoMsg \in Msgs
  /\ \A s \in Socks, k \in 0 .. MaxReq : Req(s, k) \in Bodies
  /\ \A b \in Bodies : Answer(b) \in Bodies
<1>1. SomeSock \in Socks
  BY ReqRepAssumption DEF SomeSock
<1>2. 0 \in 0 .. MaxReq /\ 0 \in Nos
  BY ReqRepAssumption DEF Nos
<1>3. NoBody \in Bodies /\ Junk \in Bodies
  BY <1>1, <1>2 DEF NoBody, Junk, Bodies
<1>4. NoMsg \in Msgs
  BY <1>1, <1>2, <1>3 DEF NoMsg, Msg, Msgs
<1>5. \A s \in Socks, k \in 0 .. MaxReq : Req(s, k) \in Bodies
  BY DEF Req, Bodies
<1>6. \A b \in Bodies : Answer(b) \in Bodies
  BY DEF Answer, Bodies
<1>7. QED
  BY <1>1, <1>3, <1>4, <1>5, <1>6

(* newReq and the constructor stay inside the range of uint32_t. *)
LEMMA NumberTypes ==
  /\ Half \in Nos
  /\ \A s \in Socks : InitNo(s) \in Nos
  /\ \A s \in Socks : reqNo[s] \in Nos => NewReq(s) \in Nos
<1>1. Half \in Nos
  BY ReqRepAssumption DEF Half, Nos
<1>2. \A s \in Socks : InitNo(s) \in Nos
  BY <1>1, ReqRepAssumption DEF InitNo, Nos
<1>3. \A s \in Socks : reqNo[s] \in Nos => NewReq(s) \in Nos
  BY <1>1, ReqRepAssumption DEF NewReq, Nos
<1>4. QED
  BY <1>1, <1>2, <1>3

(* The three states of a oneshot signal have their type. *)
LEMMA SignalTypes ==
  /\ NoSignal \in RepSignals /\ Armed \in RepSignals
  /\ \A b \in Bodies : Sent(b) \in RepSignals
BY BodyTypes DEF NoSignal, Armed, Sent, RepSignals

(* Types hold in the initial state. *)
LEMMA InitTypeOK == Init => TypeOK
<1> SUFFICES ASSUME Init PROVE TypeOK
  OBVIOUS
<1>1. reqNo \in [Socks -> Nos]
  BY NumberTypes DEF Init
<1>2. issued \in [Socks -> 0 .. MaxReq]
  BY ReqRepAssumption DEF Init
<1>3. caller \in [Callers -> CallerStates]
  BY ReqRepAssumption, BodyTypes DEF Init, CallerStates, Nos
<1>4. router1 \in [Procs -> SenderStates] /\ router2 \in [Procs -> DispatcherStates]
  BY BodyTypes DEF Init, SenderStates, DispatcherStates
<1>5. handler \in [Socks -> [Nos -> HandlerStates]]
  BY BodyTypes DEF Init, HandlerStates
<1>6. netSignals \in [Socks -> [Nos -> RepSignals]] /\ appSignals \in [Socks -> [Nos -> RepSignals]]
  BY SignalTypes DEF Init
<1>7. QED
  BY <1>1, <1>2, <1>3, <1>4, <1>5, <1>6 DEF Init, TypeOK

(* One step at a time: what each action does to the variables it changes. *)
LEMMA AbortType ==
  ASSUME TypeOK, NEW p \in Procs, NEW a \in Assertions, Abort(p, a)
  PROVE  /\ aborted' \in [Procs -> {"no"} \cup Assertions]
         /\ link' \in [Socks -> {"up", "down"}]
BY DEF TypeOK, Abort

(* Types through the receive loop's decision for one pack. *)
LEMMA DeliverType ==
  ASSUME TypeOK, NEW s \in Socks, NEW n \in Nos, NEW b \in Bodies, Deliver(s, n, b)
  PROVE  /\ netSignals' \in [Socks -> [Nos -> RepSignals]]
         /\ appSignals' \in [Socks -> [Nos -> RepSignals]]
         /\ handler' \in [Socks -> [Nos -> HandlerStates]]
         /\ aborted' \in [Procs -> {"no"} \cup Assertions]
         /\ link' \in [Socks -> {"up", "down"}]
<1>1. [pc |-> "enq", body |-> b] \in HandlerStates
  BY DEF HandlerStates
<1>2. CASE netSignals[s][n].st = "armed"
  <2>1. /\ netSignals' = [netSignals EXCEPT ![s][n] = Sent(b)]
        /\ UNCHANGED << appSignals, handler, link, aborted >>
    BY <1>2 DEF Deliver
  <2>2. netSignals' \in [Socks -> [Nos -> RepSignals]]
    BY <2>1, TableUpdate, SignalTypes DEF TypeOK
  <2>3. QED
    BY <2>1, <2>2 DEF TypeOK
<1>3. CASE netSignals[s][n].st # "armed" /\ CanWaitAppRep(s, n)
  <2>1. /\ appSignals' = [appSignals EXCEPT ![s][n] = Armed]
        /\ handler' = [handler EXCEPT ![s][n] = [pc |-> "enq", body |-> b]]
        /\ UNCHANGED << netSignals, link, aborted >>
    BY <1>3 DEF Deliver
  <2>2. appSignals' \in [Socks -> [Nos -> RepSignals]]
    BY <2>1, TableUpdate, SignalTypes DEF TypeOK
  <2>3. handler' \in [Socks -> [Nos -> HandlerStates]]
    BY <1>1, <2>1, TableUpdate DEF TypeOK
  <2>4. QED
    BY <2>1, <2>2, <2>3 DEF TypeOK
<1>4. CASE netSignals[s][n].st # "armed" /\ ~CanWaitAppRep(s, n)
  <2>1. Home[s] \in Procs /\ "recvAppRep != nullptr" \in Assertions
    BY ReqRepAssumption DEF Assertions
  <2>2. Abort(Home[s], "recvAppRep != nullptr") /\ UNCHANGED << netSignals, appSignals, handler >>
    BY <1>4 DEF Deliver
  <2>3. QED
    BY <2>1, <2>2, AbortType DEF TypeOK
<1>5. QED
  BY <1>2, <1>3, <1>4

(* Types through the beginning of a reqrep. *)
LEMMA ReqrepType ==
  ASSUME TypeOK, NEW c \in Callers, Reqrep(c)
  PROVE  TypeOK'
<1> DEFINE s == Chan[c]
           n == NewReq(s)
<1>1. s \in Socks /\ n \in Nos /\ Home[s] \in Procs
  BY NumberTypes, ReqRepAssumption DEF TypeOK
<1>2. issued[s] + 1 \in 0 .. MaxReq
  BY <1>1, ReqRepAssumption, SMTT(30) DEF TypeOK, Reqrep
<1>3. reqNo' \in [Socks -> Nos] /\ issued' \in [Socks -> 0 .. MaxReq]
  BY <1>1, <1>2 DEF TypeOK, Reqrep
<1>4. CASE CanReqRep(s, n)
  <2>1. [pc |-> "enq", no |-> n, k |-> issued[s] + 1, ret |-> NoBody] \in CallerStates
    BY <1>1, <1>2, BodyTypes DEF CallerStates
  <2>2. caller' \in [Callers -> CallerStates]
    BY <2>1, <1>4, ZenonT(30) DEF TypeOK, Reqrep
  <2>3. /\ sendSignals' \in [Socks -> [Nos -> {"none", "armed", "ok", "failed"}]]
        /\ netSignals' \in [Socks -> [Nos -> RepSignals]]
    <3>1. /\ sendSignals' = [sendSignals EXCEPT ![s][n] = "armed"]
          /\ netSignals' = [netSignals EXCEPT ![s][n] = Armed]
      BY <1>4 DEF Reqrep
    <3>2. "armed" \in {"none", "armed", "ok", "failed"}
      OBVIOUS
    <3>3. QED
      BY <1>1, <3>1, <3>2, TableUpdate, SignalTypes DEF TypeOK
  <2>4. QED
    BY <1>3, <1>4, <2>2, <2>3 DEF TypeOK, Reqrep
<1>5. CASE ~CanReqRep(s, n)
  <2>1. "recvers._valid" \in Assertions
    BY DEF Assertions
  <2>2. Abort(Home[s], "recvers._valid") /\ UNCHANGED << sendSignals, netSignals, caller >>
    BY <1>5 DEF Reqrep
  <2>3. QED
    BY <1>1, <1>3, <2>1, <2>2, AbortType DEF TypeOK, Reqrep
<1>6. QED
  BY <1>4, <1>5

(* Types through the erasure of a number's signals. *)
LEMMA FinishReqRepType ==
  ASSUME TypeOK, NEW s \in Socks, NEW n \in Nos, FinishReqRep(s, n)
  PROVE  /\ sendSignals' \in [Socks -> [Nos -> {"none", "armed", "ok", "failed"}]]
         /\ netSignals' \in [Socks -> [Nos -> RepSignals]]
<1>1. "none" \in {"none", "armed", "ok", "failed"}
  OBVIOUS
<1>2. QED
  BY <1>1, TableUpdate, SignalTypes DEF TypeOK, FinishReqRep

(* Types through the other steps of a reqrep. *)
LEMMA CallerStepType ==
  ASSUME TypeOK, NEW c \in Callers, CallerStep(c)
  PROVE  TypeOK'
<1> DEFINE s == Chan[c]
           n == caller[c].no
<1>1. s \in Socks /\ n \in Nos /\ Home[s] \in Procs /\ caller[c] \in CallerStates
  BY ReqRepAssumption DEF TypeOK, CallerStates
<1>2. CASE AddPackFromApp(c)
  <2>1. Msg(s, n, Req(s, caller[c].k)) \in Msgs
    BY <1>1, BodyTypes DEF CallerStates, Msg, Msgs
  <2>2. dataapp' \in [Procs -> Seq(Msgs)]
    BY <1>1, <1>2, <2>1 DEF AddPackFromApp, TypeOK
  <2>3. caller' \in [Callers -> CallerStates]
    BY <1>1, <1>2 DEF AddPackFromApp, TypeOK, CallerStates
  <2>4. QED
    BY <1>2, <2>2, <2>3 DEF AddPackFromApp, TypeOK
<1>3. CASE SendCompleted(c)
  <2>1. caller' \in [Callers -> CallerStates]
    <3>1. PICK q \in {"waitRep", "idle"} : caller' = [caller EXCEPT ![c].pc = q]
      BY <1>3 DEF SendCompleted
    <3>2. [caller[c] EXCEPT !.pc = q] \in CallerStates
      BY <1>1 DEF CallerStates
    <3>3. QED
      BY <3>1, <3>2 DEF TypeOK
  <2>2. CASE sendSignals[s][n] = "ok"
    BY <1>3, <2>1, <2>2 DEF SendCompleted, TypeOK
  <2>3. CASE sendSignals[s][n] = "failed"
    <3>1. FinishReqRep(s, n)
      BY <1>3, <2>3 DEF SendCompleted
    <3>2. QED
      BY <1>1, <1>3, <2>1, <3>1, FinishReqRepType DEF SendCompleted, TypeOK
  <2>4. QED
    BY <1>3, <2>2, <2>3 DEF SendCompleted
<1>4. CASE ReplyReceived(c)
  <2>1. netSignals[s][n].msg \in Bodies
    BY <1>1 DEF TypeOK, RepSignals
  <2>2. caller' \in [Callers -> CallerStates]
    BY <1>1, <1>4, <2>1 DEF ReplyReceived, TypeOK, CallerStates
  <2>3. FinishReqRep(s, n)
    BY <1>4 DEF ReplyReceived
  <2>4. QED
    BY <1>1, <1>4, <2>2, <2>3, FinishReqRepType DEF ReplyReceived, TypeOK
<1>5. QED
  BY <1>2, <1>3, <1>4 DEF CallerStep

(* Types through router coroutine 1. *)
LEMMA RouterStepType ==
  ASSUME TypeOK, NEW p \in Procs, RouterStep(p)
  PROVE  TypeOK'
<1> DEFINE m == router1[p].msg
<1>1. /\ router1[p] \in SenderStates /\ m \in Msgs /\ m.sock \in Socks /\ m.no \in Nos
      /\ m.body \in Bodies
  BY DEF TypeOK, SenderStates, Msgs
<1>2. CASE RouterTakeApp(p)
  <2>1. dataapp[p] \in Seq(Msgs) /\ dataapp[p] # << >>
    BY <1>2 DEF RouterTakeApp, TypeOK
  <2>2. Head(dataapp[p]) \in Msgs /\ Tail(dataapp[p]) \in Seq(Msgs)
    BY <2>1
  <2>3. router1' \in [Procs -> SenderStates]
    <3>1. [pc |-> "send", msg |-> Head(dataapp[p])] \in SenderStates
      BY <2>2 DEF SenderStates
    <3>2. QED
      BY <1>2, <3>1 DEF RouterTakeApp, TypeOK
  <2>4. dataapp' \in [Procs -> Seq(Msgs)]
    BY <1>2, <2>2 DEF RouterTakeApp, TypeOK
  <2>5. QED
    BY <1>2, <2>3, <2>4 DEF RouterTakeApp, TypeOK
<1>3. CASE RouterSend(p)
  <2>1. SendOutcome(m.sock) \in {"ok", "failed"}
    BY DEF SendOutcome
  <2>2. router1' \in [Procs -> SenderStates]
    BY <1>1, <1>3, <2>1 DEF RouterSend, TypeOK, SenderStates
  <2>3. [no |-> m.no, body |-> m.body] \in Packs
    BY <1>1 DEF Packs
  <2>4. wire' \in [Socks -> Seq(Packs)]
    BY <1>1, <1>3, <2>3 DEF RouterSend, TypeOK
  <2>5. QED
    BY <1>3, <2>2, <2>4 DEF RouterSend, TypeOK
<1>4. CASE NotifySendComplete(p)
  <2>1. router1[p].pc \in {"none", "armed", "ok", "failed"}
    BY <1>4 DEF NotifySendComplete
  <2>2. sendSignals' \in [Socks -> [Nos -> {"none", "armed", "ok", "failed"}]]
    <3>1. sendSignals' \in {sendSignals, [sendSignals EXCEPT ![m.sock][m.no] = router1[p].pc]}
      BY <1>4 DEF NotifySendComplete
    <3>2. /\ [sendSignals EXCEPT ![m.sock][m.no] = router1[p].pc]
               \in [Socks -> [Nos -> {"none", "armed", "ok", "failed"}]]
          /\ sendSignals \in [Socks -> [Nos -> {"none", "armed", "ok", "failed"}]]
      BY <1>1, <2>1, TableUpdate DEF TypeOK
    <3>3. QED
      BY <3>1, <3>2
  <2>3. router1' \in [Procs -> SenderStates]
    BY <1>4, BodyTypes DEF NotifySendComplete, TypeOK, SenderStates
  <2>4. QED
    BY <1>4, <2>2, <2>3 DEF NotifySendComplete, TypeOK
<1>5. QED
  BY <1>2, <1>3, <1>4 DEF RouterStep

(* Types through router coroutine 2. *)
LEMMA DispatchStepType ==
  ASSUME TypeOK, NEW p \in Procs, DispatchStep(p) \/ DealerThrows(p)
  PROVE  TypeOK'
<1> DEFINE m == router2[p].msg
<1>1. m \in Msgs /\ m.sock \in Socks /\ m.no \in Nos /\ m.body \in Bodies
  BY DEF TypeOK, DispatcherStates, Msgs
<1>2. [pc |-> "recv", msg |-> NoMsg] \in DispatcherStates
  BY BodyTypes DEF DispatcherStates
<1>3. CASE RouterTakeIo(p)
  <2>1. dataio[p] \in Seq(Msgs) /\ dataio[p] # << >>
    BY <1>3 DEF RouterTakeIo, TypeOK
  <2>2. Head(dataio[p]) \in Msgs /\ Tail(dataio[p]) \in Seq(Msgs)
    BY <2>1
  <2>3. Head(dataio[p]).body \in Bodies
    BY <2>2 DEF Msgs
  <2>4. [pc |-> "deal", msg |-> Head(dataio[p])] \in DispatcherStates
    BY <2>2 DEF DispatcherStates
  <2>5. router2' \in [Procs -> DispatcherStates] /\ served' \in SUBSET Bodies
    BY <1>3, <2>3, <2>4, ZenonT(30) DEF RouterTakeIo, TypeOK
  <2>6. dataio' \in [Procs -> Seq(Msgs)]
    BY <1>3, <2>2 DEF RouterTakeIo, TypeOK
  <2>7. QED
    BY <1>3, <2>5, <2>6 DEF RouterTakeIo, TypeOK
<1>4. CASE RouterReply(p)
  <2>1. router2' \in [Procs -> DispatcherStates]
    BY <1>2, <1>4 DEF RouterReply, TypeOK
  <2>2. CASE appSignals[m.sock][m.no].st = "armed"
    <3>1. /\ appSignals' = [appSignals EXCEPT ![m.sock][m.no] = Sent(Answer(m.body))]
          /\ UNCHANGED << link, aborted >>
      BY <1>4, <2>2 DEF RouterReply
    <3>2. Sent(Answer(m.body)) \in RepSignals
      BY <1>1, BodyTypes, SignalTypes
    <3>3. appSignals' \in [Socks -> [Nos -> RepSignals]]
      BY <1>1, <3>1, <3>2, TableUpdate DEF TypeOK
    <3>4. QED
      BY <1>4, <2>1, <3>1, <3>3 DEF RouterReply, TypeOK
  <2>3. CASE appSignals[m.sock][m.no].st # "armed"
    <3>1. Abort(p, "notifyRecvAppRep") /\ UNCHANGED appSignals
      BY <1>4, <2>3 DEF RouterReply
    <3>2. "notifyRecvAppRep" \in Assertions
      BY DEF Assertions
    <3>3. QED
      BY <1>4, <2>1, <3>1, <3>2, AbortType DEF RouterReply, TypeOK
  <2>4. QED
    BY <2>2, <2>3
<1>5. CASE DealerThrows(p)
  <2>1. router2' \in [Procs -> DispatcherStates]
    BY <1>2, <1>5 DEF DealerThrows, TypeOK
  <2>2. QED
    BY <1>5, <2>1 DEF DealerThrows, TypeOK
<1>6. QED
  BY <1>3, <1>4, <1>5 DEF DispatchStep

(* Types through the receive loop and the loss of a connection. *)
LEMMA SockStepType ==
  ASSUME TypeOK, NEW s \in Socks, RecvPack(s) \/ RecvNothing(s) \/ Break(s)
  PROVE  TypeOK'
<1>1. Peer[s] \in Socks
  BY ReqRepAssumption
<1>2. CASE RecvPack(s)
  <2> DEFINE q == wire[Peer[s]]
  <2>1. q \in Seq(Packs) /\ q # << >>
    BY <1>1, <1>2 DEF RecvPack, TypeOK
  <2>2. Head(q) \in Packs /\ Tail(q) \in Seq(Packs)
    BY <2>1
  <2>3. Head(q).no \in Nos /\ Head(q).body \in Bodies
    BY <2>2 DEF Packs
  <2>4. wire' \in [Socks -> Seq(Packs)]
    BY <1>1, <1>2, <2>2 DEF RecvPack, TypeOK
  <2>5. Deliver(s, Head(q).no, Head(q).body)
    BY <1>2 DEF RecvPack
  <2>6. QED
    BY <1>2, <2>3, <2>4, <2>5, DeliverType DEF RecvPack, TypeOK
<1>3. CASE RecvNothing(s)
  <2>1. PICK n \in Nos : Deliver(s, n, Junk)
    BY <1>3 DEF RecvNothing
  <2>2. QED
    BY <1>3, <2>1, BodyTypes, DeliverType DEF RecvNothing, TypeOK
<1>4. CASE Break(s)
  <2>1. PICK i \in 0 .. Len(wire[s]), j \in 0 .. Len(wire[Peer[s]]) :
          wire' = [wire EXCEPT ![s] = SubSeq(@, 1, i), ![Peer[s]] = SubSeq(@, 1, j)]
    BY <1>4 DEF Break
  <2>2. wire[s] \in Seq(Packs) /\ wire[Peer[s]] \in Seq(Packs)
    BY <1>1 DEF TypeOK
  <2>3. SubSeq(wire[s], 1, i) \in Seq(Packs)
    BY <2>1, <2>2
  <2>4. SubSeq(wire[Peer[s]], 1, j) \in Seq(Packs)
    BY <2>1, <2>2
  <2>5. wire' \in [Socks -> Seq(Packs)]
    BY <1>1, <2>1, <2>3, <2>4, ReqRepAssumption DEF TypeOK
  <2>6. link' \in [Socks -> {"up", "down"}]
    BY <1>4 DEF Break, TypeOK
  <2>7. QED
    BY <1>4, <2>5, <2>6 DEF Break, TypeOK
<1>5. QED
  BY <1>2, <1>3, <1>4

(* Types through the handler coroutines. *)
LEMMA HandlerStepType ==
  ASSUME TypeOK, NEW s \in Socks, NEW n \in Nos, HandlerStep(s, n)
  PROVE  TypeOK'
<1>1. handler[s][n] \in HandlerStates /\ appSignals[s][n].msg \in Bodies /\ Home[s] \in Procs
  BY ReqRepAssumption DEF TypeOK, RepSignals
<1>2. CASE AddPackFromIo(s, n)
  <2>1. Msg(s, n, handler[s][n].body) \in Msgs
    BY <1>1 DEF HandlerStates, Msg, Msgs
  <2>2. dataio' \in [Procs -> Seq(Msgs)]
    BY <1>1, <1>2, <2>1 DEF AddPackFromIo, TypeOK
  <2>3. handler' \in [Socks -> [Nos -> HandlerStates]]
    <3>1. handler' = [handler EXCEPT ![s][n] = [handler[s][n] EXCEPT !.pc = "wait"]]
      BY <1>2 DEF AddPackFromIo, TypeOK
    <3>2. [handler[s][n] EXCEPT !.pc = "wait"] \in HandlerStates
      BY <1>1 DEF HandlerStates
    <3>3. QED
      BY <3>1, <3>2, TableUpdate DEF TypeOK
  <2>4. QED
    BY <1>2, <2>2, <2>3 DEF AddPackFromIo, TypeOK
<1>3. CASE SendReply(s, n)
  <2>1. handler' \in [Socks -> [Nos -> HandlerStates]]
    <3>1. handler' = [handler EXCEPT ![s][n] = [handler[s][n] EXCEPT !.pc = "done"]]
      BY <1>3 DEF SendReply, TypeOK
    <3>2. [handler[s][n] EXCEPT !.pc = "done"] \in HandlerStates
      BY <1>1 DEF HandlerStates
    <3>3. QED
      BY <3>1, <3>2, TableUpdate DEF TypeOK
  <2>2. [no |-> n, body |-> appSignals[s][n].msg] \in Packs
    BY <1>1 DEF Packs
  <2>3. wire' \in [Socks -> Seq(Packs)]
    BY <1>3, <2>2 DEF SendReply, TypeOK
  <2>4. QED
    BY <1>3, <2>1, <2>3 DEF SendReply, TypeOK
<1>4. QED
  BY <1>2, <1>3 DEF HandlerStep

(* The type invariant, for every configuration: in particular the numbers  *)
(* newReq hands out stay in uint32_t for both modes.                       *)
THEOREM TypeCorrect == Spec => []TypeOK
<1>1. Init => TypeOK
  BY InitTypeOK
<1>2. TypeOK /\ [Next]_vars => TypeOK'
  <2> SUFFICES ASSUME TypeOK, [Next]_vars PROVE TypeOK'
    OBVIOUS
  <2>1. ASSUME NEW c \in Callers, Reqrep(c) \/ CallerStep(c) PROVE TypeOK'
    BY <2>1, ReqrepType, CallerStepType
  <2>2. ASSUME NEW p \in Procs, RouterStep(p) \/ DispatchStep(p) \/ DealerThrows(p) PROVE TypeOK'
    BY <2>2, RouterStepType, DispatchStepType
  <2>3. ASSUME NEW s \in Socks, RecvPack(s) \/ RecvNothing(s) \/ Break(s) PROVE TypeOK'
    BY <2>3, SockStepType
  <2>4. ASSUME NEW s \in Socks, NEW n \in Nos, HandlerStep(s, n) PROVE TypeOK'
    BY <2>4, HandlerStepType
  <2>5. CASE UNCHANGED vars
    BY <2>5 DEF vars, TypeOK
  <2>6. QED
    BY <2>1, <2>2, <2>3, <2>4, <2>5 DEF Next, Quiescent
<1>3. QED
  BY <1>1, <1>2, PTL DEF Spec

-----------------------------------------------------------------------------
(***************************************************************************)
(* The signal tables.  SignalsMatchCalls is inductive as it stands, given  *)
(* the types: reqrep's canReqRep check keeps two calls from sharing an     *)
(* entry, and no other step makes an entry or removes one.                 *)
(***************************************************************************)
LEMMA TableTypes ==
  ASSUME TypeOK
  PROVE  /\ sendSignals \in [Socks -> [Nos -> {"none", "armed", "ok", "failed"}]]
         /\ netSignals \in [Socks -> [Nos -> RepSignals]]
BY DEF TypeOK

(* A step that keeps which numbers are in use and by whom keeps the match. *)
LEMMA SignalsKept ==
  ASSUME SignalsMatchCalls,
         \A c \in Callers, s \in Socks, n \in Nos : InFlight(c, s, n)' <=> InFlight(c, s, n),
         \A s \in Socks, n \in Nos :
           /\ sendSignals'[s][n] # "none" <=> sendSignals[s][n] # "none"
           /\ netSignals'[s][n].st # "none" <=> netSignals[s][n].st # "none"
  PROVE  SignalsMatchCalls'
BY DEF SignalsMatchCalls

(* A call that erases its signals and ends keeps the match. *)
LEMMA SignalsFinished ==
  ASSUME TypeOK, SignalsMatchCalls, NEW c \in Callers, caller[c].pc # "idle",
         FinishReqRep(Chan[c], caller[c].no),
         caller' \in [Callers -> CallerStates], caller'[c].pc = "idle",
         \A d \in Callers \ {c} : caller'[d] = caller[d]
  PROVE  SignalsMatchCalls'
<1> DEFINE s == Chan[c]
           n == caller[c].no
<1>1. s \in Socks /\ n \in Nos
  BY ReqRepAssumption DEF TypeOK, CallerStates
<1>2. /\ \A t \in Socks, m \in Nos : sendSignals'[t][m] = IF t = s /\ m = n THEN "none" ELSE sendSignals[t][m]
      /\ \A t \in Socks, m \in Nos : netSignals'[t][m] = IF t = s /\ m = n THEN NoSignal ELSE netSignals[t][m]
  BY <1>1, TableTypes DEF FinishReqRep
<1>3. InFlight(c, s, n)
  BY DEF InFlight
<1>4. \A d \in Callers, t \in Socks, m \in Nos : InFlight(d, t, m)' <=> d # c /\ InFlight(d, t, m)
  BY DEF InFlight
<1>5. \A d \in Callers, t \in Socks, m \in Nos : InFlight(c, t, m) => t = s /\ m = n
  BY DEF InFlight
<1>6. \A d \in Callers : InFlight(d, s, n) => d = c
  BY <1>1, <1>3 DEF SignalsMatchCalls
<1>7. NoSignal.st = "none"
  BY DEF NoSignal
<1>8. SUFFICES ASSUME NEW t \in Socks, NEW m \in Nos
               PROVE  /\ sendSignals'[t][m] # "none" <=> \E d \in Callers : InFlight(d, t, m)'
                      /\ netSignals'[t][m].st # "none" <=> \E d \in Callers : InFlight(d, t, m)'
                      /\ \A d, e \in Callers : InFlight(d, t, m)' /\ InFlight(e, t, m)' => d = e
  BY DEF SignalsMatchCalls
<1>9. CASE t = s /\ m = n
  BY <1>2, <1>4, <1>6, <1>7, <1>9
<1>10. CASE ~(t = s /\ m = n)
  <2>1. \A d \in Callers : InFlight(d, t, m)' <=> InFlight(d, t, m)
    BY <1>4, <1>5, <1>10
  <2>2. QED
    BY <1>2, <1>10, <2>1 DEF SignalsMatchCalls
<1>11. QED
  BY <1>9, <1>10

(* A new call takes a number that is in neither table. *)
LEMMA ReqrepSignals ==
  ASSUME TypeOK, SignalsMatchCalls, NEW c \in Callers, Reqrep(c)
  PROVE  SignalsMatchCalls'
<1> DEFINE s == Chan[c]
           n == NewReq(s)
<1>1. s \in Socks /\ n \in Nos
  BY NumberTypes, ReqRepAssumption DEF TypeOK
<1>2. CASE ~CanReqRep(s, n)
  BY <1>2 DEF Reqrep, SignalsMatchCalls, InFlight
<1>3. CASE CanReqRep(s, n)
  <2>1. /\ sendSignals' = [sendSignals EXCEPT ![s][n] = "armed"]
        /\ netSignals' = [netSignals EXCEPT ![s][n] = Armed]
        /\ caller' = [caller EXCEPT ![c] =
                        [pc |-> "enq", no |-> n, k |-> issued[s] + 1, ret |-> NoBody]]
        /\ caller[c].pc = "idle"
    BY <1>3 DEF Reqrep
  <2>2. /\ \A t \in Socks, m \in Nos : sendSignals'[t][m] = IF t = s /\ m = n THEN "armed" ELSE sendSignals[t][m]
        /\ \A t \in Socks, m \in Nos : netSignals'[t][m] = IF t = s /\ m = n THEN Armed ELSE netSignals[t][m]
    BY <1>1, <2>1, TableTypes
  <2>3. \A d \in Callers : caller'[d].pc = (IF d = c THEN "enq" ELSE caller[d].pc)
                         /\ caller'[d].no = (IF d = c THEN n ELSE caller[d].no)
    BY <2>1 DEF TypeOK
  <2>4. \A d \in Callers, t \in Socks, m \in Nos :
          InFlight(d, t, m)' <=> IF d = c THEN t = s /\ m = n ELSE InFlight(d, t, m)
    BY <2>3 DEF InFlight
  <2>5. \A t \in Socks, m \in Nos : ~InFlight(c, t, m)
    BY <2>1 DEF InFlight
  <2>6. \A d \in Callers : ~InFlight(d, s, n)
    BY <1>1, <1>3 DEF SignalsMatchCalls, CanReqRep
  <2>7. Armed.st = "armed"
    BY DEF Armed
  <2>8. SUFFICES ASSUME NEW t \in Socks, NEW m \in Nos
                 PROVE  /\ sendSignals'[t][m] # "none" <=> \E d \in Callers : InFlight(d, t, m)'
                        /\ netSignals'[t][m].st # "none" <=> \E d \in Callers : InFlight(d, t, m)'
                        /\ \A d, e \in Callers : InFlight(d, t, m)' /\ InFlight(e, t, m)' => d = e
    BY DEF SignalsMatchCalls
  <2>9. CASE t = s /\ m = n
    BY <2>2, <2>4, <2>6, <2>7, <2>9
  <2>10. CASE ~(t = s /\ m = n)
    <3>1. \A d \in Callers : InFlight(d, t, m)' <=> InFlight(d, t, m)
      BY <2>4, <2>5, <2>10
    <3>2. QED
      BY <2>2, <2>10, <3>1 DEF SignalsMatchCalls
  <2>11. QED
    BY <2>9, <2>10
<1>4. QED
  BY <1>2, <1>3

(* The other steps of a call keep the match, or end the call. *)
LEMMA CallerStepSignals ==
  ASSUME TypeOK, SignalsMatchCalls, NEW c \in Callers, CallerStep(c)
  PROVE  SignalsMatchCalls'
<1>1. TypeOK'
  BY CallerStepType
<1>2. CASE AddPackFromApp(c) \/ (SendCompleted(c) /\ sendSignals[Chan[c]][caller[c].no] = "ok")
  <2>1. PICK q \in {"waitSend", "waitRep"} : caller' = [caller EXCEPT ![c].pc = q]
    BY <1>2 DEF AddPackFromApp, SendCompleted
  <2>2. caller[c].pc # "idle" /\ UNCHANGED << sendSignals, netSignals >>
    BY <1>2 DEF AddPackFromApp, SendCompleted
  <2>3. \A d \in Callers : /\ caller'[d].pc = (IF d = c THEN q ELSE caller[d].pc)
                           /\ caller'[d].no = caller[d].no
    BY <2>1 DEF TypeOK, CallerStates
  <2>4. \A d \in Callers, t \in Socks, m \in Nos : InFlight(d, t, m)' <=> InFlight(d, t, m)
    BY <2>2, <2>3 DEF InFlight
  <2>5. QED
    BY <2>2, <2>4, SignalsKept
<1>3. CASE (SendCompleted(c) /\ sendSignals[Chan[c]][caller[c].no] = "failed") \/ ReplyReceived(c)
  <2>1. caller[c].pc # "idle" /\ FinishReqRep(Chan[c], caller[c].no)
    BY <1>3 DEF SendCompleted, ReplyReceived
  <2>2. caller'[c].pc = "idle" /\ \A d \in Callers \ {c} : caller'[d] = caller[d]
    BY <1>3 DEF SendCompleted, ReplyReceived, TypeOK, CallerStates
  <2>3. caller' \in [Callers -> CallerStates]
    BY <1>1 DEF TypeOK
  <2>4. QED
    BY <2>1, <2>2, <2>3, SignalsFinished
<1>4. QED
  BY <1>2, <1>3 DEF CallerStep, SendCompleted

(* Completing a send signal does not remove it. *)
LEMMA NotifySendCompleteSignals ==
  ASSUME TypeOK, SignalsMatchCalls, NEW p \in Procs, NotifySendComplete(p)
  PROVE  SignalsMatchCalls'
<1> DEFINE m == router1[p].msg
<1>1. m.sock \in Socks /\ m.no \in Nos
  BY DEF TypeOK, SenderStates, Msgs
<1>2. UNCHANGED << caller, netSignals >> /\ router1[p].pc \in {"ok", "failed"}
  BY DEF NotifySendComplete
<1>3. \A s \in Socks, n \in Nos : sendSignals'[s][n] # "none" <=> sendSignals[s][n] # "none"
  <2>1. CASE sendSignals[m.sock][m.no] = "armed"
    <3>1. sendSignals' = [sendSignals EXCEPT ![m.sock][m.no] = router1[p].pc]
      BY <2>1 DEF NotifySendComplete
    <3>2. \A s \in Socks, n \in Nos :
            sendSignals'[s][n] = IF s = m.sock /\ n = m.no THEN router1[p].pc ELSE sendSignals[s][n]
      BY <1>1, <3>1, TableTypes
    <3>3. QED
      BY <1>2, <2>1, <3>2
  <2>2. CASE sendSignals[m.sock][m.no] # "armed"
    BY <2>2 DEF NotifySendComplete
  <2>3. QED
    BY <2>1, <2>2
<1>4. \A c \in Callers, s \in Socks, n \in Nos : InFlight(c, s, n)' <=> InFlight(c, s, n)
  BY <1>2 DEF InFlight
<1>5. QED
  BY <1>2, <1>3, <1>4, SignalsKept

(* Completing a reply signal does not remove it. *)
LEMMA DeliverSignals ==
  ASSUME TypeOK, SignalsMatchCalls, NEW s \in Socks, NEW n \in Nos, NEW b \in Bodies,
         Deliver(s, n, b), UNCHANGED << caller, sendSignals >>
  PROVE  SignalsMatchCalls'
<1>1. \A t \in Socks, m \in Nos : netSignals'[t][m].st # "none" <=> netSignals[t][m].st # "none"
  <2>1. CASE netSignals[s][n].st = "armed"
    <3>1. netSignals' = [netSignals EXCEPT ![s][n] = Sent(b)]
      BY <2>1 DEF Deliver
    <3>2. \A t \in Socks, m \in Nos :
            netSignals'[t][m] = IF t = s /\ m = n THEN Sent(b) ELSE netSignals[t][m]
      BY <3>1, TableTypes
    <3>3. Sent(b).st = "sent"
      BY DEF Sent
    <3>4. QED
      BY <2>1, <3>2, <3>3
  <2>2. CASE netSignals[s][n].st # "armed"
    BY <2>2 DEF Deliver
  <2>3. QED
    BY <2>1, <2>2
<1>2. \A c \in Callers, t \in Socks, m \in Nos : InFlight(c, t, m)' <=> InFlight(c, t, m)
  BY DEF InFlight
<1>3. QED
  BY <1>1, <1>2, SignalsKept

(* The router's tables always hold exactly the calls in flight, whatever   *)
(* the number width, the modes, lost connections and throwing dealers.     *)
THEOREM SignalsCorrect == Spec => []SignalsMatchCalls
<1>1. Init => SignalsMatchCalls
  BY DEF Init, SignalsMatchCalls, InFlight, NoSignal
<1>2. TypeOK /\ SignalsMatchCalls /\ [Next]_vars => SignalsMatchCalls'
  <2> SUFFICES ASSUME TypeOK, SignalsMatchCalls, [Next]_vars PROVE SignalsMatchCalls'
    OBVIOUS
  <2>1. ASSUME NEW c \in Callers, Reqrep(c) \/ CallerStep(c) PROVE SignalsMatchCalls'
    BY <2>1, ReqrepSignals, CallerStepSignals
  <2>2. ASSUME NEW p \in Procs, NotifySendComplete(p) PROVE SignalsMatchCalls'
    BY <2>2, NotifySendCompleteSignals
  <2>3. ASSUME NEW s \in Socks, RecvPack(s) PROVE SignalsMatchCalls'
    <3> DEFINE q == wire[Peer[s]]
    <3>1. Head(q) \in Packs
      <4>1. q \in Seq(Packs) /\ q # << >>
        BY <2>3, ReqRepAssumption DEF RecvPack, TypeOK
      <4>2. QED
        BY <4>1
    <3>2. Head(q).no \in Nos /\ Head(q).body \in Bodies
      BY <3>1 DEF Packs
    <3>3. QED
      BY <2>3, <3>2, DeliverSignals DEF RecvPack
  <2>4. ASSUME NEW s \in Socks, RecvNothing(s) PROVE SignalsMatchCalls'
    <3>1. PICK n \in Nos : Deliver(s, n, Junk)
      BY <2>4 DEF RecvNothing
    <3>2. QED
      BY <2>4, <3>1, BodyTypes, DeliverSignals DEF RecvNothing
  <2>5. ASSUME UNCHANGED << caller, sendSignals, netSignals >> PROVE SignalsMatchCalls'
    <3>1. \A c \in Callers, s \in Socks, n \in Nos : InFlight(c, s, n)' <=> InFlight(c, s, n)
      BY <2>5 DEF InFlight
    <3>2. QED
      BY <2>5, <3>1, SignalsKept
  <2>6. ASSUME NEW p \in Procs,
               RouterTakeApp(p) \/ RouterSend(p) \/ DispatchStep(p) \/ DealerThrows(p)
        PROVE  SignalsMatchCalls'
    BY <2>5, <2>6 DEF RouterTakeApp, RouterSend, DispatchStep, RouterTakeIo, RouterReply, DealerThrows
  <2>7. ASSUME NEW s \in Socks, Break(s) PROVE SignalsMatchCalls'
    BY <2>5, <2>7 DEF Break
  <2>8. ASSUME NEW s \in Socks, NEW n \in Nos, HandlerStep(s, n) PROVE SignalsMatchCalls'
    BY <2>5, <2>8 DEF HandlerStep, AddPackFromIo, SendReply
  <2>9. CASE UNCHANGED vars
    BY <2>5, <2>9 DEF vars
  <2>10. QED
    BY <2>1, <2>2, <2>3, <2>4, <2>6, <2>7, <2>8, <2>9 DEF Next, RouterStep, Quiescent
<1>3. QED
  BY <1>1, <1>2, TypeCorrect, PTL DEF Spec

-----------------------------------------------------------------------------
(***************************************************************************)
(* What holds for every layout of channels, every number width, any lost   *)
(* connection and any dealer that throws.                                  *)
(*                                                                         *)
(* Calls: a sock never gives one request number k to two calls.  Entered:  *)
(* the send signal of a call is unused until its message is queued.        *)
(* Queued: a message on its way to the wire belongs to one caller that     *)
(* waits for its send signal.  Dispatched: a message on its way to the     *)
(* dealer belongs to one handler coroutine that waits for its reply signal.*)
(* ServedBy: what was served is the body of a handler past the queue.      *)
(* NotNull: no null body is ever sent.  OutKnown ties the two ends         *)
(* together: when a request has left its process, its caller was, or is    *)
(* going to be, told that the send went well.                              *)
(***************************************************************************)
Calls ==
  /\ \A c \in Callers : /\ caller[c].k <= issued[Chan[c]]
                        /\ caller[c].pc # "idle" => caller[c].k >= 1
  /\ \A c, d \in Callers :
       Chan[c] = Chan[d] /\ caller[c].k = caller[d].k /\ caller[c].k >= 1 => c = d

Entered == \A c \in Callers : caller[c].pc = "enq" => sendSignals[Chan[c]][caller[c].no] = "armed"

SameCall(m, w) == m.sock = w.sock /\ m.no = w.no

OwnedBy(m, c) ==
  /\ Chan[c] = m.sock /\ caller[c].no = m.no /\ caller[c].pc = "waitSend"
  /\ m.body = Req(m.sock, caller[c].k)
  /\ sendSignals[m.sock][m.no] = "armed"

QueuedAt(p) ==
  /\ \A i \in DOMAIN dataapp[p] :
       Home[dataapp[p][i].sock] = p /\ \E c \in Callers : OwnedBy(dataapp[p][i], c)
  /\ \A i, j \in DOMAIN dataapp[p] : SameCall(dataapp[p][i], dataapp[p][j]) => i = j
  /\ router1[p].pc # "recv"
       => /\ Home[router1[p].msg.sock] = p /\ \E c \in Callers : OwnedBy(router1[p].msg, c)
          /\ \A i \in DOMAIN dataapp[p] : ~ SameCall(dataapp[p][i], router1[p].msg)
Queued == \A p \in Procs : QueuedAt(p)

HandledBy(m) ==
  /\ handler[m.sock][m.no].pc = "wait" /\ handler[m.sock][m.no].body = m.body
  /\ appSignals[m.sock][m.no].st = "armed"

DispatchedAt(p) ==
  /\ \A i \in DOMAIN dataio[p] : Home[dataio[p][i].sock] = p /\ HandledBy(dataio[p][i])
  /\ \A i, j \in DOMAIN dataio[p] : SameCall(dataio[p][i], dataio[p][j]) => i = j
  /\ router2[p].pc = "deal"
       => /\ Home[router2[p].msg.sock] = p /\ HandledBy(router2[p].msg)
          /\ router2[p].msg.body \in served
          /\ \A i \in DOMAIN dataio[p] : ~ SameCall(dataio[p][i], router2[p].msg)
Dispatched == \A p \in Procs : DispatchedAt(p)

HandlerAt(s, n) ==
  LET h == handler[s][n]
      a == appSignals[s][n]
  IN  /\ h.pc = "none" <=> a.st = "none"
      /\ h.pc = "enq" => a.st = "armed"
      /\ h.pc = "done" => a.st = "sent"
      /\ a.st = "sent" => a.msg = Answer(h.body) /\ h.body \in served
Handlers == \A s \in Socks, n \in Nos : HandlerAt(s, n)

PastQueue(s, n) ==
  /\ handler[s][n].pc \in {"wait", "done"}
  /\ \A i \in DOMAIN dataio[Home[s]] : ~ (dataio[Home[s]][i].sock = s /\ dataio[Home[s]][i].no = n)
ServedBy ==
  \A b \in served : /\ b.kind # "junk"
                    /\ \E s \in Socks, n \in Nos : handler[s][n].body = b /\ PastQueue(s, n)

NotNull ==
  /\ \A s \in Socks : \A i \in DOMAIN wire[s] : wire[s][i].body.kind # "null"
  /\ \A s \in Socks, n \in Nos : netSignals[s][n].st = "sent" => netSignals[s][n].msg.kind # "null"

Out(b) ==
  \/ \E s \in Socks : \E i \in DOMAIN wire[s] : wire[s][i].body = b
  \/ \E s \in Socks, n \in Nos : handler[s][n].pc # "none" /\ handler[s][n].body = b

OnItsWay(c) ==
  LET r == router1[Home[Chan[c]]]
  IN  r.pc = "ok" /\ r.msg.sock = Chan[c] /\ r.msg.no = caller[c].no

ToldSent(c) ==
  \/ caller[c].pc = "waitRep"
  \/ caller[c].pc = "waitSend" /\ (sendSignals[Chan[c]][caller[c].no] = "ok" \/ OnItsWay(c))
  \/ caller[c].pc = "idle" /\ caller[c].ret # NoBody

OutKnown ==
  \A s \in Socks, k \in 0 .. MaxReq :
    Out(Req(s, k)) => /\ k >= 1 /\ k <= issued[s]
                      /\ \A c \in Callers : Chan[c] = s /\ caller[c].k = k => ToldSent(c)

LayerInv ==
  TypeOK /\ SignalsMatchCalls
    /\ Calls /\ Entered /\ Queued /\ Dispatched /\ Handlers /\ ServedBy /\ NotNull /\ OutKnown

-----------------------------------------------------------------------------
(* One entry of a table of tables is written. *)
LEMMA TableAt ==
  ASSUME NEW S, NEW T, NEW V, NEW f \in [S -> [T -> V]], NEW s \in S, NEW n \in T, NEW v
  PROVE  \A t \in S, m \in T :
           [f EXCEPT ![s][n] = v][t][m] = IF t = s /\ m = n THEN v ELSE f[t][m]
OBVIOUS

(* Request and answer, null and empty bodies are told apart. *)
LEMMA BodyFacts ==
  /\ \A s, k : Req(s, k).kind = "req" /\ Req(s, k).sock = s /\ Req(s, k).k = k
  /\ \A b \in Bodies : Answer(b).kind = "ans" /\ Answer(b).sock = b.sock /\ Answer(b).k = b.k
  /\ NoBody.kind = "null" /\ Junk.kind = "junk"
  /\ \A s, t, k, j : Req(s, k) = Req(t, j) => s = t /\ k = j
BY DEF Req, Answer, Bodies, NoBody, Junk

(* A queue loses its head. *)
LEMMA TailAt ==
  ASSUME NEW S, NEW q \in Seq(S), q # << >>
  PROVE  /\ 1 \in DOMAIN q /\ Head(q) = q[1] /\ Tail(q) \in Seq(S)
         /\ \A i \in DOMAIN Tail(q) : i + 1 \in DOMAIN q /\ Tail(q)[i] = q[i + 1] /\ i \in Nat /\ i >= 1
OBVIOUS

(* A queue gains a last element. *)
LEMMA AppendAt ==
  ASSUME NEW S, NEW q \in Seq(S), NEW e \in S
  PROVE  /\ Append(q, e) \in Seq(S) /\ Len(q) \in Nat
         /\ DOMAIN q = 1 .. Len(q) /\ DOMAIN Append(q, e) = 1 .. Len(q) + 1
         /\ Append(q, e)[Len(q) + 1] = e
         /\ \A i \in DOMAIN q : Append(q, e)[i] = q[i]
         /\ \A i \in DOMAIN Append(q, e) : /\ i \in DOMAIN q \/ i = Len(q) + 1
                                           /\ Append(q, e)[i] = IF i \in DOMAIN q THEN q[i] ELSE e
OBVIOUS

(* What reqrep does up to its first co_await. *)
LEMMA ReqrepDoes ==
  ASSUME TypeOK, NEW c \in Callers, Reqrep(c)
  PROVE  LET s == Chan[c]
             n == NewReq(s)
         IN  /\ s \in Socks /\ n \in Nos /\ Home[s] \in Procs
             /\ issued[s] < MaxReq /\ issued[s] \in Nat /\ caller[c].pc = "idle"
             /\ \A t \in Socks : /\ issued'[t] = IF t = s THEN issued[s] + 1 ELSE issued[t]
                                 /\ reqNo'[t] = IF t = s THEN n ELSE reqNo[t]
             /\ \A d \in Callers : d # c => caller'[d] = caller[d]
             /\ UNCHANGED << appSignals, dataapp, dataio, router1, router2, handler, wire, served >>
             /\ \/ /\ CanReqRep(s, n)
                   /\ caller'[c].pc = "enq" /\ caller'[c].no = n /\ caller'[c].k = issued[s] + 1
                   /\ caller'[c].ret = NoBody
                   /\ \A t \in Socks, m \in Nos :
                        /\ sendSignals'[t][m] = IF t = s /\ m = n THEN "armed" ELSE sendSignals[t][m]
                        /\ netSignals'[t][m] = IF t = s /\ m = n THEN Armed ELSE netSignals[t][m]
                   /\ UNCHANGED << link, aborted >>
                \/ /\ ~ CanReqRep(s, n)
                   /\ UNCHANGED << caller, sendSignals, netSignals >>
                   /\ Abort(Home[s], "recvers._valid")
<1> DEFINE s == Chan[c]
           n == NewReq(s)
<1>1. s \in Socks /\ n \in Nos /\ Home[s] \in Procs
  BY NumberTypes, ReqRepAssumption DEF TypeOK
<1>2. /\ issued[s] < MaxReq /\ issued[s] \in Nat /\ caller[c].pc = "idle"
      /\ UNCHANGED << appSignals, dataapp, dataio, router1, router2, handler, wire, served >>
  BY <1>1 DEF Reqrep, TypeOK
<1>3. \A t \in Socks : /\ issued'[t] = IF t = s THEN issued[s] + 1 ELSE issued[t]
                       /\ reqNo'[t] = IF t = s THEN n ELSE reqNo[t]
  BY <1>1 DEF Reqrep, TypeOK
<1>4. CASE CanReqRep(s, n)
  <2>1. /\ sendSignals' = [sendSignals EXCEPT ![s][n] = "armed"]
        /\ netSignals' = [netSignals EXCEPT ![s][n] = Armed]
        /\ caller' = [caller EXCEPT ![c] =
                        [pc |-> "enq", no |-> n, k |-> issued[s] + 1, ret |-> NoBody]]
        /\ UNCHANGED << link, aborted >>
    BY <1>4 DEF Reqrep
  <2>2. /\ caller'[c] = [pc |-> "enq", no |-> n, k |-> issued[s] + 1, ret |-> NoBody]
        /\ \A d \in Callers : d # c => caller'[d] = caller[d]
    BY <2>1 DEF TypeOK
  <2>3. \A t \in Socks, m \in Nos :
          /\ sendSignals'[t][m] = IF t = s /\ m = n THEN "armed" ELSE sendSignals[t][m]
          /\ netSignals'[t][m] = IF t = s /\ m = n THEN Armed ELSE netSignals[t][m]
    BY <1>1, <2>1, TableAt DEF TypeOK
  <2> QED
    BY <1>1, <1>2, <1>3, <1>4, <2>1, <2>2, <2>3
<1>5. CASE ~ CanReqRep(s, n)
  <2>1. /\ UNCHANGED << caller, sendSignals, netSignals >>
        /\ Abort(Home[s], "recvers._valid")
    BY <1>5 DEF Reqrep
  <2> QED
    BY <1>1, <1>2, <1>3, <1>5, <2>1
<1> QED
  BY <1>4, <1>5

(* What the other steps of a call do. *)
LEMMA CallerDoes ==
  ASSUME TypeOK, NEW c \in Callers, CallerStep(c)
  PROVE  LET s == Chan[c]
             n == caller[c].no
         IN  /\ s \in Socks /\ n \in Nos /\ Home[s] \in Procs
             /\ \A d \in Callers : d # c => caller'[d] = caller[d]
             /\ caller'[c].no = n /\ caller'[c].k = caller[c].k
             /\ UNCHANGED << reqNo, issued, appSignals, dataio, router1, router2, handler,
                             wire, link, aborted, served >>
             /\ \/ /\ caller[c].pc = "enq" /\ caller'[c].pc = "waitSend" /\ caller'[c].ret = caller[c].ret
                   /\ AddPackFromApp(c)
                   /\ UNCHANGED << sendSignals, netSignals >>
                \/ /\ caller[c].pc = "waitSend" /\ caller'[c].pc = "waitRep"
                   /\ caller'[c].ret = caller[c].ret
                   /\ sendSignals[s][n] = "ok"
                   /\ UNCHANGED << sendSignals, netSignals, dataapp >>
                \/ /\ \/ /\ caller[c].pc = "waitSend" /\ sendSignals[s][n] = "failed"
                         /\ caller'[c].ret = caller[c].ret
                      \/ /\ caller[c].pc = "waitRep" /\ netSignals[s][n].st = "sent"
                         /\ caller'[c].ret = netSignals[s][n].msg
                   /\ caller'[c].pc = "idle"
                   /\ \A t \in Socks, m \in Nos :
                        /\ sendSignals'[t][m] = IF t = s /\ m = n THEN "none" ELSE sendSignals[t][m]
                        /\ netSignals'[t][m] = IF t = s /\ m = n THEN NoSignal ELSE netSignals[t][m]
                   /\ UNCHANGED dataapp
<1> DEFINE s == Chan[c]
           n == caller[c].no
<1>1. s \in Socks /\ n \in Nos /\ Home[s] \in Procs /\ caller[c] \in CallerStates
  BY ReqRepAssumption DEF TypeOK, CallerStates
<1>2. CASE AddPackFromApp(c)
  <2>1. /\ \A d \in Callers : d # c => caller'[d] = caller[d]
        /\ caller'[c].no = n /\ caller'[c].k = caller[c].k /\ caller'[c].pc = "waitSend"
        /\ caller'[c].ret = caller[c].ret
    BY <1>1, <1>2 DEF AddPackFromApp, TypeOK, CallerStates
  <2> QED
    BY <1>1, <1>2, <2>1 DEF AddPackFromApp
<1>3. ASSUME FinishReqRep(s, n)
      PROVE  \A t \in Socks, m \in Nos :
               /\ sendSignals'[t][m] = IF t = s /\ m = n THEN "none" ELSE sendSignals[t][m]
               /\ netSignals'[t][m] = IF t = s /\ m = n THEN NoSignal ELSE netSignals[t][m]
  BY <1>1, <1>3, TableAt DEF TypeOK, FinishReqRep
<1>4. CASE SendCompleted(c)
  <2>1. PICK q \in {"waitRep", "idle"} :
          /\ caller' = [caller EXCEPT ![c].pc = q]
          /\ \/ q = "waitRep" /\ sendSignals[s][n] = "ok" /\ UNCHANGED << sendSignals, netSignals >>
             \/ q = "idle" /\ sendSignals[s][n] = "failed" /\ FinishReqRep(s, n)
    BY <1>4 DEF SendCompleted
  <2>2. /\ \A d \in Callers : d # c => caller'[d] = caller[d]
        /\ caller'[c].no = n /\ caller'[c].k = caller[c].k /\ caller'[c].pc = q
        /\ caller'[c].ret = caller[c].ret
    BY <1>1, <2>1 DEF TypeOK, CallerStates
  <2>3. /\ caller[c].pc = "waitSend"
        /\ UNCHANGED << reqNo, issued, appSignals, dataapp, dataio, router1, router2, handler,
                        wire, link, aborted, served >>
    BY <1>4 DEF SendCompleted
  <2> QED
    BY <1>1, <1>3, <2>1, <2>2, <2>3
<1>5. CASE ReplyReceived(c)
  <2>1. /\ \A d \in Callers : d # c => caller'[d] = caller[d]
        /\ caller'[c].no = n /\ caller'[c].k = caller[c].k /\ caller'[c].pc = "idle"
        /\ caller'[c].ret = netSignals[s][n].msg
    BY <1>1, <1>5 DEF ReplyReceived, TypeOK, CallerStates
  <2>2. /\ caller[c].pc = "waitRep" /\ netSignals[s][n].st = "sent" /\ FinishReqRep(s, n)
        /\ UNCHANGED << reqNo, issued, appSignals, dataapp, dataio, router1, router2, handler,
                        wire, link, aborted, served >>
    BY <1>5 DEF ReplyReceived
  <2> QED
    BY <1>1, <1>3, <2>1, <2>2
<1> QED
  BY <1>2, <1>4, <1>5 DEF CallerStep

(* What router coroutine 1 does. *)
LEMMA SenderDoes ==
  ASSUME TypeOK, NEW p \in Procs, RouterStep(p)
  PROVE  LET m == router1[p].msg
         IN  /\ m.sock \in Socks /\ m.no \in Nos /\ m.body \in Bodies
             /\ \A q \in Procs : q # p => router1'[q] = router1[q] /\ dataapp'[q] = dataapp[q]
             /\ UNCHANGED << reqNo, issued, caller, netSignals, appSignals, dataio, router2,
                             handler, link, aborted, served >>
             /\ \/ /\ router1[p].pc = "recv" /\ dataapp[p] # << >>
                   /\ dataapp'[p] = Tail(dataapp[p])
                   /\ \/ router1'[p].pc = "send" /\ router1'[p].msg = Head(dataapp[p])
                      \/ router1' = router1
                   /\ UNCHANGED << sendSignals, wire >>
                \/ /\ router1[p].pc = "send" /\ router1'[p].msg = m
                   /\ \/ /\ link[m.sock] = "up" /\ router1'[p].pc = "ok"
                         /\ wire' = [wire EXCEPT ![m.sock] = Append(@, [no |-> m.no, body |-> m.body])]
                      \/ link[m.sock] # "up" /\ router1'[p].pc = "failed" /\ UNCHANGED wire
                   /\ UNCHANGED << sendSignals, dataapp >>
                \/ /\ router1[p].pc \in {"ok", "failed"} /\ router1'[p].pc = "recv"
                   /\ \/ /\ sendSignals[m.sock][m.no] = "armed"
                         /\ \A t \in Socks, n \in Nos :
                              sendSignals'[t][n] = IF t = m.sock /\ n = m.no THEN router1[p].pc
                                                   ELSE sendSignals[t][n]
                      \/ sendSignals[m.sock][m.no] # "armed" /\ UNCHANGED sendSignals
                   /\ UNCHANGED << dataapp, wire >>
<1> DEFINE m == router1[p].msg
<1>1. router1[p] \in SenderStates /\ m.sock \in Socks /\ m.no \in Nos /\ m.body \in Bodies
  BY DEF TypeOK, SenderStates, Msgs
<1>2. CASE RouterTakeApp(p)
  <2>1. \/ router1' = [router1 EXCEPT ![p] = [pc |-> "send", msg |-> Head(dataapp[p])]]
        \/ router1' = router1
    BY <1>2 DEF RouterTakeApp
  <2>2. /\ \A q \in Procs : q # p => router1'[q] = router1[q]
        /\ \/ router1'[p].pc = "send" /\ router1'[p].msg = Head(dataapp[p])
           \/ router1' = router1
    BY <2>1 DEF TypeOK
  <2>3. dataapp'[p] = Tail(dataapp[p]) /\ \A q \in Procs : q # p => dataapp'[q] = dataapp[q]
    BY <1>2 DEF RouterTakeApp, TypeOK
  <2> QED
    BY <1>1, <1>2, <2>2, <2>3 DEF RouterTakeApp
<1>3. CASE RouterSend(p)
  <2>1. /\ router1'[p].pc = SendOutcome(m.sock) /\ router1'[p].msg = m
        /\ \A q \in Procs : q # p => router1'[q] = router1[q]
    BY <1>1, <1>3 DEF RouterSend, TypeOK, SenderStates
  <2>2. \/ /\ link[m.sock] = "up" /\ router1'[p].pc = "ok"
           /\ wire' = [wire EXCEPT ![m.sock] = Append(@, [no |-> m.no, body |-> m.body])]
        \/ link[m.sock] # "up" /\ router1'[p].pc = "failed" /\ UNCHANGED wire
    BY <1>3, <2>1 DEF RouterSend, SendOutcome
  <2> QED
    BY <1>1, <1>3, <2>1, <2>2 DEF RouterSend
<1>4. CASE NotifySendComplete(p)
  <2>1. router1'[p].pc = "recv" /\ \A q \in Procs : q # p => router1'[q] = router1[q]
    BY <1>4 DEF NotifySendComplete, TypeOK
  <2>2. \/ /\ sendSignals[m.sock][m.no] = "armed"
           /\ sendSignals' = [sendSignals EXCEPT ![m.sock][m.no] = router1[p].pc]
        \/ sendSignals[m.sock][m.no] # "armed" /\ UNCHANGED sendSignals
    BY <1>4 DEF NotifySendComplete
  <2>3. \A t \in Socks, n \in Nos :
          [sendSignals EXCEPT ![m.sock][m.no] = router1[p].pc][t][n]
            = IF t = m.sock /\ n = m.no THEN router1[p].pc ELSE sendSignals[t][n]
    BY <1>1, TableAt DEF TypeOK
  <2> QED
    BY <1>1, <1>4, <2>1, <2>2, <2>3 DEF NotifySendComplete
<1> QED
  BY <1>2, <1>3, <1>4 DEF RouterStep

(* What the receive loop does with a pack, or with the empty string of a    *)
(* lost connection.                                                         *)
LEMMA ReceiverDoes ==
  ASSUME TypeOK, NEW s \in Socks, RecvPack(s) \/ RecvNothing(s)
  PROVE  \E n \in Nos, b \in Bodies :
           /\ \/ /\ wire[Peer[s]] # << >> /\ n = Head(wire[Peer[s]]).no /\ b = Head(wire[Peer[s]]).body
                 /\ wire' = [wire EXCEPT ![Peer[s]] = Tail(@)]
              \/ wire[Peer[s]] = << >> /\ b = Junk /\ link[s] = "down" /\ UNCHANGED wire
           /\ UNCHANGED << reqNo, issued, caller, sendSignals, dataapp, dataio, router1, router2, served >>
           /\ \/ /\ netSignals[s][n].st = "armed"
                 /\ \A t \in Socks, m \in Nos :
                      netSignals'[t][m] = IF t = s /\ m = n THEN Sent(b) ELSE netSignals[t][m]
                 /\ UNCHANGED << appSignals, handler, link, aborted >>
              \/ /\ netSignals[s][n].st # "armed" /\ appSignals[s][n].st = "none"
                 /\ \A t \in Socks, m \in Nos :
                      /\ appSignals'[t][m] = IF t = s /\ m = n THEN Armed ELSE appSignals[t][m]
                      /\ handler'[t][m] = IF t = s /\ m = n THEN [pc |-> "enq", body |-> b]
                                          ELSE handler[t][m]
                 /\ UNCHANGED << netSignals, link, aborted >>
              \/ /\ netSignals[s][n].st # "armed" /\ appSignals[s][n].st # "none"
                 /\ Abort(Home[s], "recvAppRep != nullptr")
                 /\ UNCHANGED << netSignals, appSignals, handler >>
<1>1. PICK n \in Nos, b \in Bodies :
        /\ \/ /\ wire[Peer[s]] # << >> /\ n = Head(wire[Peer[s]]).no /\ b = Head(wire[Peer[s]]).body
              /\ wire' = [wire EXCEPT ![Peer[s]] = Tail(@)]
           \/ wire[Peer[s]] = << >> /\ b = Junk /\ link[s] = "down" /\ UNCHANGED wire
        /\ UNCHANGED << reqNo, issued, caller, sendSignals, dataapp, dataio, router1, router2, served >>
        /\ Deliver(s, n, b)
  <2>1. CASE RecvPack(s)
    <3>1. wire[Peer[s]] \in Seq(Packs) /\ wire[Peer[s]] # << >>
      BY <2>1, ReqRepAssumption DEF RecvPack, TypeOK
    <3>2. Head(wire[Peer[s]]) \in Packs
      BY <3>1
    <3>3. Head(wire[Peer[s]]).no \in Nos /\ Head(wire[Peer[s]]).body \in Bodies
      BY <3>2 DEF Packs
    <3> QED
      BY <2>1, <3>3 DEF RecvPack
  <2>2. CASE RecvNothing(s)
    BY <2>2, BodyTypes DEF RecvNothing
  <2> QED
    BY <2>1, <2>2
<1>2. /\ \A t \in Socks, m \in Nos :
           [netSignals EXCEPT ![s][n] = Sent(b)][t][m] = IF t = s /\ m = n THEN Sent(b) ELSE netSignals[t][m]
      /\ \A t \in Socks, m \in Nos :
           [appSignals EXCEPT ![s][n] = Armed][t][m] = IF t = s /\ m = n THEN Armed ELSE appSignals[t][m]
  BY TableAt DEF TypeOK
<1>3. \A t \in Socks, m \in Nos :
        [handler EXCEPT ![s][n] = [pc |-> "enq", body |-> b]][t][m]
          = IF t = s /\ m = n THEN [pc |-> "enq", body |-> b] ELSE handler[t][m]
  <2> DEFINE v == [pc |-> "enq", body |-> b]
  <2>1. handler \in [Socks -> [Nos -> HandlerStates]]
    BY DEF TypeOK
  <2>2. \A t \in Socks, m \in Nos :
          [handler EXCEPT ![s][n] = v][t][m] = IF t = s /\ m = n THEN v ELSE handler[t][m]
    <3> HIDE DEF v
    <3> QED
      BY <2>1, TableAt
  <2> QED
    BY <2>2
<1>4. \/ /\ netSignals[s][n].st = "armed"
         /\ netSignals' = [netSignals EXCEPT ![s][n] = Sent(b)]
         /\ UNCHANGED << appSignals, handler, link, aborted >>
      \/ /\ netSignals[s][n].st # "armed" /\ appSignals[s][n].st = "none"
         /\ appSignals' = [appSignals EXCEPT ![s][n] = Armed]
         /\ handler' = [handler EXCEPT ![s][n] = [pc |-> "enq", body |-> b]]
         /\ UNCHANGED << netSignals, link, aborted >>
      \/ /\ netSignals[s][n].st # "armed" /\ appSignals[s][n].st # "none"
         /\ Abort(Home[s], "recvAppRep != nullptr")
         /\ UNCHANGED << netSignals, appSignals, handler >>
  BY <1>1 DEF Deliver, CanWaitAppRep
<1> DEFINE Consumed ==
             /\ \/ /\ wire[Peer[s]] # << >> /\ n = Head(wire[Peer[s]]).no /\ b = Head(wire[Peer[s]]).body
                   /\ wire' = [wire EXCEPT ![Peer[s]] = Tail(@)]
                \/ wire[Peer[s]] = << >> /\ b = Junk /\ link[s] = "down" /\ UNCHANGED wire
             /\ UNCHANGED << reqNo, issued, caller, sendSignals, dataapp, dataio, router1, router2, served >>
<1>5. Consumed
  BY <1>1
<1>6. \/ /\ netSignals[s][n].st = "armed"
         /\ \A t \in Socks, m \in Nos :
              netSignals'[t][m] = IF t = s /\ m = n THEN Sent(b) ELSE netSignals[t][m]
         /\ UNCHANGED << appSignals, handler, link, aborted >>
      \/ /\ netSignals[s][n].st # "armed" /\ appSignals[s][n].st = "none"
         /\ \A t \in Socks, m \in Nos :
              /\ appSignals'[t][m] = IF t = s /\ m = n THEN Armed ELSE appSignals[t][m]
              /\ handler'[t][m] = IF t = s /\ m = n THEN [pc |-> "enq", body |-> b]
                                  ELSE handler[t][m]
         /\ UNCHANGED << netSignals, link, aborted >>
      \/ /\ netSignals[s][n].st # "armed" /\ appSignals[s][n].st # "none"
         /\ Abort(Home[s], "recvAppRep != nullptr")
         /\ UNCHANGED << netSignals, appSignals, handler >>
  <2>1. CASE netSignals[s][n].st = "armed"
    <3>1. /\ netSignals' = [netSignals EXCEPT ![s][n] = Sent(b)]
          /\ UNCHANGED << appSignals, handler, link, aborted >>
      BY <1>4, <2>1
    <3> QED
      BY <1>2, <2>1, <3>1
  <2>2. CASE netSignals[s][n].st # "armed" /\ appSignals[s][n].st = "none"
    <3>1. /\ appSignals' = [appSignals EXCEPT ![s][n] = Armed]
          /\ handler' = [handler EXCEPT ![s][n] = [pc |-> "enq", body |-> b]]
          /\ UNCHANGED << netSignals, link, aborted >>
      BY <1>4, <2>2
    <3>2. \A t \in Socks, m \in Nos :
            appSignals'[t][m] = IF t = s /\ m = n THEN Armed ELSE appSignals[t][m]
      BY <1>2, <3>1
    <3>3. \A t \in Socks, m \in Nos :
            handler'[t][m] = IF t = s /\ m = n THEN [pc |-> "enq", body |-> b] ELSE handler[t][m]
      BY <1>3, <3>1
    <3> QED
      BY <2>2, <3>1, <3>2, <3>3
  <2>3. CASE netSignals[s][n].st # "armed" /\ appSignals[s][n].st # "none"
    BY <1>4, <2>3
  <2> QED
    BY <2>1, <2>2, <2>3
<1> QED
  BY <1>5, <1>6

(* What router coroutine 2 does; DispatchedAt is what makes the assert      *)
(* around notifyRecvAppRep hold.                                            *)
LEMMA DispatcherDoes ==
  ASSUME TypeOK, Dispatched, NEW p \in Procs, DispatchStep(p) \/ DealerThrows(p)
  PROVE  LET m == router2[p].msg
         IN  /\ m.sock \in Socks /\ m.no \in Nos /\ m.body \in Bodies
             /\ \A q \in Procs : q # p => router2'[q] = router2[q] /\ dataio'[q] = dataio[q]
             /\ UNCHANGED << reqNo, issued, caller, sendSignals, netSignals, dataapp, router1,
                             handler, wire, link, aborted >>
             /\ \/ /\ router2[p].pc = "recv" /\ dataio[p] # << >>
                   /\ dataio'[p] = Tail(dataio[p])
                   /\ \/ /\ router2'[p].pc = "deal" /\ router2'[p].msg = Head(dataio[p])
                         /\ Head(dataio[p]).body.kind # "junk"
                         /\ served' = served \cup {Head(dataio[p]).body}
                      \/ Head(dataio[p]).body.kind = "junk" /\ UNCHANGED << router2, served >>
                   /\ UNCHANGED appSignals
                \/ /\ router2[p].pc = "deal" /\ router2'[p].pc = "recv"
                   /\ \A t \in Socks, n \in Nos :
                        appSignals'[t][n] = IF t = m.sock /\ n = m.no THEN Sent(Answer(m.body))
                                            ELSE appSignals[t][n]
                   /\ UNCHANGED << dataio, served >>
                \/ /\ router2[p].pc = "deal" /\ router2'[p].pc = "recv"
                   /\ UNCHANGED << appSignals, dataio, served >>
<1> DEFINE m == router2[p].msg
<1>1. m.sock \in Socks /\ m.no \in Nos /\ m.body \in Bodies
  BY DEF TypeOK, DispatcherStates, Msgs
<1>2. CASE RouterTakeIo(p)
  <2>1. dataio'[p] = Tail(dataio[p]) /\ \A q \in Procs : q # p => dataio'[q] = dataio[q]
    BY <1>2 DEF RouterTakeIo, TypeOK
  <2>2. \/ /\ router2' = [router2 EXCEPT ![p] = [pc |-> "deal", msg |-> Head(dataio[p])]]
           /\ Head(dataio[p]).body.kind # "junk" /\ served' = served \cup {Head(dataio[p]).body}
        \/ Head(dataio[p]).body.kind = "junk" /\ UNCHANGED << router2, served >>
    BY <1>2 DEF RouterTakeIo
  <2>3. /\ \A q \in Procs : q # p => router2'[q] = router2[q]
        /\ \/ /\ router2'[p].pc = "deal" /\ router2'[p].msg = Head(dataio[p])
              /\ Head(dataio[p]).body.kind # "junk" /\ served' = served \cup {Head(dataio[p]).body}
           \/ Head(dataio[p]).body.kind = "junk" /\ UNCHANGED << router2, served >>
    BY <2>2 DEF TypeOK
  <2> QED
    BY <1>1, <1>2, <2>1, <2>3 DEF RouterTakeIo
<1>3. CASE RouterReply(p)
  <2>1. appSignals[m.sock][m.no].st = "armed"
    BY <1>3 DEF RouterReply, Dispatched, DispatchedAt, HandledBy
  <2>2. appSignals' = [appSignals EXCEPT ![m.sock][m.no] = Sent(Answer(m.body))] /\ UNCHANGED << link, aborted >>
    BY <1>3, <2>1 DEF RouterReply
  <2>3. \A t \in Socks, n \in Nos :
          appSignals'[t][n] = IF t = m.sock /\ n = m.no THEN Sent(Answer(m.body)) ELSE appSignals[t][n]
    BY <1>1, <2>2, TableAt DEF TypeOK
  <2>4. router2'[p].pc = "recv" /\ \A q \in Procs : q # p => router2'[q] = router2[q]
    BY <1>3 DEF RouterReply, TypeOK
  <2> QED
    BY <1>1, <1>3, <2>2, <2>3, <2>4 DEF RouterReply
<1>4. CASE DealerThrows(p)
  <2>1. router2'[p].pc = "recv" /\ \A q \in Procs : q # p => router2'[q] = router2[q]
    BY <1>4 DEF DealerThrows, TypeOK
  <2> QED
    BY <1>1, <1>4, <2>1 DEF DealerThrows
<1> QED
  BY <1>2, <1>3, <1>4 DEF DispatchStep

(* What a handler coroutine does. *)
LEMMA HandlerDoes ==
  ASSUME TypeOK, NEW s \in Socks, NEW n \in Nos, HandlerStep(s, n)
  PROVE  /\ \A t \in Socks, m \in Nos :
              /\ handler'[t][m].body = handler[t][m].body
              /\ ~ (t = s /\ m = n) => handler'[t][m] = handler[t][m]
         /\ UNCHANGED << reqNo, issued, caller, sendSignals, netSignals, appSignals, dataapp,
                         router1, router2, link, aborted, served >>
         /\ \/ /\ handler[s][n].pc = "enq" /\ handler'[s][n].pc = "wait" /\ UNCHANGED wire
               /\ dataio' = [dataio EXCEPT ![Home[s]] = Append(@, Msg(s, n, handler[s][n].body))]
            \/ /\ handler[s][n].pc = "wait" /\ handler'[s][n].pc = "done" /\ UNCHANGED dataio
               /\ appSignals[s][n].st = "sent"
               /\ \/ /\ link[s] = "up"
                     /\ wire' = [wire EXCEPT ![s] = Append(@, [no |-> n, body |-> appSignals[s][n].msg])]
                  \/ link[s] # "up" /\ UNCHANGED wire
<1>1. handler[s][n] \in HandlerStates
  BY DEF TypeOK
<1>2. ASSUME NEW q, handler' = [handler EXCEPT ![s][n].pc = q]
      PROVE  /\ handler'[s][n].pc = q
             /\ \A t \in Socks, m \in Nos :
                  /\ handler'[t][m].body = handler[t][m].body
                  /\ ~ (t = s /\ m = n) => handler'[t][m] = handler[t][m]
  <2>1. handler' = [handler EXCEPT ![s][n] = [handler[s][n] EXCEPT !.pc = q]]
    BY <1>2 DEF TypeOK
  <2>2. \A t \in Socks, m \in Nos :
          handler'[t][m] = IF t = s /\ m = n THEN [handler[s][n] EXCEPT !.pc = q] ELSE handler[t][m]
    BY <2>1, TableAt DEF TypeOK
  <2>3. [handler[s][n] EXCEPT !.pc = q].pc = q /\ [handler[s][n] EXCEPT !.pc = q].body = handler[s][n].body
    BY <1>1 DEF HandlerStates
  <2> QED
    BY <2>2, <2>3
<1>3. CASE AddPackFromIo(s, n)
  <2>1. handler' = [handler EXCEPT ![s][n].pc = "wait"]
    BY <1>3 DEF AddPackFromIo
  <2> QED
    BY <1>2, <1>3, <2>1 DEF AddPackFromIo
<1>4. CASE SendReply(s, n)
  <2>1. handler' = [handler EXCEPT ![s][n].pc = "done"]
    BY <1>4 DEF SendReply
  <2> QED
    BY <1>2, <1>4, <2>1 DEF SendReply
<1> QED
  BY <1>3, <1>4 DEF HandlerStep

(* What the loss of a connection does: the wires keep what was read before. *)
LEMMA BreakDoes ==
  ASSUME TypeOK, NEW s \in Socks, Break(s)
  PROVE  /\ UNCHANGED << reqNo, issued, caller, sendSignals, netSignals, appSignals, dataapp, dataio,
                         router1, router2, handler, aborted, served >>
         /\ \A t \in Socks : /\ link'[t] = IF t \in {s, Peer[s]} THEN "down" ELSE link[t]
                             /\ \A i \in DOMAIN wire'[t] : i \in DOMAIN wire[t] /\ wire'[t][i] = wire[t][i]
<1>1. PICK i \in 0 .. Len(wire[s]), j \in 0 .. Len(wire[Peer[s]]) :
        wire' = [wire EXCEPT ![s] = SubSeq(@, 1, i), ![Peer[s]] = SubSeq(@, 1, j)]
  BY DEF Break
<1>2. Peer[s] \in Socks /\ Peer[s] # s /\ wire[s] \in Seq(Packs) /\ wire[Peer[s]] \in Seq(Packs)
  BY ReqRepAssumption DEF TypeOK
<1>3. \A t \in Socks : wire'[t] = IF t = s THEN SubSeq(wire[s], 1, i)
                                  ELSE IF t = Peer[s] THEN SubSeq(wire[Peer[s]], 1, j) ELSE wire[t]
  BY <1>1, <1>2 DEF TypeOK
<1>4. /\ \A x \in DOMAIN SubSeq(wire[s], 1, i) : x \in DOMAIN wire[s] /\ SubSeq(wire[s], 1, i)[x] = wire[s][x]
      /\ \A x \in DOMAIN SubSeq(wire[Peer[s]], 1, j) :
           x \in DOMAIN wire[Peer[s]] /\ SubSeq(wire[Peer[s]], 1, j)[x] = wire[Peer[s]][x]
  BY <1>1, <1>2
<1>5. \A t \in Socks : link'[t] = IF t \in {s, Peer[s]} THEN "down" ELSE link[t]
  BY <1>2 DEF Break, TypeOK
<1> QED
  BY <1>3, <1>4, <1>5 DEF Break

-----------------------------------------------------------------------------
(* Steps elsewhere leave the dispatching end as it is. *)
LEMMA DispatchKept ==
  ASSUME Dispatched, Handlers, ServedBy, UNCHANGED << dataio, router2, handler, appSignals, served >>
  PROVE  Dispatched' /\ Handlers' /\ ServedBy'
<1>1. Dispatched'
  BY SMTT(30) DEF Dispatched, DispatchedAt, HandledBy, SameCall
<1>2. Handlers'
  BY DEF Handlers, HandlerAt
<1>3. ServedBy'
  BY DEF ServedBy, PastQueue
<1> QED
  BY <1>1, <1>2, <1>3

(* Steps elsewhere leave the calls and their queue as they are. *)
LEMMA CallsKept ==
  ASSUME Calls, Entered, Queued, UNCHANGED << issued, caller, dataapp, router1, sendSignals >>
  PROVE  Calls' /\ Entered' /\ Queued'
<1>1. Calls' /\ Entered'
  BY DEF Calls, Entered
<1>2. Queued'
  BY DEF Queued, QueuedAt, OwnedBy, SameCall
<1> QED
  BY <1>1, <1>2

(* OutKnown is kept when nothing new is out and nobody is told less. *)
LEMMA OutKept ==
  ASSUME OutKnown, \A b \in Bodies : Out(b)' => Out(b),
         \A s \in Socks : issued'[s] = issued[s],
         \A c \in Callers : caller'[c].k = caller[c].k /\ (ToldSent(c) => ToldSent(c)')
  PROVE  OutKnown'
<1>1. \A s \in Socks, k \in 0 .. MaxReq : Req(s, k) \in Bodies
  BY BodyTypes
<1> QED
  BY <1>1 DEF OutKnown

(* The layer starts with empty tables, queues and wires. *)
LEMMA InitLayer == Init => LayerInv
<1> SUFFICES ASSUME Init PROVE LayerInv
  OBVIOUS
<1>1. TypeOK /\ SignalsMatchCalls
  BY InitTypeOK DEF Init, SignalsMatchCalls, InFlight, NoSignal
<1>2. Calls /\ Entered
  BY ReqRepAssumption DEF Init, Calls, Entered
<1>3. Queued /\ Dispatched
  BY DEF Init, Queued, QueuedAt, Dispatched, DispatchedAt
<1>4. Handlers /\ ServedBy
  BY DEF Init, Handlers, HandlerAt, ServedBy, NoSignal
<1>5. NotNull
  BY DEF Init, NotNull, NoSignal
<1>6. OutKnown
  <2>1. \A b : ~ Out(b)
    BY DEF Init, Out
  <2> QED
    BY <2>1 DEF OutKnown
<1> QED
  BY <1>1, <1>2, <1>3, <1>4, <1>5, <1>6 DEF LayerInv

(* A new call has a new k, and no message yet. *)
LEMMA ReqrepLayer ==
  ASSUME LayerInv, NEW c \in Callers, Reqrep(c)
  PROVE  LayerInv'
<1> USE DEF LayerInv
<1>1. TypeOK' /\ SignalsMatchCalls'
  BY ReqrepType, ReqrepSignals
<1>2. PICK s \in Socks, n \in Nos :
        /\ s = Chan[c] /\ Home[s] \in Procs
        /\ issued[s] < MaxReq /\ issued[s] \in Nat /\ caller[c].pc = "idle"
        /\ \A t \in Socks : issued'[t] = IF t = s THEN issued[s] + 1 ELSE issued[t]
        /\ \A d \in Callers : d # c => caller'[d] = caller[d]
        /\ UNCHANGED << appSignals, dataapp, dataio, router1, router2, handler, wire, served >>
        /\ \/ /\ CanReqRep(s, n)
              /\ caller'[c].pc = "enq" /\ caller'[c].no = n /\ caller'[c].k = issued[s] + 1
              /\ caller'[c].ret = NoBody
              /\ \A t \in Socks, m \in Nos :
                   /\ sendSignals'[t][m] = IF t = s /\ m = n THEN "armed" ELSE sendSignals[t][m]
                   /\ netSignals'[t][m] = IF t = s /\ m = n THEN Armed ELSE netSignals[t][m]
           \/ UNCHANGED << caller, sendSignals, netSignals >>
  BY ReqrepDoes
<1>3. Dispatched' /\ Handlers' /\ ServedBy'
  BY <1>2, DispatchKept
<1>4. \A d \in Callers : Chan[d] \in Socks /\ caller[d].k \in Nat /\ issued[Chan[d]] \in Nat
  BY ReqRepAssumption DEF TypeOK, CallerStates
<1>5. Calls' /\ Entered'
  <2>1. Calls'
    BY <1>2, <1>4 DEF Calls
  <2>2. \A d \in Callers : caller[d].no \in Nos
    BY DEF TypeOK, CallerStates
  <2>3. Entered'
    BY <1>2, <1>4, <2>2 DEF Entered, CanReqRep
  <2> QED
    BY <2>1, <2>3
<1>6. Queued'
  <2>1. \A d \in Callers, m \in Msgs : OwnedBy(m, d) => OwnedBy(m, d)'
    <3> SUFFICES ASSUME NEW d \in Callers, NEW m \in Msgs, OwnedBy(m, d) PROVE OwnedBy(m, d)'
      OBVIOUS
    <3>1. d # c /\ m.sock \in Socks /\ m.no \in Nos
      BY <1>2 DEF OwnedBy, Msgs
    <3> QED
      BY <1>2, <3>1 DEF OwnedBy, CanReqRep
  <2>2. \A p \in Procs : /\ router1[p].msg \in Msgs
                         /\ \A i \in DOMAIN dataapp[p] : dataapp[p][i] \in Msgs
    BY DEF TypeOK, SenderStates
  <2> QED
    BY <1>2, <2>1, <2>2 DEF Queued, QueuedAt, SameCall
<1>7. NotNull'
  BY <1>2 DEF NotNull, Armed
<1>8. OutKnown'
  <2>1. \A b : Out(b)' <=> Out(b)
    BY <1>2 DEF Out
  <2>2. \A d \in Callers : d # c /\ ToldSent(d) => ToldSent(d)'
    <3> SUFFICES ASSUME NEW d \in Callers, d # c, ToldSent(d) PROVE ToldSent(d)'
      OBVIOUS
    <3>1. Chan[d] \in Socks /\ caller[d].no \in Nos
      BY ReqRepAssumption DEF TypeOK, CallerStates
    <3> QED
      BY <1>2, <3>1 DEF ToldSent, OnItsWay, CanReqRep
  <2>3. ASSUME NEW t \in Socks, NEW k \in 0 .. MaxReq, Out(Req(t, k))
        PROVE  /\ k >= 1 /\ k <= issued'[t]
               /\ \A d \in Callers : Chan[d] = t /\ caller'[d].k = k => ToldSent(d)'
    <3>1. k >= 1 /\ k <= issued[t] /\ \A d \in Callers : Chan[d] = t /\ caller[d].k = k => ToldSent(d)
      BY <2>3 DEF OutKnown
    <3>2. issued[t] \in Nat /\ k <= issued'[t]
      <4>1. issued[t] \in 0 .. MaxReq /\ MaxReq \in Nat
        BY ReqRepAssumption DEF TypeOK
      <4>2. issued'[t] = issued[t] \/ issued'[t] = issued[t] + 1
        BY <1>2
      <4> QED
        BY <3>1, <4>1, <4>2
    <3>3. CASE caller' = caller /\ sendSignals' = sendSignals
      BY <1>2, <3>1, <3>2, <3>3 DEF ToldSent, OnItsWay
    <3>4. CASE caller'[c].k = issued[s] + 1
      <4>1. Chan[c] = t => caller'[c].k # k
        BY <1>2, <3>1, <3>2, <3>4
      <4> QED
        BY <1>2, <2>2, <3>1, <3>2, <4>1
    <3> QED
      BY <1>2, <3>3, <3>4
  <2> QED
    BY <2>1, <2>3 DEF OutKnown
<1> QED
  BY <1>1, <1>3, <1>5, <1>6, <1>7, <1>8

(* A call that queues its message owns it from then on; a call that ends    *)
(* owned nothing any more, and if it ends with null its request is not out. *)
LEMMA CallerLayer ==
  ASSUME LayerInv, NEW c \in Callers, CallerStep(c)
  PROVE  LayerInv'
<1> USE DEF LayerInv
<1>1. TypeOK' /\ SignalsMatchCalls'
  BY CallerStepType, CallerStepSignals
<1>2. PICK s \in Socks, n \in Nos :
        /\ s = Chan[c] /\ n = caller[c].no /\ Home[s] \in Procs
        /\ \A d \in Callers : d # c => caller'[d] = caller[d]
        /\ caller'[c].no = n /\ caller'[c].k = caller[c].k
        /\ UNCHANGED << reqNo, issued, appSignals, dataio, router1, router2, handler,
                        wire, link, aborted, served >>
        /\ \/ /\ caller[c].pc = "enq" /\ caller'[c].pc = "waitSend" /\ caller'[c].ret = caller[c].ret
              /\ AddPackFromApp(c)
              /\ UNCHANGED << sendSignals, netSignals >>
           \/ /\ caller[c].pc = "waitSend" /\ caller'[c].pc = "waitRep"
              /\ caller'[c].ret = caller[c].ret
              /\ sendSignals[s][n] = "ok"
              /\ UNCHANGED << sendSignals, netSignals, dataapp >>
           \/ /\ \/ /\ caller[c].pc = "waitSend" /\ sendSignals[s][n] = "failed"
                    /\ caller'[c].ret = caller[c].ret
                 \/ /\ caller[c].pc = "waitRep" /\ netSignals[s][n].st = "sent"
                    /\ caller'[c].ret = netSignals[s][n].msg
              /\ caller'[c].pc = "idle"
              /\ \A t \in Socks, m \in Nos :
                   /\ sendSignals'[t][m] = IF t = s /\ m = n THEN "none" ELSE sendSignals[t][m]
                   /\ netSignals'[t][m] = IF t = s /\ m = n THEN NoSignal ELSE netSignals[t][m]
              /\ UNCHANGED dataapp
  BY CallerDoes
<1>3. Dispatched' /\ Handlers' /\ ServedBy'
  BY <1>2, DispatchKept
<1>4. Calls'
  <2>1. \A d \in Callers : caller'[d].k = caller[d].k /\ (caller'[d].pc # "idle" => caller[d].pc # "idle")
    BY <1>2
  <2> QED
    BY <1>2, <2>1 DEF Calls
<1>5. \A d \in Callers : /\ Chan[d] \in Socks /\ caller[d].no \in Nos
                         /\ d # c /\ caller[d].pc # "idle" => ~ (Chan[d] = s /\ caller[d].no = n)
  <2>1. InFlight(c, s, n)
    BY <1>2 DEF InFlight
  <2>2. ASSUME NEW d \in Callers
        PROVE  /\ Chan[d] \in Socks /\ caller[d].no \in Nos
               /\ d # c /\ caller[d].pc # "idle" => ~ (Chan[d] = s /\ caller[d].no = n)
    BY <2>1, ReqRepAssumption DEF SignalsMatchCalls, InFlight, TypeOK, CallerStates
  <2> QED
    BY <2>2
<1>6. \A p \in Procs : /\ router1[p].msg \in Msgs
                       /\ \A i \in DOMAIN dataapp[p] : dataapp[p][i] \in Msgs
  BY DEF TypeOK, SenderStates
<1>7. ASSUME NEW m \in Msgs, NEW d \in Callers, OwnedBy(m, d)
      PROVE  OwnedBy(m, d)' /\ (caller[c].pc = "enq" => ~ (m.sock = s /\ m.no = n))
  <2>1. m.sock \in Socks /\ m.no \in Nos
    BY DEF Msgs
  <2>2. CASE d = c
    BY <1>2, <1>7, <2>1, <2>2 DEF OwnedBy
  <2>3. CASE d # c
    BY <1>2, <1>5, <1>7, <2>1, <2>3 DEF OwnedBy
  <2> QED
    BY <2>2, <2>3
<1>8. Queued'
  <2>1. CASE dataapp' = dataapp
    BY <1>2, <1>6, <1>7, <2>1 DEF Queued, QueuedAt, SameCall
  <2>2. CASE AddPackFromApp(c) /\ caller[c].pc = "enq" /\ caller'[c].pc = "waitSend"
                /\ UNCHANGED sendSignals
    <3>1. PICK p \in Procs, new \in Msgs : p = Home[s] /\ new = Msg(s, n, Req(s, caller[c].k))
      <4>1. Msg(s, n, Req(s, caller[c].k)) \in Msgs
        BY BodyTypes DEF Msg, Msgs, TypeOK, CallerStates
      <4> QED
        BY <1>2, <4>1
    <3>2. /\ dataapp[p] \in Seq(Msgs)
          /\ \A q \in Procs : dataapp'[q] = IF q = p THEN Append(dataapp[p], new) ELSE dataapp[q]
      BY <1>2, <2>2, <3>1 DEF AddPackFromApp, TypeOK
    <3>3. new.sock = s /\ new.no = n /\ new.body = Req(s, caller[c].k)
      BY <3>1 DEF Msg
    <3>4. OwnedBy(new, c)'
      <4>1. sendSignals[s][n] = "armed"
        BY <1>2, <2>2 DEF Entered
      <4> QED
        BY <1>2, <2>2, <3>3, <4>1 DEF OwnedBy
    <3>5. ASSUME NEW q \in Procs PROVE QueuedAt(q)'
      <4>1. CASE q # p
        BY <1>2, <1>6, <1>7, <3>2, <4>1 DEF Queued, QueuedAt, SameCall
      <4>2. CASE q = p
        <5>1. PICK l \in Nat : /\ DOMAIN dataapp[p] = 1 .. l /\ DOMAIN dataapp'[p] = 1 .. l + 1
                               /\ dataapp'[p][l + 1] = new
                               /\ \A i \in 1 .. l : dataapp'[p][i] = dataapp[p][i]
          <6>1. dataapp'[p] = Append(dataapp[p], new)
            BY <3>2
          <6>2. Len(dataapp[p]) \in Nat
            BY <3>2
          <6> QED
            BY <3>2, <6>1, <6>2, AppendAt
        <5>2. \A i \in 1 .. l : ~ SameCall(dataapp[p][i], new)
          BY <1>6, <1>7, <2>2, <3>3, <5>1 DEF Queued, QueuedAt, SameCall
        <5>3. router1[p].pc # "recv" => ~ SameCall(new, router1[p].msg)
          BY <1>6, <1>7, <2>2, <3>3 DEF Queued, QueuedAt, SameCall
        <5>4. \A i \in 1 .. l + 1 : Home[dataapp'[p][i].sock] = p /\ \E d \in Callers : OwnedBy(dataapp[p][i], d)'
          <6>1. ASSUME NEW i \in 1 .. l
                PROVE  Home[dataapp'[p][i].sock] = p /\ \E d \in Callers : OwnedBy(dataapp[p][i], d)'
            <7>1. PICK d \in Callers : OwnedBy(dataapp[p][i], d) /\ Home[dataapp[p][i].sock] = p
              BY <5>1 DEF Queued, QueuedAt
            <7>2. PICK m \in Msgs : m = dataapp[p][i] /\ m = dataapp'[p][i]
              BY <1>6, <5>1
            <7>3. OwnedBy(m, d)'
              BY <1>7, <7>1, <7>2
            <7> QED
              BY <7>1, <7>2, <7>3
          <6>2. Home[dataapp'[p][l + 1].sock] = p /\ OwnedBy(dataapp[p][l + 1], c)'
            BY <3>1, <3>3, <3>4, <5>1
          <6> QED
            BY <6>1, <6>2
        <5>5. \A i, j \in 1 .. l + 1 : SameCall(dataapp'[p][i], dataapp'[p][j]) => i = j
          BY <5>1, <5>2, SMTT(30) DEF Queued, QueuedAt, SameCall
        <5>6. router1[p].pc # "recv" => /\ Home[router1[p].msg.sock] = p
                                        /\ \E d \in Callers : OwnedBy(router1[p].msg, d)'
                                        /\ \A i \in 1 .. l + 1 : ~ SameCall(dataapp'[p][i], router1[p].msg)
          <6>1. ASSUME router1[p].pc # "recv"
                PROVE  Home[router1[p].msg.sock] = p /\ \E d \in Callers : OwnedBy(router1[p].msg, d)'
            <7>1. PICK d \in Callers : OwnedBy(router1[p].msg, d) /\ Home[router1[p].msg.sock] = p
              BY <6>1 DEF Queued, QueuedAt
            <7>2. PICK m \in Msgs : m = router1[p].msg /\ m = router1'[p].msg
              BY <1>2, <1>6
            <7>3. OwnedBy(m, d)'
              BY <1>7, <7>1, <7>2
            <7> QED
              BY <7>1, <7>2, <7>3
          <6>2. router1[p].pc # "recv" => \A i \in 1 .. l + 1 : ~ SameCall(dataapp'[p][i], router1[p].msg)
            BY <5>1, <5>3 DEF Queued, QueuedAt, SameCall
          <6> QED
            BY <6>1, <6>2
        <5> QED
          BY <1>2, <4>2, <5>1, <5>4, <5>5, <5>6 DEF QueuedAt, SameCall
      <4> QED
        BY <4>1, <4>2
    <3> QED
      BY <3>5 DEF Queued
  <2> QED
    BY <1>2, <2>1, <2>2
<1>9. NotNull' /\ Entered'
  BY <1>2, <1>5 DEF NotNull, NoSignal, Entered
<1>10. OutKnown'
  <2>1. \A b : Out(b)' <=> Out(b)
    BY <1>2 DEF Out
  <2>2. \A d \in Callers : d # c /\ ToldSent(d) => ToldSent(d)'
    BY <1>2, <1>5 DEF ToldSent, OnItsWay
  <2>3. ~ ToldSent(c)' => ~ ToldSent(c)
    <3>1. CASE caller[c].pc = "enq"
      BY <3>1 DEF ToldSent
    <3>2. CASE caller'[c].pc = "waitRep"
      BY <3>2 DEF ToldSent
    <3>3. CASE caller[c].pc = "waitSend" /\ sendSignals[s][n] = "failed"
      <4>1. ~ OnItsWay(c)
        <5> SUFFICES ASSUME OnItsWay(c) PROVE FALSE
          OBVIOUS
        <5>1. PICK d \in Callers : OwnedBy(router1[Home[s]].msg, d)
          BY <1>2 DEF OnItsWay, Queued, QueuedAt
        <5> QED
          BY <1>2, <3>3, <5>1 DEF OnItsWay, OwnedBy
      <4> QED
        BY <1>2, <3>3, <4>1 DEF ToldSent
    <3>4. CASE caller'[c].pc = "idle" /\ netSignals[s][n].st = "sent" /\ caller'[c].ret = netSignals[s][n].msg
      <4>1. caller'[c].ret # NoBody
        BY <3>4, BodyFacts DEF NotNull
      <4> QED
        BY <3>4, <4>1 DEF ToldSent
    <3> QED
      BY <1>2, <3>1, <3>2, <3>3, <3>4
  <2>4. \A d \in Callers : caller'[d].k = caller[d].k
    BY <1>2
  <2> QED
    BY <1>2, <2>1, <2>2, <2>3, <2>4, OutKept
<1> QED
  BY <1>1, <1>3, <1>4, <1>8, <1>9, <1>10

(* A message that goes on the wire is its caller's, and its caller is going *)
(* to be told "ok"; the caller of one that does not is told "failed".       *)
LEMMA SenderLayer ==
  ASSUME LayerInv, NEW p \in Procs, RouterStep(p)
  PROVE  LayerInv'
<1> USE DEF LayerInv
<1>1. TypeOK' /\ SignalsMatchCalls'
  <2>1. TypeOK'
    BY RouterStepType
  <2>2. CASE NotifySendComplete(p)
    BY <2>1, <2>2, NotifySendCompleteSignals
  <2>3. CASE ~ NotifySendComplete(p)
    <3>1. UNCHANGED << caller, sendSignals, netSignals >>
      BY <2>3 DEF RouterStep, RouterTakeApp, RouterSend
    <3> QED
      BY <2>1, <3>1, SignalsKept DEF InFlight
  <2> QED
    BY <2>2, <2>3
<1>2. PICK m \in Msgs : m = router1[p].msg
  BY DEF TypeOK, SenderStates
<1>3. /\ m.sock \in Socks /\ m.no \in Nos /\ m.body \in Bodies
      /\ \A q \in Procs : q # p => router1'[q] = router1[q] /\ dataapp'[q] = dataapp[q]
      /\ UNCHANGED << reqNo, issued, caller, netSignals, appSignals, dataio, router2,
                      handler, link, aborted, served >>
      /\ \/ /\ router1[p].pc = "recv" /\ dataapp[p] # << >>
            /\ dataapp'[p] = Tail(dataapp[p])
            /\ \/ router1'[p].pc = "send" /\ router1'[p].msg = Head(dataapp[p])
               \/ router1' = router1
            /\ UNCHANGED << sendSignals, wire >>
         \/ /\ router1[p].pc = "send" /\ router1'[p].msg = m
            /\ \/ /\ link[m.sock] = "up" /\ router1'[p].pc = "ok"
                  /\ wire' = [wire EXCEPT ![m.sock] = Append(@, [no |-> m.no, body |-> m.body])]
               \/ link[m.sock] # "up" /\ router1'[p].pc = "failed" /\ UNCHANGED wire
            /\ UNCHANGED << sendSignals, dataapp >>
         \/ /\ router1[p].pc \in {"ok", "failed"} /\ router1'[p].pc = "recv"
            /\ \/ /\ sendSignals[m.sock][m.no] = "armed"
                  /\ \A t \in Socks, n \in Nos :
                       sendSignals'[t][n] = IF t = m.sock /\ n = m.no THEN router1[p].pc
                                            ELSE sendSignals[t][n]
               \/ sendSignals[m.sock][m.no] # "armed" /\ UNCHANGED sendSignals
            /\ UNCHANGED << dataapp, wire >>
  BY <1>2, SenderDoes
<1>4. Dispatched' /\ Handlers' /\ ServedBy' /\ Calls'
  BY <1>3, DispatchKept DEF Calls
<1>5. \A d \in Callers : Chan[d] \in Socks /\ caller[d].no \in Nos /\ Home[Chan[d]] \in Procs
  BY ReqRepAssumption DEF TypeOK, CallerStates
<1>6. \A q \in Procs : \A i \in DOMAIN dataapp[q] : dataapp[q][i] \in Msgs
  BY DEF TypeOK
<1>7. CASE /\ router1[p].pc = "recv" /\ dataapp[p] # << >>
           /\ dataapp'[p] = Tail(dataapp[p])
           /\ \/ router1'[p].pc = "send" /\ router1'[p].msg = Head(dataapp[p])
              \/ router1' = router1
           /\ UNCHANGED << sendSignals, wire >>
  <2>1. /\ 1 \in DOMAIN dataapp[p] /\ Head(dataapp[p]) = dataapp[p][1]
        /\ \A i \in DOMAIN dataapp'[p] : /\ i + 1 \in DOMAIN dataapp[p] /\ i \in Nat /\ i >= 1
                                         /\ dataapp'[p][i] = dataapp[p][i + 1]
    BY <1>7, TailAt DEF TypeOK
  <2>2. ASSUME NEW w \in Msgs, NEW d \in Callers, OwnedBy(w, d) PROVE OwnedBy(w, d)'
    BY <1>3, <1>7, <2>2 DEF OwnedBy
  <2>3. QueuedAt(p)
    BY DEF Queued
  <2>4. \A i \in DOMAIN dataapp'[p] :
          Home[dataapp'[p][i].sock] = p /\ \E d \in Callers : OwnedBy(dataapp[p][i], d)'
    <3> SUFFICES ASSUME NEW i \in DOMAIN dataapp'[p]
                 PROVE  Home[dataapp'[p][i].sock] = p /\ \E d \in Callers : OwnedBy(dataapp[p][i], d)'
      OBVIOUS
    <3>1. PICK w \in Msgs : w = dataapp[p][i + 1] /\ w = dataapp'[p][i]
      BY <1>6, <2>1
    <3>2. PICK d \in Callers : OwnedBy(w, d) /\ Home[w.sock] = p
      BY <2>1, <2>3, <3>1 DEF QueuedAt
    <3>3. OwnedBy(w, d)'
      BY <2>2, <3>2
    <3> QED
      BY <3>1, <3>2, <3>3
  <2>5. \A i, j \in DOMAIN dataapp'[p] : SameCall(dataapp'[p][i], dataapp'[p][j]) => i = j
    BY <2>1, <2>3 DEF QueuedAt
  <2>6. router1'[p].pc # "recv" => /\ router1'[p].msg = dataapp[p][1]
                                   /\ \A i \in DOMAIN dataapp'[p] : ~ SameCall(dataapp'[p][i], dataapp[p][1])
    BY <1>7, <2>1, <2>3 DEF QueuedAt
  <2>7. router1'[p].pc # "recv" => /\ Home[router1'[p].msg.sock] = p
                                   /\ \E d \in Callers : OwnedBy(router1[p].msg, d)'
    <3> SUFFICES ASSUME router1'[p].pc # "recv"
                 PROVE  /\ Home[router1'[p].msg.sock] = p
                        /\ \E d \in Callers : OwnedBy(router1[p].msg, d)'
      OBVIOUS
    <3>1. PICK w \in Msgs : w = dataapp[p][1] /\ w = router1'[p].msg
      BY <1>6, <2>1, <2>6
    <3>2. PICK d \in Callers : OwnedBy(w, d) /\ Home[w.sock] = p
      BY <2>1, <2>3, <3>1 DEF QueuedAt
    <3>3. OwnedBy(w, d)'
      BY <2>2, <3>2
    <3> QED
      BY <3>1, <3>2, <3>3
  <2>8. QueuedAt(p)'
    BY <2>4, <2>5, <2>6, <2>7 DEF QueuedAt, SameCall
  <2>9. \A q \in Procs : q # p => QueuedAt(q)'
    <3>1. \A q \in Procs : router1[q].msg \in Msgs
      BY DEF TypeOK, SenderStates
    <3> QED
      BY <1>3, <1>6, <2>2, <3>1 DEF Queued, QueuedAt, SameCall
  <2>10. OutKnown'
    <3>1. \A b : Out(b)' <=> Out(b)
      BY <1>3, <1>7 DEF Out
    <3>2. \A d \in Callers : ToldSent(d) => ToldSent(d)'
      BY <1>3, <1>5, <1>7 DEF ToldSent, OnItsWay
    <3> QED
      BY <1>3, <3>1, <3>2, OutKept
  <2> QED
    BY <1>1, <1>3, <1>4, <1>7, <2>8, <2>9, <2>10 DEF Queued, NotNull, Entered
<1>8. CASE /\ router1[p].pc = "send" /\ router1'[p].msg = m
           /\ \/ /\ link[m.sock] = "up" /\ router1'[p].pc = "ok"
                 /\ wire' = [wire EXCEPT ![m.sock] = Append(@, [no |-> m.no, body |-> m.body])]
              \/ link[m.sock] # "up" /\ router1'[p].pc = "failed" /\ UNCHANGED wire
           /\ UNCHANGED << sendSignals, dataapp >>
  <2>1. Queued' /\ Entered'
    <3>1. \A q \in Procs : /\ router1'[q].pc # "recv" => router1[q].pc # "recv"
                           /\ router1'[q].msg = router1[q].msg
      BY <1>2, <1>3, <1>8
    <3>2. Entered'
      BY <1>3, <1>8 DEF Entered
    <3>3. \A w, d : OwnedBy(w, d) => OwnedBy(w, d)'
      BY <1>3, <1>8 DEF OwnedBy
    <3>4. ASSUME NEW q \in Procs PROVE QueuedAt(q)'
      <4>1. QueuedAt(q) /\ dataapp'[q] = dataapp[q]
        BY <1>8 DEF Queued
      <4> QED
        BY <3>1, <3>3, <4>1 DEF QueuedAt, SameCall
    <3> QED
      BY <3>2, <3>4 DEF Queued
  <2>2. PICK c \in Callers : OwnedBy(m, c) /\ Home[m.sock] = p
    BY <1>2, <1>8 DEF Queued, QueuedAt
  <2>3. \A d \in Callers : ToldSent(d) => ToldSent(d)'
    BY <1>3, <1>5, <1>8 DEF ToldSent, OnItsWay
  <2>4. CASE link[m.sock] # "up"
    <3>1. \A b : Out(b)' <=> Out(b)
      BY <1>3, <1>8, <2>4 DEF Out
    <3>2. OutKnown' /\ NotNull'
      BY <1>3, <1>8, <2>3, <2>4, <3>1, OutKept DEF NotNull
    <3> QED
      BY <1>1, <1>4, <2>1, <3>2
  <2>5. CASE link[m.sock] = "up"
    <3>1. PICK k \in 0 .. MaxReq : k = caller[c].k /\ m.body = Req(m.sock, k)
      BY <2>2 DEF OwnedBy, TypeOK, CallerStates
    <3>2. \A t \in Socks : \A i \in DOMAIN wire'[t] :
            wire'[t][i].body = m.body \/ (i \in DOMAIN wire[t] /\ wire'[t][i] = wire[t][i])
      <4>1. PICK w \in Packs : w = [no |-> m.no, body |-> m.body]
        BY <1>3 DEF Packs
      <4>2. w.body = m.body
        BY <4>1
      <4>3. \A t \in Socks : wire'[t] = IF t = m.sock THEN Append(wire[t], w) ELSE wire[t]
        BY <1>3, <1>8, <2>5, <4>1 DEF TypeOK
      <4>4. ASSUME NEW t \in Socks, NEW i \in DOMAIN wire'[t]
            PROVE  wire'[t][i].body = m.body \/ (i \in DOMAIN wire[t] /\ wire'[t][i] = wire[t][i])
        <5>1. wire[t] \in Seq(Packs)
          BY DEF TypeOK
        <5>2. wire'[t] = wire[t] \/ wire'[t] = Append(wire[t], w)
          BY <4>3
        <5> QED
          BY <4>2, <4>4, <5>1, <5>2, AppendAt, SMTT(30)
      <4> QED
        BY <4>4
    <3>3. NotNull'
      <4>1. m.body.kind # "null"
        BY <3>1, BodyFacts
      <4> QED
        BY <1>3, <3>2, <4>1 DEF NotNull
    <3>4. \A b : Out(b)' => Out(b) \/ b = m.body
      BY <1>3, <3>2 DEF Out
    <3>5. ToldSent(c)'
      BY <1>2, <1>3, <1>8, <2>2, <2>5 DEF ToldSent, OnItsWay, OwnedBy
    <3>6. \A d \in Callers : Chan[d] = m.sock /\ caller[d].k = k => d = c
      BY <2>2, <3>1 DEF Calls, OwnedBy
    <3>7. k >= 1 /\ k <= issued[m.sock]
      BY <2>2, <3>1 DEF Calls, OwnedBy
    <3>8. ASSUME NEW t \in Socks, NEW j \in 0 .. MaxReq, Out(Req(t, j))'
          PROVE  /\ j >= 1 /\ j <= issued'[t]
                 /\ \A d \in Callers : Chan[d] = t /\ caller'[d].k = j => ToldSent(d)'
      <4>1. CASE Out(Req(t, j))
        BY <1>3, <2>3, <4>1 DEF OutKnown
      <4>2. CASE Req(t, j) = m.body
        <5>1. t = m.sock /\ j = k
          BY <3>1, <4>2, BodyFacts
        <5> QED
          BY <1>3, <3>5, <3>6, <3>7, <5>1
      <4> QED
        BY <3>4, <3>8, <4>1, <4>2 DEF Out
    <3>9. OutKnown'
      BY <3>8 DEF OutKnown
    <3> QED
      BY <1>1, <1>4, <2>1, <3>3, <3>9
  <2> QED
    BY <2>4, <2>5
<1>9. CASE /\ router1[p].pc \in {"ok", "failed"} /\ router1'[p].pc = "recv"
           /\ \/ /\ sendSignals[m.sock][m.no] = "armed"
                 /\ \A t \in Socks, n \in Nos :
                      sendSignals'[t][n] = IF t = m.sock /\ n = m.no THEN router1[p].pc
                                           ELSE sendSignals[t][n]
              \/ sendSignals[m.sock][m.no] # "armed" /\ UNCHANGED sendSignals
           /\ UNCHANGED << dataapp, wire >>
  <2>1. PICK c \in Callers : OwnedBy(m, c) /\ Home[m.sock] = p
    BY <1>2, <1>9 DEF Queued, QueuedAt
  <2>2. \A t \in Socks, n \in Nos :
          sendSignals'[t][n] = IF t = m.sock /\ n = m.no THEN router1[p].pc ELSE sendSignals[t][n]
    BY <1>9, <2>1 DEF OwnedBy
  <2>3. \A d \in Callers : (Chan[d] = m.sock /\ caller[d].no = m.no /\ caller[d].pc # "idle") => d = c
    BY <1>3, <2>1 DEF OwnedBy, SignalsMatchCalls, InFlight
  <2>4. ASSUME NEW w \in Msgs, NEW d \in Callers, OwnedBy(w, d), ~ SameCall(w, m)
        PROVE  OwnedBy(w, d)'
    <3>1. w.sock \in Socks /\ w.no \in Nos
      BY DEF Msgs
    <3> QED
      BY <1>3, <2>2, <2>4, <3>1 DEF OwnedBy, SameCall
  <2>5. ASSUME NEW q \in Procs PROVE QueuedAt(q)'
    <3>1. \A i \in DOMAIN dataapp[q] : ~ SameCall(dataapp[q][i], m)
      <4>1. CASE q = p
        BY <1>2, <1>9, <4>1 DEF Queued, QueuedAt
      <4>2. CASE q # p
        BY <2>1, <4>2 DEF Queued, QueuedAt, SameCall
      <4> QED
        BY <4>1, <4>2
    <3>2. router1'[q].pc # "recv" => q # p /\ ~ SameCall(router1[q].msg, m)
      BY <1>3, <1>9, <2>1 DEF Queued, QueuedAt, SameCall
    <3>3. \A i \in DOMAIN dataapp'[q] :
            Home[dataapp'[q][i].sock] = q /\ \E d \in Callers : OwnedBy(dataapp[q][i], d)'
      <4> SUFFICES ASSUME NEW i \in DOMAIN dataapp'[q]
                   PROVE  Home[dataapp'[q][i].sock] = q /\ \E d \in Callers : OwnedBy(dataapp[q][i], d)'
        OBVIOUS
      <4>1. PICK w \in Msgs : w = dataapp[q][i] /\ w = dataapp'[q][i]
        BY <1>6, <1>9
      <4>2. PICK d \in Callers : OwnedBy(w, d) /\ Home[w.sock] = q
        BY <1>9, <4>1 DEF Queued, QueuedAt
      <4>3. OwnedBy(w, d)'
        BY <1>9, <2>4, <3>1, <4>1, <4>2
      <4> QED
        BY <4>1, <4>2, <4>3
    <3>4. router1'[q].pc # "recv" => /\ Home[router1'[q].msg.sock] = q
                                     /\ \E d \in Callers : OwnedBy(router1[q].msg, d)'
      <4> SUFFICES ASSUME router1'[q].pc # "recv"
                   PROVE  /\ Home[router1'[q].msg.sock] = q
                          /\ \E d \in Callers : OwnedBy(router1[q].msg, d)'
        OBVIOUS
      <4>1. PICK w \in Msgs : w = router1[q].msg /\ w = router1'[q].msg
        BY <1>3, <3>2 DEF TypeOK, SenderStates
      <4>2. PICK d \in Callers : OwnedBy(w, d) /\ Home[w.sock] = q
        BY <1>3, <3>2, <4>1 DEF Queued, QueuedAt
      <4>3. OwnedBy(w, d)'
        BY <2>4, <3>2, <4>1, <4>2
      <4> QED
        BY <4>1, <4>2, <4>3
    <3> QED
      BY <1>3, <1>9, <3>2, <3>3, <3>4 DEF Queued, QueuedAt, SameCall
  <2>6. Entered'
    BY <1>3, <1>5, <2>1, <2>2, <2>3 DEF Entered, OwnedBy
  <2>7. OutKnown' /\ NotNull'
    <3>1. \A b : Out(b)' <=> Out(b)
      BY <1>3, <1>9 DEF Out
    <3>2. ASSUME NEW d \in Callers, ToldSent(d) PROVE ToldSent(d)'
      <4>1. CASE d # c
        <5>1. ~ (caller[d].pc = "waitSend" /\ Chan[d] = m.sock /\ caller[d].no = m.no)
          BY <2>3, <4>1
        <5> QED
          BY <1>2, <1>3, <1>5, <1>9, <2>1, <2>2, <3>2, <5>1 DEF ToldSent, OnItsWay
      <4>2. CASE d = c
        BY <1>2, <1>3, <1>9, <2>1, <2>2, <3>2, <4>2 DEF ToldSent, OnItsWay, OwnedBy
      <4> QED
        BY <4>1, <4>2
    <3> QED
      BY <1>3, <1>9, <3>1, <3>2, OutKept DEF NotNull
  <2> QED
    BY <1>1, <1>4, <2>5, <2>6, <2>7 DEF Queued
<1> QED
  BY <1>3, <1>7, <1>8, <1>9
(* A step that leaves the dispatcher of a process alone, adds to what was   *)
(* served and leaves waiting handlers waiting keeps DispatchedAt.           *)
LEMMA HandledKept ==
  ASSUME NEW p \in Procs, DispatchedAt(p), router2'[p] = router2[p], dataio'[p] = dataio[p],
         served \subseteq served', \A w \in Msgs : HandledBy(w) => HandledBy(w)',
         router2[p].msg \in Msgs, \A i \in DOMAIN dataio[p] : dataio[p][i] \in Msgs
  PROVE  DispatchedAt(p)'
<1>1. ASSUME NEW i \in DOMAIN dataio'[p] PROVE HandledBy(dataio[p][i])'
  <2>1. PICK w \in Msgs : w = dataio[p][i] /\ w = dataio'[p][i]
    OBVIOUS
  <2>2. HandledBy(w)'
    BY <2>1 DEF DispatchedAt
  <2> QED
    BY <2>1, <2>2
<1>2. ASSUME router2'[p].pc = "deal" PROVE HandledBy(router2[p].msg)'
  <2>1. PICK w \in Msgs : w = router2[p].msg /\ w = router2'[p].msg
    OBVIOUS
  <2>2. HandledBy(w)'
    BY <1>2, <2>1 DEF DispatchedAt
  <2> QED
    BY <2>1, <2>2
<1> QED
  BY <1>1, <1>2 DEF DispatchedAt, SameCall

(* A step that serves nothing new and leaves the handlers past the queue    *)
(* there keeps ServedBy.                                                    *)
LEMMA ServedKept ==
  ASSUME ServedBy, served' = served,
         \A t \in Socks, m \in Nos :
           PastQueue(t, m) => PastQueue(t, m)' /\ handler'[t][m].body = handler[t][m].body
  PROVE  ServedBy'
BY DEF ServedBy


(* The receive loop makes a handler only for a number that has none, and    *)
(* what it receives was out already.                                        *)
LEMMA ReceiverLayer ==
  ASSUME LayerInv, NEW s \in Socks, RecvPack(s) \/ RecvNothing(s)
  PROVE  LayerInv'
<1> USE DEF LayerInv
<1>1. PICK n \in Nos, b \in Bodies :
        /\ \/ /\ wire[Peer[s]] # << >> /\ n = Head(wire[Peer[s]]).no /\ b = Head(wire[Peer[s]]).body
              /\ wire' = [wire EXCEPT ![Peer[s]] = Tail(@)]
           \/ wire[Peer[s]] = << >> /\ b = Junk /\ link[s] = "down" /\ UNCHANGED wire
        /\ UNCHANGED << reqNo, issued, caller, sendSignals, dataapp, dataio, router1, router2, served >>
        /\ \/ /\ netSignals[s][n].st = "armed"
              /\ \A t \in Socks, m \in Nos :
                   netSignals'[t][m] = IF t = s /\ m = n THEN Sent(b) ELSE netSignals[t][m]
              /\ UNCHANGED << appSignals, handler, link, aborted >>
           \/ /\ netSignals[s][n].st # "armed" /\ appSignals[s][n].st = "none"
              /\ \A t \in Socks, m \in Nos :
                   /\ appSignals'[t][m] = IF t = s /\ m = n THEN Armed ELSE appSignals[t][m]
                   /\ handler'[t][m] = IF t = s /\ m = n THEN [pc |-> "enq", body |-> b]
                                       ELSE handler[t][m]
              /\ UNCHANGED << netSignals, link, aborted >>
           \/ /\ netSignals[s][n].st # "armed" /\ appSignals[s][n].st # "none"
              /\ Abort(Home[s], "recvAppRep != nullptr")
              /\ UNCHANGED << netSignals, appSignals, handler >>
  BY ReceiverDoes
<1>2. TypeOK'
  BY SockStepType
<1>3. SignalsMatchCalls'
  <2>1. \A t \in Socks, m \in Nos : netSignals'[t][m].st # "none" <=> netSignals[t][m].st # "none"
    <3>1. Sent(b).st = "sent"
      BY DEF Sent
    <3>2. CASE netSignals[s][n].st = "armed"
      BY <1>1, <3>1, <3>2
    <3>3. CASE netSignals[s][n].st # "armed"
      BY <1>1, <3>3
    <3> QED
      BY <3>2, <3>3
  <2> QED
    BY <1>1, <2>1, SignalsKept DEF InFlight
<1>4. Calls' /\ Entered' /\ Queued'
  BY <1>1, CallsKept
<1>5. b.kind # "null" /\ (b = Junk \/ Out(b))
  <2>1. CASE b = Junk
    BY <2>1, BodyFacts
  <2>2. CASE wire[Peer[s]] # << >> /\ b = Head(wire[Peer[s]]).body
    <3>1. Peer[s] \in Socks /\ wire[Peer[s]] \in Seq(Packs)
      BY ReqRepAssumption DEF TypeOK
    <3>2. 1 \in DOMAIN wire[Peer[s]] /\ b = wire[Peer[s]][1].body
      BY <2>2, <3>1, TailAt
    <3> QED
      BY <3>1, <3>2 DEF NotNull, Out
  <2> QED
    BY <1>1, <2>1, <2>2
<1>6. \A t \in Socks : \A i \in DOMAIN wire'[t] :
        \E j \in DOMAIN wire[t] : wire'[t][i] = wire[t][j]
  <2>1. \A t \in Socks : wire'[t] = wire[t] \/ (wire'[t] = Tail(wire[t]) /\ wire[t] # << >>)
    BY <1>1, ZenonT(30) DEF TypeOK
  <2>2. \A t \in Socks : wire[t] \in Seq(Packs)
    BY DEF TypeOK
  <2>3. ASSUME NEW t \in Socks, NEW i \in DOMAIN wire'[t]
        PROVE  \E j \in DOMAIN wire[t] : wire'[t][i] = wire[t][j]
    <3>1. CASE wire'[t] = wire[t]
      BY <3>1
    <3>2. CASE wire'[t] = Tail(wire[t]) /\ wire[t] # << >>
      BY <2>2, <3>2, TailAt
    <3> QED
      BY <2>1, <3>1, <3>2
  <2> QED
    BY <2>3
<1>7. NotNull'
  <2>1. Sent(b).msg = b
    BY DEF Sent
  <2> QED
    BY <1>1, <1>5, <1>6, <2>1, ZenonT(30) DEF NotNull
<1>8. \A t \in Socks, m \in Nos :
        \/ handler'[t][m] = handler[t][m] /\ appSignals'[t][m] = appSignals[t][m]
        \/ /\ handler[t][m].pc = "none" /\ appSignals[t][m].st = "none"
           /\ handler'[t][m].pc = "enq" /\ handler'[t][m].body = b /\ appSignals'[t][m] = Armed
  <2>1. [pc |-> "enq", body |-> b].pc = "enq" /\ [pc |-> "enq", body |-> b].body = b
    OBVIOUS
  <2>2. CASE netSignals[s][n].st # "armed" /\ appSignals[s][n].st = "none"
    <3>1. \A t \in Socks, m \in Nos :
            /\ appSignals'[t][m] = IF t = s /\ m = n THEN Armed ELSE appSignals[t][m]
            /\ handler'[t][m] = IF t = s /\ m = n THEN [pc |-> "enq", body |-> b] ELSE handler[t][m]
      BY <1>1, <2>2
    <3>2. handler[s][n].pc = "none"
      BY <2>2 DEF Handlers, HandlerAt
    <3> QED
      BY <2>1, <2>2, <3>1, <3>2
  <2>3. CASE ~ (netSignals[s][n].st # "armed" /\ appSignals[s][n].st = "none")
    BY <1>1, <2>3
  <2> QED
    BY <2>2, <2>3
<1>9. Dispatched'
  <2>1. \A m \in Msgs : HandledBy(m) => HandledBy(m)'
    BY <1>8 DEF HandledBy, Msgs
  <2>2. \A p \in Procs : /\ \A i \in DOMAIN dataio[p] : dataio[p][i] \in Msgs
                         /\ router2[p].msg \in Msgs
    BY DEF TypeOK, DispatcherStates
  <2> QED
    BY <1>1, <2>1, <2>2, HandledKept DEF Dispatched
<1>10. Handlers'
  <2> SUFFICES ASSUME NEW t \in Socks, NEW m \in Nos PROVE HandlerAt(t, m)'
    BY DEF Handlers
  <2>1. HandlerAt(t, m)
    BY DEF Handlers
  <2>2. CASE handler'[t][m] = handler[t][m] /\ appSignals'[t][m] = appSignals[t][m]
    BY <1>1, <2>1, <2>2 DEF HandlerAt
  <2>3. CASE handler'[t][m].pc = "enq" /\ appSignals'[t][m] = Armed
    BY <2>3 DEF HandlerAt, Armed
  <2> QED
    BY <1>8, <2>2, <2>3
<1>11. ServedBy'
  <2>1. \A t \in Socks, m \in Nos : PastQueue(t, m) => PastQueue(t, m)' /\ handler'[t][m].body = handler[t][m].body
    BY <1>1, <1>8 DEF PastQueue
  <2> QED
    BY <1>1, <2>1, ServedKept
<1>12. OutKnown'
  <2>1. \A x \in Bodies : x # Junk /\ Out(x)' => Out(x)
    BY <1>5, <1>6, <1>8 DEF Out
  <2>2. \A t \in Socks, k \in 0 .. MaxReq : Req(t, k) # Junk /\ Req(t, k) \in Bodies
    BY BodyFacts, BodyTypes
  <2>3. \A d \in Callers : ToldSent(d) => ToldSent(d)'
    BY <1>1 DEF ToldSent, OnItsWay
  <2> QED
    BY <1>1, <2>1, <2>2, <2>3 DEF OutKnown
<1> QED
  BY <1>2, <1>3, <1>4, <1>7, <1>9, <1>10, <1>11, <1>12

(* Router coroutine 2 finds the handler of its message waiting. *)
LEMMA DispatcherLayer ==
  ASSUME LayerInv, NEW p \in Procs, DispatchStep(p) \/ DealerThrows(p)
  PROVE  LayerInv'
<1> USE DEF LayerInv
<1>1. PICK m \in Msgs : m = router2[p].msg
  BY DEF TypeOK, DispatcherStates
<1>2. /\ m.sock \in Socks /\ m.no \in Nos /\ m.body \in Bodies
      /\ \A q \in Procs : q # p => router2'[q] = router2[q] /\ dataio'[q] = dataio[q]
      /\ UNCHANGED << reqNo, issued, caller, sendSignals, netSignals, dataapp, router1,
                      handler, wire, link, aborted >>
      /\ \/ /\ router2[p].pc = "recv" /\ dataio[p] # << >>
            /\ dataio'[p] = Tail(dataio[p])
            /\ \/ /\ router2'[p].pc = "deal" /\ router2'[p].msg = Head(dataio[p])
                  /\ Head(dataio[p]).body.kind # "junk"
                  /\ served' = served \cup {Head(dataio[p]).body}
               \/ Head(dataio[p]).body.kind = "junk" /\ UNCHANGED << router2, served >>
            /\ UNCHANGED appSignals
         \/ /\ router2[p].pc = "deal" /\ router2'[p].pc = "recv"
            /\ \A t \in Socks, n \in Nos :
                 appSignals'[t][n] = IF t = m.sock /\ n = m.no THEN Sent(Answer(m.body))
                                     ELSE appSignals[t][n]
            /\ UNCHANGED << dataio, served >>
         \/ /\ router2[p].pc = "deal" /\ router2'[p].pc = "recv"
            /\ UNCHANGED << appSignals, dataio, served >>
  BY <1>1, DispatcherDoes
<1>3. TypeOK'
  BY DispatchStepType
<1>4. SignalsMatchCalls' /\ Calls' /\ Entered' /\ Queued' /\ NotNull'
  BY <1>2, SignalsKept, CallsKept DEF InFlight, NotNull
<1>5. OutKnown'
  <2>1. \A b : Out(b)' <=> Out(b)
    BY <1>2 DEF Out
  <2>2. \A d \in Callers : ToldSent(d) => ToldSent(d)'
    BY <1>2 DEF ToldSent, OnItsWay
  <2> QED
    BY <1>2, <2>1, <2>2, OutKept
<1>6. \A q \in Procs : DispatchedAt(q)
  BY DEF Dispatched
<1>7. CASE /\ router2[p].pc = "recv" /\ dataio[p] # << >>
           /\ dataio'[p] = Tail(dataio[p])
           /\ \/ /\ router2'[p].pc = "deal" /\ router2'[p].msg = Head(dataio[p])
                 /\ Head(dataio[p]).body.kind # "junk"
                 /\ served' = served \cup {Head(dataio[p]).body}
              \/ Head(dataio[p]).body.kind = "junk" /\ UNCHANGED << router2, served >>
           /\ UNCHANGED appSignals
  <2>1. PICK h \in Msgs : h = Head(dataio[p]) /\ h = dataio[p][1] /\ 1 \in DOMAIN dataio[p]
    BY <1>7, TailAt DEF TypeOK
  <2>2. \A i \in DOMAIN dataio'[p] : /\ i + 1 \in DOMAIN dataio[p] /\ i \in Nat /\ i >= 1
                                     /\ dataio'[p][i] = dataio[p][i + 1]
    BY <1>7, TailAt DEF TypeOK
  <2>3. \A w : HandledBy(w)' <=> HandledBy(w)
    BY <1>2, <1>7 DEF HandledBy
  <2>4. /\ Home[h.sock] = p /\ HandledBy(h) /\ h.sock \in Socks /\ h.no \in Nos
        /\ \A i \in DOMAIN dataio'[p] : ~ SameCall(dataio'[p][i], h)
    BY <1>6, <2>1, <2>2 DEF DispatchedAt, Msgs
  <2>5. DispatchedAt(p)'
    <3>1. \A i \in DOMAIN dataio'[p] : Home[dataio'[p][i].sock] = p /\ HandledBy(dataio'[p][i])
      BY <1>6, <2>2 DEF DispatchedAt
    <3>2. \A i, j \in DOMAIN dataio'[p] : SameCall(dataio'[p][i], dataio'[p][j]) => i = j
      BY <1>6, <2>2 DEF DispatchedAt
    <3>3. router2'[p].pc = "deal" => router2'[p].msg = h /\ h.body \in served'
      BY <1>7, <2>1
    <3>4. \A i \in DOMAIN dataio'[p] : HandledBy(dataio[p][i])'
      BY <1>2, <1>7, <3>1 DEF HandledBy
    <3>5. router2'[p].pc = "deal" => HandledBy(router2[p].msg)'
      BY <1>2, <1>7, <2>4, <3>3 DEF HandledBy
    <3> QED
      BY <2>4, <3>1, <3>2, <3>3, <3>4, <3>5 DEF DispatchedAt, SameCall
  <2>6. ASSUME NEW q \in Procs, q # p PROVE DispatchedAt(q)'
    <3>1. served \subseteq served'
      BY <1>7
    <3>2. \A w \in Msgs : HandledBy(w) => HandledBy(w)'
      BY <1>2, <1>7 DEF HandledBy
    <3>3. router2[q].msg \in Msgs /\ \A i \in DOMAIN dataio[q] : dataio[q][i] \in Msgs
      BY DEF TypeOK, DispatcherStates
    <3>4. DispatchedAt(q) /\ router2'[q] = router2[q] /\ dataio'[q] = dataio[q]
      BY <1>2, <1>6, <2>6
    <3> QED
      BY <3>1, <3>2, <3>3, <3>4, HandledKept
  <2>7. Handlers'
    <3>1. served \subseteq served'
      BY <1>7
    <3> QED
      BY <1>2, <1>7, <3>1 DEF Handlers, HandlerAt
  <2>8. \A t \in Socks, n \in Nos : PastQueue(t, n) => PastQueue(t, n)'
    <3> SUFFICES ASSUME NEW t \in Socks, NEW n \in Nos, PastQueue(t, n) PROVE PastQueue(t, n)'
      OBVIOUS
    <3>1. Home[t] \in Procs
      BY ReqRepAssumption
    <3>2. CASE Home[t] = p
      BY <1>2, <2>2, <3>2 DEF PastQueue
    <3>3. CASE Home[t] # p
      BY <1>2, <3>1, <3>3 DEF PastQueue
    <3> QED
      BY <3>2, <3>3
  <2>9. PastQueue(h.sock, h.no)' /\ handler'[h.sock][h.no].body = h.body
    BY <1>2, <2>4 DEF PastQueue, HandledBy, SameCall
  <2>10. ServedBy'
    <3> SUFFICES ASSUME NEW b \in served'
                 PROVE  /\ b.kind # "junk"
                        /\ \E t \in Socks, n \in Nos : handler'[t][n].body = b /\ PastQueue(t, n)'
      BY DEF ServedBy
    <3>1. b \in served \/ (b = h.body /\ h.body.kind # "junk")
      BY <1>7, <2>1
    <3>2. CASE b \in served
      BY <1>2, <2>8, <3>2 DEF ServedBy
    <3>3. CASE b = h.body /\ h.body.kind # "junk"
      BY <2>4, <2>9, <3>3
    <3> QED
      BY <3>1, <3>2, <3>3
  <2> QED
    BY <1>3, <1>4, <1>5, <2>5, <2>6, <2>7, <2>10 DEF Dispatched
<1>8. CASE /\ router2[p].pc = "deal" /\ router2'[p].pc = "recv"
           /\ \A t \in Socks, n \in Nos :
                appSignals'[t][n] = IF t = m.sock /\ n = m.no THEN Sent(Answer(m.body))
                                    ELSE appSignals[t][n]
           /\ UNCHANGED << dataio, served >>
  <2>1. /\ HandledBy(m) /\ Home[m.sock] = p /\ m.body \in served
        /\ \A i \in DOMAIN dataio[p] : ~ SameCall(dataio[p][i], m)
    BY <1>1, <1>6, <1>8 DEF DispatchedAt
  <2>2. ASSUME NEW w \in Msgs, HandledBy(w), ~ SameCall(w, m) PROVE HandledBy(w)'
    BY <1>2, <1>8, <2>2 DEF HandledBy, SameCall, Msgs
  <2>3. ASSUME NEW q \in Procs PROVE DispatchedAt(q)'
    <3>1. \A i \in DOMAIN dataio[q] : dataio[q][i] \in Msgs /\ ~ SameCall(dataio[q][i], m)
      <4>1. CASE q = p
        BY <2>1, <4>1 DEF TypeOK
      <4>2. CASE q # p
        BY <1>6, <2>1, <4>2 DEF DispatchedAt, SameCall, TypeOK
      <4> QED
        BY <4>1, <4>2
    <3>2. router2'[q].pc = "deal" => q # p /\ router2[q].msg \in Msgs /\ ~ SameCall(router2[q].msg, m)
      BY <1>2, <1>6, <1>8, <2>1 DEF DispatchedAt, SameCall, TypeOK, DispatcherStates
    <3> QED
      BY <1>2, <1>6, <1>8, <2>2, <3>1, <3>2 DEF DispatchedAt, SameCall
  <2>4. Handlers'
    <3>1. Sent(Answer(m.body)).st = "sent" /\ Sent(Answer(m.body)).msg = Answer(m.body)
      BY DEF Sent
    <3> QED
      BY <1>2, <1>8, <2>1, <3>1 DEF Handlers, HandlerAt, HandledBy
  <2>5. ServedBy'
    <3>1. \A t \in Socks, n \in Nos : PastQueue(t, n) => PastQueue(t, n)' /\ handler'[t][n].body = handler[t][n].body
      BY <1>2, <1>8 DEF PastQueue
    <3> QED
      BY <1>8, <3>1, ServedKept
  <2> QED
    BY <1>3, <1>4, <1>5, <2>3, <2>4, <2>5 DEF Dispatched
<1>9. CASE /\ router2[p].pc = "deal" /\ router2'[p].pc = "recv"
           /\ UNCHANGED << appSignals, dataio, served >>
  <2>1. \A q \in Procs : router2'[q].pc = "deal" => router2'[q] = router2[q]
    BY <1>2, <1>9
  <2>2. ASSUME NEW q \in Procs PROVE DispatchedAt(q)'
    <3>1. \A w : HandledBy(w) => HandledBy(w)'
      BY <1>2, <1>9 DEF HandledBy
    <3>2. DispatchedAt(q) /\ dataio'[q] = dataio[q]
      BY <1>6, <1>9
    <3> QED
      BY <1>9, <2>1, <3>1, <3>2 DEF DispatchedAt, SameCall
  <2>3. Handlers' /\ ServedBy'
    BY <1>2, <1>9 DEF Handlers, HandlerAt, ServedBy, PastQueue
  <2> QED
    BY <1>3, <1>4, <1>5, <2>2, <2>3 DEF Dispatched
<1> QED
  BY <1>2, <1>7, <1>8, <1>9

(* A handler queues its body once, and sends the answer to that body. *)
LEMMA HandlerLayer ==
  ASSUME LayerInv, NEW s \in Socks, NEW n \in Nos, HandlerStep(s, n)
  PROVE  LayerInv'
<1> USE DEF LayerInv
<1>1. /\ \A t \in Socks, m \in Nos :
           /\ handler'[t][m].body = handler[t][m].body
           /\ ~ (t = s /\ m = n) => handler'[t][m] = handler[t][m]
      /\ UNCHANGED << reqNo, issued, caller, sendSignals, netSignals, appSignals, dataapp,
                      router1, router2, link, aborted, served >>
      /\ \/ /\ handler[s][n].pc = "enq" /\ handler'[s][n].pc = "wait" /\ UNCHANGED wire
            /\ dataio' = [dataio EXCEPT ![Home[s]] = Append(@, Msg(s, n, handler[s][n].body))]
         \/ /\ handler[s][n].pc = "wait" /\ handler'[s][n].pc = "done" /\ UNCHANGED dataio
            /\ appSignals[s][n].st = "sent"
            /\ \/ /\ link[s] = "up"
                  /\ wire' = [wire EXCEPT ![s] = Append(@, [no |-> n, body |-> appSignals[s][n].msg])]
               \/ link[s] # "up" /\ UNCHANGED wire
  BY HandlerDoes
<1>2. TypeOK'
  BY HandlerStepType
<1>3. SignalsMatchCalls' /\ Calls' /\ Entered' /\ Queued'
  BY <1>1, SignalsKept, CallsKept DEF InFlight
<1>4. PICK h \in Bodies : h = handler[s][n].body
  BY DEF TypeOK, HandlerStates
<1>5. \A t \in Socks : \A i \in DOMAIN wire'[t] :
        \/ i \in DOMAIN wire[t] /\ wire'[t][i] = wire[t][i]
        \/ wire'[t][i].body = Answer(h) /\ appSignals[s][n].st = "sent"
  <2>1. CASE wire' = wire
    BY <2>1
  <2>2. CASE /\ appSignals[s][n].st = "sent"
             /\ wire' = [wire EXCEPT ![s] = Append(@, [no |-> n, body |-> appSignals[s][n].msg])]
    <3>1. appSignals[s][n].msg = Answer(h) /\ Answer(h) \in Bodies
      BY <1>4, <2>2, BodyTypes DEF Handlers, HandlerAt
    <3>2. PICK w \in Packs : w = [no |-> n, body |-> appSignals[s][n].msg]
      BY <3>1 DEF Packs
    <3>3. w.body = Answer(h)
      BY <3>1, <3>2
    <3>4. \A t \in Socks : wire[t] \in Seq(Packs) /\ (wire'[t] = wire[t] \/ wire'[t] = Append(wire[t], w))
      BY <2>2, <3>2 DEF TypeOK
    <3>5. ASSUME NEW t \in Socks, NEW i \in DOMAIN wire'[t]
          PROVE  \/ i \in DOMAIN wire[t] /\ wire'[t][i] = wire[t][i]
                 \/ wire'[t][i].body = Answer(h)
      <4>1. CASE wire'[t] = wire[t]
        BY <4>1
      <4>2. CASE wire'[t] = Append(wire[t], w)
        <5>1. wire[t] \in Seq(Packs) /\ i \in DOMAIN Append(wire[t], w)
          BY <3>4, <4>2
        <5>2. Append(wire[t], w)[i] = IF i \in DOMAIN wire[t] THEN wire[t][i] ELSE w
          BY <5>1, AppendAt
        <5> QED
          BY <3>3, <4>2, <5>2
      <4> QED
        BY <3>4, <4>1, <4>2
    <3> QED
      BY <2>2, <3>5
  <2> QED
    BY <1>1, <2>1, <2>2
<1>6. NotNull'
  BY <1>1, <1>5, BodyFacts DEF NotNull
<1>7. OutKnown'
  <2>1. ASSUME NEW t \in Socks, NEW k \in 0 .. MaxReq, Out(Req(t, k))' PROVE Out(Req(t, k))
    <3>1. Req(t, k) # Answer(h)
      BY BodyFacts
    <3>2. \A u \in Socks, m \in Nos : handler'[u][m].pc # "none" => handler[u][m].pc # "none"
      BY <1>1
    <3> QED
      BY <1>1, <1>5, <2>1, <3>1, <3>2 DEF Out
  <2>2. \A d \in Callers : ToldSent(d) => ToldSent(d)'
    BY <1>1 DEF ToldSent, OnItsWay
  <2> QED
    BY <1>1, <2>1, <2>2 DEF OutKnown
<1>8. \A q \in Procs : DispatchedAt(q)
  BY DEF Dispatched
<1>9. Home[s] \in Procs
  BY ReqRepAssumption
<1>10. CASE /\ handler[s][n].pc = "enq" /\ handler'[s][n].pc = "wait"
            /\ dataio' = [dataio EXCEPT ![Home[s]] = Append(@, Msg(s, n, handler[s][n].body))]
  <2>1. PICK p \in Procs, new \in Msgs : p = Home[s] /\ new = Msg(s, n, h)
    BY <1>4, <1>9 DEF Msg, Msgs
  <2>2. new.sock = s /\ new.no = n /\ new.body = h
    BY <2>1 DEF Msg
  <2>3. dataio[p] \in Seq(Msgs) /\ \A q \in Procs : dataio'[q] = IF q = p THEN Append(dataio[p], new) ELSE dataio[q]
    BY <1>4, <1>10, <2>1 DEF TypeOK
  <2>4. appSignals[s][n].st = "armed"
    BY <1>10 DEF Handlers, HandlerAt
  <2>5. \A w \in Msgs : HandledBy(w) => HandledBy(w)' /\ ~ SameCall(w, new)
    BY <1>1, <1>10, <2>2 DEF HandledBy, SameCall, Msgs
  <2>6. HandledBy(new)'
    BY <1>1, <1>4, <1>10, <2>2, <2>4 DEF HandledBy
  <2>7. \A q \in Procs : router2[q].msg \in Msgs /\ \A i \in DOMAIN dataio[q] : dataio[q][i] \in Msgs
    BY DEF TypeOK, DispatcherStates
  <2>8. ASSUME NEW q \in Procs PROVE DispatchedAt(q)'
    <3>1. CASE q # p
      BY <1>1, <1>8, <2>3, <2>5, <2>7, <3>1 DEF DispatchedAt, SameCall
    <3>2. CASE q = p
      <4>1. PICK l \in Nat : /\ DOMAIN dataio[p] = 1 .. l /\ DOMAIN dataio'[p] = 1 .. l + 1
                             /\ dataio'[p][l + 1] = new
                             /\ \A i \in 1 .. l : dataio'[p][i] = dataio[p][i]
        <5>1. dataio'[p] = Append(dataio[p], new)
          BY <2>3
        <5>2. /\ Len(dataio[p]) \in Nat
              /\ DOMAIN dataio[p] = 1 .. Len(dataio[p])
              /\ DOMAIN Append(dataio[p], new) = 1 .. Len(dataio[p]) + 1
              /\ Append(dataio[p], new)[Len(dataio[p]) + 1] = new
              /\ \A i \in DOMAIN dataio[p] : Append(dataio[p], new)[i] = dataio[p][i]
          BY <2>3, AppendAt
        <5> QED
          BY <5>1, <5>2
      <4>2. \A i \in 1 .. l : /\ Home[dataio[p][i].sock] = p /\ HandledBy(dataio[p][i])
                              /\ dataio[p][i] \in Msgs
        BY <1>8, <2>7, <4>1 DEF DispatchedAt
      <4>3. \A i \in 1 .. l + 1 : Home[dataio'[p][i].sock] = p /\ HandledBy(dataio[p][i])'
        <5>1. ASSUME NEW i \in 1 .. l PROVE Home[dataio'[p][i].sock] = p /\ HandledBy(dataio[p][i])'
          <6>1. PICK w \in Msgs : w = dataio[p][i] /\ w = dataio'[p][i] /\ HandledBy(w)
            BY <4>1, <4>2
          <6>2. HandledBy(w)'
            BY <2>5, <6>1
          <6> QED
            BY <4>2, <6>1, <6>2
        <5>2. Home[dataio'[p][l + 1].sock] = p /\ HandledBy(dataio[p][l + 1])'
          BY <2>1, <2>2, <2>6, <4>1
        <5> QED
          BY <5>1, <5>2
      <4>4. \A i, j \in 1 .. l + 1 : SameCall(dataio'[p][i], dataio'[p][j]) => i = j
        <5>1. \A i, j \in 1 .. l : SameCall(dataio[p][i], dataio[p][j]) => i = j
          BY <1>8, <4>1 DEF DispatchedAt
        <5>2. \A i \in 1 .. l : ~ SameCall(dataio[p][i], new)
          BY <2>5, <4>2
        <5>3. \A i \in 1 .. l : ~ SameCall(new, dataio[p][i])
          BY <5>2 DEF SameCall
        <5>4. ASSUME NEW i \in 1 .. l + 1, NEW j \in 1 .. l + 1, SameCall(dataio'[p][i], dataio'[p][j])
              PROVE  i = j
          <6>1. CASE i = l + 1 /\ j # l + 1
            <7>1. j \in 1 .. l
              BY <6>1
            <7> QED
              BY <4>1, <5>3, <5>4, <6>1, <7>1
          <6>2. CASE i # l + 1 /\ j = l + 1
            <7>1. i \in 1 .. l
              BY <6>2
            <7> QED
              BY <4>1, <5>2, <5>4, <6>2, <7>1
          <6>3. CASE i # l + 1 /\ j # l + 1
            <7>1. i \in 1 .. l /\ j \in 1 .. l
              BY <6>3
            <7>2. SameCall(dataio[p][i], dataio[p][j])
              BY <4>1, <5>4, <7>1
            <7> QED
              BY <5>1, <7>1, <7>2
          <6> QED
            BY <6>1, <6>2, <6>3
        <5> QED
          BY <5>4
      <4>5. router2[p].pc = "deal" => /\ Home[router2[p].msg.sock] = p /\ HandledBy(router2[p].msg)'
                                      /\ router2[p].msg.body \in served
                                      /\ \A i \in 1 .. l + 1 : ~ SameCall(dataio'[p][i], router2[p].msg)
        <5>1. PICK w \in Msgs : w = router2[p].msg /\ w = router2'[p].msg
          BY <1>1, <2>7
        <5>2. router2[p].pc = "deal" => HandledBy(w)'
          BY <1>8, <2>5, <5>1 DEF DispatchedAt
        <5> SUFFICES ASSUME router2[p].pc = "deal"
                     PROVE  /\ Home[w.sock] = p /\ HandledBy(w)' /\ w.body \in served
                            /\ \A i \in 1 .. l + 1 : ~ SameCall(dataio'[p][i], w)
          BY <5>1
        <5>3. /\ Home[w.sock] = p /\ w.body \in served /\ HandledBy(w)
              /\ \A i \in 1 .. l : ~ SameCall(dataio[p][i], w)
          <6>1. /\ Home[router2[p].msg.sock] = p /\ router2[p].msg.body \in served
                /\ HandledBy(router2[p].msg)
                /\ \A i \in DOMAIN dataio[p] : ~ SameCall(dataio[p][i], router2[p].msg)
            BY <1>8 DEF DispatchedAt
          <6> QED
            BY <4>1, <5>1, <6>1
        <5>4. ~ SameCall(new, w)
          BY <2>5, <5>3 DEF SameCall
        <5>5. \A i \in 1 .. l + 1 : i \in 1 .. l \/ i = l + 1
          BY <4>1
        <5> QED
          BY <4>1, <5>2, <5>3, <5>4, <5>5
      <4> QED
        BY <1>1, <3>2, <4>1, <4>3, <4>4, <4>5 DEF DispatchedAt
    <3> QED
      BY <3>1, <3>2
  <2>9. Handlers'
    BY <1>1, <1>10, <2>4 DEF Handlers, HandlerAt
  <2>10. ServedBy'
    <3>1. ASSUME NEW t \in Socks, NEW m \in Nos, PastQueue(t, m) PROVE PastQueue(t, m)'
      <4>1. ~ (t = s /\ m = n) /\ Home[t] \in Procs
        BY <1>10, <3>1, ReqRepAssumption DEF PastQueue
      <4>2. \A i \in DOMAIN dataio'[Home[t]] : \/ i \in DOMAIN dataio[Home[t]] /\ dataio'[Home[t]][i] = dataio[Home[t]][i]
                                               \/ dataio'[Home[t]][i] = new
        <5>1. CASE Home[t] = p
          <6>1. dataio'[p] = Append(dataio[p], new) /\ dataio[p] \in Seq(Msgs)
            BY <2>3
          <6>2. \A i \in DOMAIN Append(dataio[p], new) :
                  Append(dataio[p], new)[i] = IF i \in DOMAIN dataio[p] THEN dataio[p][i] ELSE new
            BY <6>1, AppendAt
          <6> QED
            BY <5>1, <6>1, <6>2
        <5>2. CASE Home[t] # p
          BY <2>3, <4>1, <5>2
        <5> QED
          BY <5>1, <5>2
      <4> QED
        BY <1>1, <2>2, <3>1, <4>1, <4>2 DEF PastQueue
    <3> QED
      BY <1>1, <3>1 DEF ServedBy
  <2> QED
    BY <1>2, <1>3, <1>6, <1>7, <2>8, <2>9, <2>10 DEF Dispatched
<1>11. CASE /\ handler[s][n].pc = "wait" /\ handler'[s][n].pc = "done" /\ UNCHANGED dataio
            /\ appSignals[s][n].st = "sent"
  <2>1. \A w \in Msgs : HandledBy(w) => HandledBy(w)'
    BY <1>1, <1>11 DEF HandledBy, Msgs
  <2>2. \A q \in Procs : router2[q].msg \in Msgs /\ \A i \in DOMAIN dataio[q] : dataio[q][i] \in Msgs
    BY DEF TypeOK, DispatcherStates
  <2>3. Dispatched'
    BY <1>1, <1>8, <1>11, <2>1, <2>2 DEF Dispatched, DispatchedAt, SameCall
  <2>4. Handlers'
    BY <1>1, <1>11 DEF Handlers, HandlerAt
  <2>5. ServedBy'
    <3>1. \A t \in Socks, m \in Nos : PastQueue(t, m) => PastQueue(t, m)'
      BY <1>1, <1>11 DEF PastQueue
    <3> QED
      BY <1>1, <3>1, ServedKept
  <2> QED
    BY <1>2, <1>3, <1>6, <1>7, <2>3, <2>4, <2>5
<1> QED
  BY <1>1, <1>10, <1>11

(* A lost connection takes packs away and adds none. *)
LEMMA BreakLayer ==
  ASSUME LayerInv, NEW s \in Socks, Break(s)
  PROVE  LayerInv'
<1> USE DEF LayerInv
<1>1. /\ UNCHANGED << reqNo, issued, caller, sendSignals, netSignals, appSignals, dataapp, dataio,
                      router1, router2, handler, aborted, served >>
      /\ \A t \in Socks : \A i \in DOMAIN wire'[t] : i \in DOMAIN wire[t] /\ wire'[t][i] = wire[t][i]
  BY BreakDoes
<1>2. TypeOK'
  BY SockStepType
<1>3. SignalsMatchCalls' /\ Calls' /\ Entered' /\ Queued' /\ Dispatched' /\ Handlers' /\ ServedBy'
  BY <1>1, SignalsKept, CallsKept, DispatchKept DEF InFlight
<1>4. NotNull'
  BY <1>1 DEF NotNull
<1>5. OutKnown'
  <2>1. \A b : Out(b)' => Out(b)
    BY <1>1 DEF Out
  <2>2. \A d \in Callers : ToldSent(d) => ToldSent(d)'
    BY <1>1 DEF ToldSent, OnItsWay
  <2> QED
    BY <1>1, <2>1, <2>2, OutKept
<1> QED
  BY <1>2, <1>3, <1>4, <1>5

(* Every step keeps the invariant of the layer. *)
LEMMA StepLayer == LayerInv /\ [Next]_vars => LayerInv'
<1> SUFFICES ASSUME LayerInv, [Next]_vars PROVE LayerInv'
  OBVIOUS
<1>1. CASE UNCHANGED vars
  <2>1. TypeOK' /\ SignalsMatchCalls'
    BY <1>1, SignalsKept DEF LayerInv, vars, TypeOK, InFlight
  <2>2. Calls' /\ Entered' /\ Queued' /\ Dispatched' /\ Handlers' /\ ServedBy'
    BY <1>1, CallsKept, DispatchKept DEF LayerInv, vars
  <2>3. NotNull' /\ OutKnown'
    BY <1>1 DEF LayerInv, vars, NotNull, OutKnown, Out, ToldSent, OnItsWay
  <2> QED
    BY <2>1, <2>2, <2>3 DEF LayerInv
<1>2. CASE Next
  BY <1>1, <1>2, ReqrepLayer, CallerLayer, SenderLayer, DispatcherLayer, ReceiverLayer, BreakLayer,
     HandlerLayer DEF Next, Quiescent
<1> QED
  BY <1>1, <1>2

(* The invariant of the layer holds in every reachable state. *)
LEMMA LayerInvariant == Spec => []LayerInv
  BY InitLayer, StepLayer, PTL DEF Spec

(* Whatever the layout, the number width and the failures: a reqrep that    *)
(* returned null because its send failed is never executed by the peer, so  *)
(* that the application may send it again.                                  *)
THEOREM NullIsNotServed == Spec => []NullMeansNotServed
<1>1. LayerInv => NullMeansNotServed
  <2> SUFFICES ASSUME LayerInv, NEW c \in Callers, caller[c].pc = "idle", caller[c].ret = NoBody,
                      Req(Chan[c], caller[c].k) \in served
               PROVE  FALSE
    BY DEF NullMeansNotServed
  <2>1. Chan[c] \in Socks /\ caller[c].k \in 0 .. MaxReq
    BY ReqRepAssumption DEF LayerInv, TypeOK, CallerStates
  <2>2. Out(Req(Chan[c], caller[c].k))
    BY DEF LayerInv, ServedBy, PastQueue, Out
  <2>3. ToldSent(c)
    BY <2>1, <2>2 DEF LayerInv, OutKnown
  <2> QED
    BY <2>3 DEF ToldSent
<1> QED
  BY <1>1, LayerInvariant, PTL

(***************************************************************************)
(* Layouts in which numbers tell calls apart.  ChannelCombine relies on    *)
(* the two ends of a channel counting in different halves of the numbers,  *)
(* one Initiative and one Passive, or on only one end calling; and no end  *)
(* may come to the end of its half.                                        *)
(***************************************************************************)
Separated ==
  /\ MaxReq <= Half
  /\ \A s \in Socks : \/ Mode[s] # Mode[Peer[s]]
                      \/ \A c \in Callers : Chan[c] # s
                      \/ \A c \in Callers : Chan[c] # Peer[s]

(***************************************************************************)
(* What then ties the two ends of a channel together.  Numbers: the k-th   *)
(* request of a sock has the number InitNo + k.  PackOn: a pack on a wire  *)
(* is a request the peer has no handler for yet, or the answer of a        *)
(* handler that is done, and its caller still waits.  HandlerOf: a handler *)
(* has a request of the peer, or an empty string after the connection was  *)
(* lost.  ReplyOf: a reply handed to a caller is the answer of the handler *)
(* of that number, or an empty string.                                     *)
(***************************************************************************)
Numbers ==
  /\ \A s \in Socks : /\ reqNo[s] = InitNo(s) + issued[s]
                      /\ issued[s] > 0 => \E c \in Callers : Chan[c] = s
                      /\ link[s] = link[Peer[s]]
  /\ \A c \in Callers : caller[c].pc # "idle" => caller[c].no = InitNo(Chan[c]) + caller[c].k

IsReq(s, n, b) == b = Req(s, b.k) /\ b.k >= 1 /\ b.k <= issued[s] /\ n = InitNo(s) + b.k

RequestOn(s, w) ==
  /\ IsReq(s, w.no, w.body) /\ handler[Peer[s]][w.no].pc = "none"
  /\ link[s] = "up" => netSignals[s][w.no].st = "armed"

AnswerOn(s, w) ==
  LET h == handler[s][w.no]
  IN  /\ IsReq(Peer[s], w.no, h.body) /\ h.pc = "done" /\ w.body = Answer(h.body)
      /\ netSignals[Peer[s]][w.no].st = "armed"

PackOn(s, w) == RequestOn(s, w) \/ AnswerOn(s, w)

WireOf(s) ==
  /\ \A i \in DOMAIN wire[s] : PackOn(s, wire[s][i])
  /\ \A i, j \in DOMAIN wire[s] : wire[s][i].no = wire[s][j].no => i = j
Wires == \A s \in Socks : WireOf(s)

HandlerOf(s, n) ==
  handler[s][n].pc # "none"
    => \/ handler[s][n].body = Junk /\ link[s] = "down"
       \/ /\ IsReq(Peer[s], n, handler[s][n].body)
          /\ handler[s][n].pc # "done" /\ link[s] = "up" => netSignals[Peer[s]][n].st = "armed"

ReplyOf(s, n) ==
  netSignals[s][n].st = "sent"
    => \/ netSignals[s][n].msg = Junk /\ link[s] = "down"
       \/ LET h == handler[Peer[s]][n]
          IN  netSignals[s][n].msg = Answer(h.body) /\ h.pc = "done" /\ IsReq(s, n, h.body)
Ends == \A s \in Socks, n \in Nos : HandlerOf(s, n) /\ ReplyOf(s, n)

(* What a reqrep returned: nothing, the answer to its own request, or, when *)
(* the connection is lost, an empty string.                                 *)
ReturnedOwn ==
  \A c \in Callers :
    \/ caller[c].ret \in {NoBody, Answer(Req(Chan[c], caller[c].k))}
    \/ caller[c].ret = Junk /\ link[Chan[c]] = "down"

ChannelInv == Numbers /\ Wires /\ Ends /\ ReturnedOwn

-----------------------------------------------------------------------------
(* The numbers of a sock fit in their half. *)
LEMMA NumbersFit ==
  ASSUME Separated, NEW s \in Socks, NEW k \in 0 .. MaxReq
  PROVE  /\ InitNo(s) \in Nat /\ InitNo(s) + k \in Nos
         /\ Mode[s] = "Initiative" => InitNo(s) + k <= Half
         /\ Mode[s] = "Passive" => InitNo(s) = Half
         /\ Mode[s] \in {"Initiative", "Passive"}
<1>1. MaxNo \in Nat /\ MaxReq \in Nat /\ Mode[s] \in {"Initiative", "Passive"}
  BY ReqRepAssumption
<1>2. Half \in Nat /\ Half + Half <= MaxNo
  BY <1>1 DEF Half
<1>3. k \in Nat /\ k <= Half
  BY <1>1, <1>2 DEF Separated
<1> QED
  BY <1>1, <1>2, <1>3 DEF InitNo, Nos

(* newReq hands the numbers out one after the other. *)
LEMMA NewReqNext ==
  ASSUME Separated, TypeOK, Numbers, NEW s \in Socks, issued[s] < MaxReq
  PROVE  NewReq(s) = InitNo(s) + issued[s] + 1
<1>1. /\ MaxNo \in Nat \ {0} /\ MaxReq \in Nat /\ issued[s] \in Nat
      /\ Mode[s] \in {"Initiative", "Passive"}
  BY ReqRepAssumption DEF TypeOK
<1>2. Half \in Nat /\ Half + Half <= MaxNo /\ Half < MaxNo
  BY <1>1 DEF Half
<1>3. issued[s] + 1 <= Half /\ InitNo(s) \in Nat /\ reqNo[s] = InitNo(s) + issued[s]
  BY <1>1, <1>2 DEF Separated, Numbers, InitNo
<1>4. ASSUME NEW x \in Nat, x <= MaxNo PROVE x % (MaxNo + 1) = x
  BY <1>1, <1>4
<1>5. CASE Mode[s] = "Initiative"
  <2>1. InitNo(s) = 0
    BY <1>5 DEF InitNo
  <2>2. (reqNo[s] + 1) % (MaxNo + 1) = issued[s] + 1 /\ ~ (issued[s] + 1 >= MaxNo)
    BY <1>1, <1>2, <1>3, <1>4, <2>1
  <2> QED
    BY <1>1, <1>5, <2>1, <2>2 DEF NewReq
<1>6. CASE Mode[s] = "Passive"
  <2>1. InitNo(s) = Half
    BY <1>6 DEF InitNo
  <2>2. (reqNo[s] + 1) % (MaxNo + 1) = Half + issued[s] + 1 /\ ~ (Half + issued[s] + 1 <= Half)
    BY <1>1, <1>2, <1>3, <1>4, <2>1
  <2> QED
    BY <1>1, <1>6, <2>1, <2>2 DEF NewReq
<1> QED
  BY <1>1, <1>5, <1>6

(* The other end of a channel. *)
LEMMA PeerFacts ==
  \A s \in Socks : Peer[s] \in Socks /\ Peer[Peer[s]] = s /\ Peer[s] # s /\ Home[s] \in Procs
BY ReqRepAssumption

(* No number is a request of both ends. *)
LEMMA OneSided ==
  ASSUME Separated, TypeOK, Numbers, NEW s \in Socks, NEW n, NEW a \in Bodies, NEW b \in Bodies,
         IsReq(s, n, a), IsReq(Peer[s], n, b)
  PROVE  FALSE
<1>1. /\ Peer[s] \in Socks /\ a.k \in 1 .. MaxReq /\ b.k \in 1 .. MaxReq
      /\ issued[s] \in Nat /\ issued[Peer[s]] \in Nat
      /\ a.k \in 0 .. MaxReq /\ b.k \in 0 .. MaxReq
  BY PeerFacts, ReqRepAssumption DEF TypeOK, IsReq, Bodies
<1>2. issued[s] > 0 /\ issued[Peer[s]] > 0
  BY <1>1 DEF IsReq
<1>3. Mode[s] # Mode[Peer[s]]
  BY <1>1, <1>2 DEF Separated, Numbers
<1>4. n = InitNo(s) + a.k /\ n = InitNo(Peer[s]) + b.k
  BY DEF IsReq
<1>5. Half \in Nat /\ MaxReq \in Nat
  BY ReqRepAssumption DEF Half
<1> QED
  BY <1>1, <1>3, <1>4, <1>5, NumbersFit

(* A call in flight has the number of a request of its sock. *)
LEMMA InFlightIsReq ==
  ASSUME Separated, LayerInv, Numbers, NEW c \in Callers, caller[c].pc # "idle"
  PROVE  LET s == Chan[c]
             n == caller[c].no
             b == Req(s, caller[c].k)
         IN  /\ s \in Socks /\ n \in Nos /\ b \in Bodies /\ IsReq(s, n, b)
             /\ \A x \in Bodies : IsReq(s, n, x) => x = b
<1> DEFINE s == Chan[c]
           n == caller[c].no
           b == Req(s, caller[c].k)
<1>1. s \in Socks /\ n \in Nos /\ caller[c].k \in 0 .. MaxReq /\ caller[c].k >= 1
      /\ caller[c].k <= issued[s] /\ n = InitNo(s) + caller[c].k
  BY ReqRepAssumption DEF LayerInv, TypeOK, CallerStates, Calls, Numbers
<1>2. b \in Bodies /\ b.k = caller[c].k
  BY <1>1, BodyTypes, BodyFacts
<1>3. IsReq(s, n, b)
  BY <1>1, <1>2 DEF IsReq
<1>4. ASSUME NEW x \in Bodies, IsReq(s, n, x) PROVE x = b
  <2>1. x.k \in Int /\ InitNo(s) \in Int /\ caller[c].k \in Int
    BY <1>1, NumbersFit DEF Bodies
  <2> QED
    BY <1>1, <1>4, <2>1 DEF IsReq
<1> QED
  BY <1>1, <1>2, <1>3, <1>4

(* A number with a signal belongs to a request of its own sock, so that no  *)
(* request of the peer has it.                                              *)
LEMMA SignalIsOwn ==
  ASSUME Separated, LayerInv, Numbers, NEW s \in Socks, NEW n \in Nos, netSignals[s][n].st # "none",
         NEW b \in Bodies, IsReq(Peer[s], n, b)
  PROVE  FALSE
<1>1. PICK c \in Callers : InFlight(c, s, n)
  BY DEF LayerInv, SignalsMatchCalls
<1>2. PICK a \in Bodies : IsReq(s, n, a)
  BY <1>1, InFlightIsReq DEF InFlight
<1> QED
  BY <1>2, OneSided DEF LayerInv

(* While a caller was not told that its message was sent, the peer has no   *)
(* handler for it and no pack of it is on a wire.                           *)
LEMMA NotOutYet ==
  ASSUME Separated, LayerInv, ChannelInv, NEW c \in Callers, caller[c].pc # "idle", ~ ToldSent(c)
  PROVE  LET s == Chan[c]
             n == caller[c].no
         IN  /\ \A i \in DOMAIN wire[s] : wire[s][i].no # n
             /\ handler[Peer[s]][n].pc # "none" => ~ IsReq(s, n, handler[Peer[s]][n].body)
<1> DEFINE s == Chan[c]
           n == caller[c].no
           b == Req(s, caller[c].k)
<1>1. /\ s \in Socks /\ n \in Nos /\ b \in Bodies /\ IsReq(s, n, b)
      /\ \A x \in Bodies : IsReq(s, n, x) => x = b
  BY InFlightIsReq DEF ChannelInv
<1>2. ~ Out(b)
  BY <1>1 DEF LayerInv, OutKnown, TypeOK, CallerStates
<1>3. Peer[s] \in Socks /\ Peer[Peer[s]] = s
  BY <1>1, PeerFacts
<1>4. handler[Peer[s]][n].pc # "none" => ~ IsReq(s, n, handler[Peer[s]][n].body)
  <2>1. handler[Peer[s]][n].body \in Bodies
    BY <1>1, <1>3 DEF LayerInv, TypeOK, HandlerStates
  <2> QED
    BY <1>1, <1>2, <1>3, <2>1 DEF Out
<1>5. ASSUME NEW i \in DOMAIN wire[s], wire[s][i].no = n PROVE FALSE
  <2>1. PICK w \in Packs : w = wire[s][i]
    BY <1>1 DEF LayerInv, TypeOK
  <2>2. w.body \in Bodies /\ w.no = n /\ PackOn(s, w)
    BY <1>1, <1>5, <2>1 DEF ChannelInv, Wires, WireOf, Packs
  <2>3. CASE RequestOn(s, w)
    BY <1>1, <1>2, <2>1, <2>2, <2>3 DEF RequestOn, Out
  <2>4. CASE AnswerOn(s, w)
    <3>1. handler[s][n].body \in Bodies /\ IsReq(Peer[s], n, handler[s][n].body)
      BY <1>1, <2>2, <2>4 DEF AnswerOn, LayerInv, TypeOK, HandlerStates
    <3> QED
      BY <1>1, <3>1, OneSided DEF LayerInv, ChannelInv
  <2> QED
    BY <2>2, <2>3, <2>4 DEF PackOn
<1> QED
  BY <1>4, <1>5

(* A wire that loses packs at its end keeps its packs in order. *)
LEMMA WirePrefix ==
  ASSUME NEW t \in Socks, TypeOK, WireOf(t),
         \A i \in DOMAIN wire'[t] : i \in DOMAIN wire[t] /\ wire'[t][i] = wire[t][i],
         \A w \in Packs : PackOn(t, w) /\ (\E i \in DOMAIN wire[t] : w = wire[t][i]) => PackOn(t, w)'
  PROVE  WireOf(t)'
<1>1. ASSUME NEW i \in DOMAIN wire'[t] PROVE PackOn(t, wire[t][i])'
  <2>1. PICK w \in Packs : w = wire[t][i] /\ w = wire'[t][i]
    BY DEF TypeOK
  <2>2. PackOn(t, w)'
    BY <2>1 DEF WireOf
  <2> QED
    BY <2>1, <2>2
<1> QED
  BY <1>1 DEF WireOf

(* The receive loop takes the first pack of a wire. *)
LEMMA WireTail ==
  ASSUME NEW t \in Socks, TypeOK, WireOf(t), wire[t] # << >>, wire'[t] = Tail(wire[t]),
         \A w \in Packs : PackOn(t, w) /\ w.no # Head(wire[t]).no => PackOn(t, w)'
  PROVE  WireOf(t)'
<1>1. /\ 1 \in DOMAIN wire[t] /\ Head(wire[t]) = wire[t][1]
      /\ \A i \in DOMAIN wire'[t] : /\ i + 1 \in DOMAIN wire[t] /\ wire'[t][i] = wire[t][i + 1]
                                    /\ i \in Nat /\ i >= 1
  BY TailAt DEF TypeOK
<1>2. ASSUME NEW i \in DOMAIN wire'[t] PROVE PackOn(t, wire[t][i])'
  <2>1. PICK w \in Packs : w = wire[t][i + 1] /\ w = wire'[t][i]
    BY <1>1 DEF TypeOK
  <2>2. PackOn(t, w) /\ w.no # Head(wire[t]).no
    BY <1>1, <2>1 DEF WireOf
  <2>3. PackOn(t, w)'
    BY <2>2
  <2> QED
    BY <2>1, <2>3
<1>3. ASSUME NEW i \in DOMAIN wire'[t], NEW j \in DOMAIN wire'[t], wire'[t][i].no = wire'[t][j].no
      PROVE  i = j
  <2>1. /\ i + 1 \in DOMAIN wire[t] /\ j + 1 \in DOMAIN wire[t] /\ i \in Nat /\ j \in Nat
        /\ wire[t][i + 1].no = wire[t][j + 1].no
    BY <1>1, <1>3
  <2>2. i + 1 = j + 1
    BY <2>1 DEF WireOf
  <2> QED
    BY <2>1, <2>2
<1> QED
  BY <1>2, <1>3 DEF WireOf

(* A pack with a new number is put on a wire. *)
LEMMA WireAppend ==
  ASSUME NEW t \in Socks, TypeOK, WireOf(t), NEW e \in Packs, wire'[t] = Append(wire[t], e),
         PackOn(t, e)', \A i \in DOMAIN wire[t] : wire[t][i].no # e.no,
         \A w \in Packs : PackOn(t, w) => PackOn(t, w)'
  PROVE  WireOf(t)'
<1>1. wire[t] \in Seq(Packs)
  BY DEF TypeOK
<1>2. PICK l \in Nat : /\ DOMAIN wire[t] = 1 .. l /\ DOMAIN wire'[t] = 1 .. l + 1
                       /\ wire'[t][l + 1] = e
                       /\ \A i \in 1 .. l : wire'[t][i] = wire[t][i]
  <2>1. /\ Len(wire[t]) \in Nat /\ DOMAIN wire[t] = 1 .. Len(wire[t])
        /\ DOMAIN Append(wire[t], e) = 1 .. Len(wire[t]) + 1
        /\ Append(wire[t], e)[Len(wire[t]) + 1] = e
        /\ \A i \in DOMAIN wire[t] : Append(wire[t], e)[i] = wire[t][i]
    BY <1>1, AppendAt
  <2> QED
    BY <2>1
<1>3. ASSUME NEW i \in 1 .. l PROVE PackOn(t, wire[t][i])'
  <2>1. PICK w \in Packs : w = wire[t][i] /\ w = wire'[t][i]
    BY <1>1, <1>2
  <2>2. PackOn(t, w)'
    BY <1>2, <2>1 DEF WireOf
  <2> QED
    BY <2>1, <2>2
<1>4. PackOn(t, wire[t][l + 1])'
  BY <1>2
<1>5. \A i \in 1 .. l + 1 : i \in 1 .. l \/ i = l + 1
  BY <1>2
<1>6. \A i, j \in 1 .. l + 1 : wire'[t][i].no = wire'[t][j].no => i = j
  BY <1>2, <1>5 DEF WireOf
<1> QED
  BY <1>2, <1>3, <1>4, <1>5, <1>6 DEF WireOf

(* Requests stay requests: a sock only ever issues more. *)
LEMMA IsReqKept ==
  ASSUME TypeOK, TypeOK', \A t \in Socks : issued'[t] >= issued[t]
  PROVE  \A s \in Socks, n \in Nos, b \in Bodies : IsReq(s, n, b) => IsReq(s, n, b)'
BY DEF IsReq, TypeOK, Bodies

(* A step that makes no pack and no handler, uses no signal and may take    *)
(* links down or packs away keeps what ties the ends together.              *)
LEMMA ChannelKept ==
  ASSUME TypeOK, TypeOK', Wires, Ends, UNCHANGED handler,
         \A t \in Socks : /\ issued'[t] >= issued[t]
                          /\ link'[t] = link[t] \/ link'[t] = "down"
                          /\ \A i \in DOMAIN wire'[t] : i \in DOMAIN wire[t] /\ wire'[t][i] = wire[t][i],
         \A t \in Socks, m \in Nos :
           /\ netSignals[t][m].st = "armed" => netSignals'[t][m].st = "armed"
           /\ netSignals'[t][m].st = "sent" => netSignals'[t][m] = netSignals[t][m]
  PROVE  Wires' /\ Ends'
<1>1. \A s \in Socks, n \in Nos, b \in Bodies : IsReq(s, n, b) => IsReq(s, n, b)'
  BY IsReqKept
<1>2. \A s \in Socks, n \in Nos : Peer[s] \in Socks /\ handler[s][n].body \in Bodies
  BY PeerFacts DEF TypeOK, HandlerStates
<1>3. ASSUME NEW t \in Socks, NEW w \in Packs, PackOn(t, w) PROVE PackOn(t, w)'
  <2>1. w.no \in Nos /\ w.body \in Bodies
    BY DEF Packs
  <2>2. CASE RequestOn(t, w)
    BY <1>1, <1>2, <2>1, <2>2 DEF RequestOn, PackOn
  <2>3. CASE AnswerOn(t, w)
    BY <1>1, <1>2, <2>1, <2>3 DEF AnswerOn, PackOn
  <2> QED
    BY <1>3, <2>2, <2>3 DEF PackOn
<1>4. Wires'
  BY <1>3, WirePrefix DEF Wires
<1>5. ASSUME NEW s \in Socks, NEW n \in Nos PROVE HandlerOf(s, n)' /\ ReplyOf(s, n)'
  <2>1. HandlerOf(s, n) /\ ReplyOf(s, n)
    BY DEF Ends
  <2>2. HandlerOf(s, n)'
    BY <1>1, <1>2, <2>1 DEF HandlerOf
  <2>3. ReplyOf(s, n)'
    BY <1>1, <1>2, <2>1 DEF ReplyOf
  <2> QED
    BY <2>2, <2>3
<1> QED
  BY <1>4, <1>5 DEF Ends

(* A step of no caller that may take links down keeps the numbers. *)
LEMMA NumbersKept ==
  ASSUME Numbers, ReturnedOwn, UNCHANGED << reqNo, issued, caller >>,
         \A t \in Socks : /\ link'[t] = link[t] \/ link'[t] = "down"
                          /\ link'[t] = link'[Peer[t]]
  PROVE  Numbers' /\ ReturnedOwn'
<1>1. Numbers'
  BY DEF Numbers
<1>2. \A c \in Callers : Chan[c] \in Socks
  BY ReqRepAssumption
<1> QED
  BY <1>1, <1>2 DEF ReturnedOwn

(* A failed assert takes the links of its process down at both ends. *)
LEMMA AbortLinks ==
  ASSUME NEW p \in Procs, NEW a, Numbers, Abort(p, a)
  PROVE  \A t \in Socks : /\ link'[t] = link[t] \/ link'[t] = "down"
                          /\ link'[t] = link'[Peer[t]]
BY PeerFacts DEF Abort, Numbers

(* A call gets a number nobody has: its assert holds. *)
LEMMA NumberIsFree ==
  ASSUME Separated, LayerInv, ChannelInv, NEW c \in Callers, issued[Chan[c]] < MaxReq
  PROVE  CanReqRep(Chan[c], NewReq(Chan[c]))
<1> DEFINE s == Chan[c]
<1>1. s \in Socks /\ NewReq(s) = InitNo(s) + issued[s] + 1 /\ NewReq(s) \in Nos
  <2>1. s \in Socks /\ TypeOK /\ Numbers /\ reqNo[s] \in Nos
    BY ReqRepAssumption DEF LayerInv, ChannelInv, TypeOK
  <2> QED
    BY <2>1, NewReqNext, NumberTypes
<1>2. ASSUME NEW d \in Callers, InFlight(d, s, NewReq(s)) PROVE FALSE
  <2>1. caller[d].k \in Int /\ issued[s] \in Int /\ InitNo(s) \in Int /\ MaxReq \in Nat
    BY <1>1, ReqRepAssumption, NumbersFit DEF LayerInv, TypeOK, CallerStates
  <2>2. caller[d].no = InitNo(s) + caller[d].k /\ caller[d].k <= issued[s]
    BY <1>2 DEF InFlight, ChannelInv, Numbers, LayerInv, Calls
  <2> QED
    BY <1>1, <1>2, <2>1, <2>2 DEF InFlight
<1> QED
  BY <1>1, <1>2 DEF CanReqRep, LayerInv, SignalsMatchCalls

LEMMA ReqrepChannel ==
  ASSUME Separated, LayerInv, ChannelInv, NEW c \in Callers, Reqrep(c)
  PROVE  ChannelInv' /\ UNCHANGED << link, aborted >>
<1> USE DEF ChannelInv
<1>1. PICK s \in Socks, n \in Nos : s = Chan[c] /\ n = NewReq(s)
  BY ReqrepDoes DEF LayerInv
<1>2. /\ issued[s] < MaxReq /\ issued[s] \in Nat
      /\ \A t \in Socks : /\ issued'[t] = IF t = s THEN issued[s] + 1 ELSE issued[t]
                          /\ reqNo'[t] = IF t = s THEN n ELSE reqNo[t]
      /\ \A d \in Callers : d # c => caller'[d] = caller[d]
      /\ UNCHANGED << handler, wire >>
  BY <1>1, ReqrepDoes DEF LayerInv
<1>3. /\ caller'[c].pc = "enq" /\ caller'[c].no = n /\ caller'[c].k = issued[s] + 1
      /\ caller'[c].ret = NoBody
      /\ \A t \in Socks, m \in Nos :
           netSignals'[t][m] = IF t = s /\ m = n THEN Armed ELSE netSignals[t][m]
      /\ UNCHANGED << link, aborted >>
  BY <1>1, <1>2, ReqrepDoes, NumberIsFree DEF LayerInv
<1>4. n = InitNo(s) + issued[s] + 1
  BY <1>1, <1>2, NewReqNext DEF LayerInv
<1>5. TypeOK' /\ TypeOK
  BY ReqrepType DEF LayerInv
<1>6. Numbers'
  <2>1. InitNo(s) \in Nat
    BY NumberTypes DEF Nos
  <2>2. \A t \in Socks : issued[t] \in Int
    BY <1>5 DEF TypeOK
  <2>3. \A t \in Socks : reqNo'[t] = InitNo(t) + issued'[t]
    BY <1>2, <1>4, <2>1, <2>2 DEF Numbers
  <2>4. \A t \in Socks : issued'[t] > 0 => \E d \in Callers : Chan[d] = t
    BY <1>1, <1>2, <2>2 DEF Numbers
  <2>5. \A d \in Callers : caller'[d].pc # "idle" => caller'[d].no = InitNo(Chan[d]) + caller'[d].k
    BY <1>1, <1>2, <1>3, <1>4, <2>1 DEF Numbers
  <2> QED
    BY <1>3, <2>3, <2>4, <2>5 DEF Numbers
<1>7. Wires' /\ Ends'
  <2>1. Armed.st = "armed"
    BY DEF Armed
  <2>2. \A t \in Socks : issued[t] \in Int
    BY <1>5 DEF TypeOK
  <2>3. \A t \in Socks : issued'[t] >= issued[t]
    BY <1>2, <2>2
  <2> QED
    BY <1>2, <1>3, <1>5, <2>1, <2>3, ChannelKept
<1>8. ReturnedOwn'
  BY <1>2, <1>3 DEF ReturnedOwn
<1> QED
  BY <1>3, <1>6, <1>7, <1>8

(* A caller whose send failed was not told that it went well. *)
LEMMA FailedNotTold ==
  ASSUME LayerInv, NEW c \in Callers, caller[c].pc = "waitSend",
         sendSignals[Chan[c]][caller[c].no] = "failed"
  PROVE  ~ ToldSent(c)
<1>1. Chan[c] \in Socks /\ Home[Chan[c]] \in Procs
  BY ReqRepAssumption
<1>2. ASSUME OnItsWay(c) PROVE FALSE
  <2>1. sendSignals[Chan[c]][caller[c].no] = "armed"
    BY <1>1, <1>2 DEF OnItsWay, LayerInv, Queued, QueuedAt, OwnedBy
  <2> QED
    BY <2>1
<1> QED
  BY <1>2 DEF ToldSent

(* The end of a call erases a signal that no pack and no handler needs. *)
LEMMA CallerChannel ==
  ASSUME Separated, LayerInv, ChannelInv, NEW c \in Callers, CallerStep(c)
  PROVE  ChannelInv' /\ UNCHANGED << link, aborted >>
<1> USE DEF ChannelInv
<1>1. PICK s \in Socks, n \in Nos : s = Chan[c] /\ n = caller[c].no
  BY CallerDoes DEF LayerInv
<1>2. /\ \A d \in Callers : d # c => caller'[d] = caller[d]
      /\ caller'[c].no = n /\ caller'[c].k = caller[c].k
      /\ UNCHANGED << reqNo, issued, handler, wire, link, aborted >>
  BY <1>1, CallerDoes DEF LayerInv
<1>3. \/ /\ caller[c].pc # "idle" /\ caller'[c].ret = caller[c].ret /\ UNCHANGED netSignals
      \/ /\ \/ /\ caller[c].pc = "waitSend" /\ sendSignals[s][n] = "failed"
               /\ caller'[c].ret = caller[c].ret
            \/ /\ caller[c].pc = "waitRep" /\ netSignals[s][n].st = "sent"
               /\ caller'[c].ret = netSignals[s][n].msg
         /\ \A t \in Socks, m \in Nos :
              netSignals'[t][m] = IF t = s /\ m = n THEN NoSignal ELSE netSignals[t][m]
  BY <1>1, CallerDoes DEF LayerInv
<1>4. TypeOK /\ TypeOK'
  BY CallerStepType DEF LayerInv
<1>5. Numbers'
  <2>1. caller[c].pc # "idle"
    BY <1>3
  <2> QED
    BY <1>1, <1>2, <2>1 DEF Numbers
<1>6. CASE caller'[c].ret = caller[c].ret /\ UNCHANGED netSignals
  <2>1. Wires' /\ Ends'
    <3>1. \A t \in Socks : issued'[t] >= issued[t]
      BY <1>2, <1>4 DEF TypeOK
    <3> QED
      BY <1>2, <1>4, <1>6, <3>1, ChannelKept
  <2>2. ReturnedOwn'
    BY <1>2, <1>6 DEF ReturnedOwn
  <2> QED
    BY <1>2, <1>5, <2>1, <2>2
<1>7. CASE /\ \/ /\ caller[c].pc = "waitSend" /\ sendSignals[s][n] = "failed"
                 /\ caller'[c].ret = caller[c].ret
              \/ /\ caller[c].pc = "waitRep" /\ netSignals[s][n].st = "sent"
                 /\ caller'[c].ret = netSignals[s][n].msg
           /\ \A t \in Socks, m \in Nos :
                netSignals'[t][m] = IF t = s /\ m = n THEN NoSignal ELSE netSignals[t][m]
  <2>1. Peer[s] \in Socks /\ Peer[Peer[s]] = s /\ Peer[s] # s /\ Home[s] \in Procs
    BY PeerFacts
  <2>2. ASSUME netSignals[s][n].st # "sent"
        PROVE  /\ \A i \in DOMAIN wire[s] : wire[s][i].no # n
               /\ handler[Peer[s]][n].pc # "none" => ~ IsReq(s, n, handler[Peer[s]][n].body)
    <3>1. caller[c].pc = "waitSend" /\ sendSignals[s][n] = "failed"
      BY <1>7, <2>2
    <3>2. ~ ToldSent(c) /\ caller[c].pc # "idle"
      BY <1>1, <3>1, FailedNotTold
    <3> QED
      BY <1>1, <3>2, NotOutYet
  <2>3. \A t \in Socks, m \in Nos, b \in Bodies : IsReq(t, m, b)' <=> IsReq(t, m, b)
    BY <1>2 DEF IsReq
  <2>4. \A t \in Socks, m \in Nos : Peer[t] \in Socks /\ Peer[Peer[t]] = t /\ handler[t][m].body \in Bodies
    BY <1>4, PeerFacts DEF TypeOK, HandlerStates
  <2>5. NoSignal.st = "none"
    BY DEF NoSignal
  <2>6. ASSUME NEW t \in Socks, NEW w \in Packs, PackOn(t, w), NEW i \in DOMAIN wire[t], w = wire[t][i]
        PROVE  PackOn(t, w)'
    <3>1. w.no \in Nos /\ w.body \in Bodies
      BY DEF Packs
    <3>2. CASE RequestOn(t, w)
      <4>1. ~ (t = s /\ w.no = n) \/ link[t] # "up"
        BY <2>2, <2>6, <3>2 DEF RequestOn
      <4>2. link'[t] = "up" => netSignals'[t][w.no].st = "armed"
        BY <1>2, <1>7, <3>1, <3>2, <4>1 DEF RequestOn
      <4> QED
        BY <1>2, <2>3, <3>1, <3>2, <4>2 DEF RequestOn, PackOn
    <3>3. CASE AnswerOn(t, w)
      <4>1. ~ (Peer[t] = s /\ w.no = n)
        BY <2>2, <2>4, <3>3 DEF AnswerOn
      <4>2. netSignals'[Peer[t]][w.no].st = "armed"
        BY <1>7, <2>4, <3>1, <3>3, <4>1 DEF AnswerOn
      <4> QED
        BY <1>2, <2>3, <2>4, <3>1, <3>3, <4>2 DEF AnswerOn, PackOn
    <3> QED
      BY <2>6, <3>2, <3>3 DEF PackOn
  <2>7. Wires'
    BY <1>2, <1>4, <2>6, WirePrefix DEF Wires
  <2>8. ASSUME NEW t \in Socks, NEW m \in Nos PROVE HandlerOf(t, m)' /\ ReplyOf(t, m)'
    <3>1. HandlerOf(t, m) /\ ReplyOf(t, m)
      BY DEF Ends
    <3>2. HandlerOf(t, m)'
      <4>1. CASE Peer[t] = s /\ m = n
        BY <1>2, <2>2, <2>3, <2>4, <3>1, <4>1 DEF HandlerOf
      <4>2. CASE ~ (Peer[t] = s /\ m = n)
        <5>1. netSignals'[Peer[t]][m] = netSignals[Peer[t]][m]
          BY <1>7, <2>4, <4>2
        <5> QED
          BY <1>2, <2>3, <2>4, <3>1, <5>1 DEF HandlerOf
      <4> QED
        BY <4>1, <4>2
    <3>3. ReplyOf(t, m)'
      BY <1>2, <1>7, <2>3, <2>4, <2>5, <3>1 DEF ReplyOf
    <3> QED
      BY <3>2, <3>3
  <2>9. ReturnedOwn'
    <3>1. CASE caller'[c].ret = caller[c].ret
      BY <1>2, <3>1 DEF ReturnedOwn
    <3>2. CASE caller[c].pc = "waitRep" /\ netSignals[s][n].st = "sent" /\ caller'[c].ret = netSignals[s][n].msg
      <4>1. \A x \in Bodies : IsReq(s, n, x) => x = Req(s, caller[c].k)
        BY <1>1, <3>2, InFlightIsReq
      <4>2. \/ netSignals[s][n].msg = Junk /\ link[s] = "down"
            \/ netSignals[s][n].msg = Answer(Req(s, caller[c].k))
        BY <2>4, <3>2, <4>1 DEF Ends, ReplyOf
      <4> QED
        BY <1>1, <1>2, <3>2, <4>2 DEF ReturnedOwn
    <3> QED
      BY <1>7, <3>1, <3>2
  <2> QED
    BY <1>2, <1>5, <2>7, <2>8, <2>9 DEF Ends
<1> QED
  BY <1>3, <1>6, <1>7

(* A request is put on the wire once, while its caller waits. *)
LEMMA SenderChannel ==
  ASSUME Separated, LayerInv, ChannelInv, NEW p \in Procs, RouterStep(p)
  PROVE  ChannelInv' /\ UNCHANGED << link, aborted >>
<1> USE DEF ChannelInv
<1>1. PICK m \in Msgs : m = router1[p].msg
  BY DEF LayerInv, TypeOK, SenderStates
<1>2. /\ UNCHANGED << reqNo, issued, caller, netSignals, handler, link, aborted >>
      /\ \/ UNCHANGED wire
         \/ /\ router1[p].pc = "send" /\ link[m.sock] = "up"
            /\ wire' = [wire EXCEPT ![m.sock] = Append(@, [no |-> m.no, body |-> m.body])]
  BY <1>1, SenderDoes DEF LayerInv
<1>3. TypeOK /\ TypeOK'
  BY RouterStepType DEF LayerInv
<1>4. Numbers' /\ ReturnedOwn'
  BY <1>2, NumbersKept DEF Numbers
<1>5. \A t \in Socks : issued'[t] >= issued[t]
  BY <1>2, <1>3 DEF TypeOK
<1>6. CASE UNCHANGED wire
  BY <1>2, <1>3, <1>4, <1>5, <1>6, ChannelKept
<1>7. CASE /\ router1[p].pc = "send" /\ link[m.sock] = "up"
           /\ wire' = [wire EXCEPT ![m.sock] = Append(@, [no |-> m.no, body |-> m.body])]
  <2>1. PICK c \in Callers : OwnedBy(m, c) /\ Home[m.sock] = p
    BY <1>1, <1>7 DEF LayerInv, Queued, QueuedAt
  <2>2. PICK s \in Socks, n \in Nos, b \in Bodies :
          /\ s = m.sock /\ n = m.no /\ b = m.body /\ s = Chan[c] /\ n = caller[c].no
          /\ b = Req(s, caller[c].k) /\ sendSignals[s][n] = "armed" /\ caller[c].pc = "waitSend"
    BY <2>1 DEF OwnedBy, Msgs
  <2>3. PICK e \in Packs : e = [no |-> n, body |-> b]
    BY DEF Packs
  <2>4. e.no = n /\ e.body = b
    BY <2>3
  <2>5. Peer[s] \in Socks /\ Peer[Peer[s]] = s /\ link[Peer[s]] = "up" /\ link[s] = "up"
    BY <1>7, <2>2, PeerFacts DEF Numbers
  <2>6. ~ ToldSent(c)
    BY <1>7, <2>1, <2>2 DEF ToldSent, OnItsWay
  <2>7. /\ \A i \in DOMAIN wire[s] : wire[s][i].no # n
        /\ handler[Peer[s]][n].pc # "none" => ~ IsReq(s, n, handler[Peer[s]][n].body)
        /\ IsReq(s, n, b)
    BY <2>2, <2>6, NotOutYet, InFlightIsReq
  <2>8. handler[Peer[s]][n].pc = "none"
    <3>1. HandlerOf(Peer[s], n)
      BY <2>5 DEF Ends
    <3> QED
      BY <2>5, <2>7, <3>1 DEF HandlerOf
  <2>9. netSignals[s][n].st = "armed"
    <3>1. netSignals[s][n].st # "none" /\ netSignals[s][n].st \in {"none", "armed", "sent"}
      BY <2>2 DEF LayerInv, TypeOK, RepSignals, SignalsMatchCalls, InFlight
    <3>2. ReplyOf(s, n)
      BY DEF Ends
    <3> QED
      BY <2>5, <2>8, <3>1, <3>2 DEF ReplyOf
  <2>10. RequestOn(s, e)
    BY <2>4, <2>7, <2>8, <2>9 DEF RequestOn
  <2>11. \A t \in Socks, w \in Packs : PackOn(t, w) => PackOn(t, w)'
    BY <1>2 DEF PackOn, RequestOn, AnswerOn, IsReq
  <2>12. ASSUME NEW t \in Socks PROVE WireOf(t)'
    <3>1. WireOf(t)
      BY DEF Wires
    <3>2. CASE t = s
      <4>1. wire'[t] = Append(wire[t], e)
        BY <1>3, <1>7, <2>2, <2>3, <3>2 DEF TypeOK
      <4>2. PackOn(t, e)'
        BY <2>10, <2>11, <3>2 DEF PackOn
      <4> QED
        BY <1>3, <2>4, <2>7, <2>11, <3>1, <3>2, <4>1, <4>2, WireAppend
    <3>3. CASE t # s
      <4>1. wire'[t] = wire[t]
        BY <1>3, <1>7, <2>2, <3>3 DEF TypeOK
      <4> QED
        BY <1>3, <2>11, <3>1, <4>1, WirePrefix
    <3> QED
      BY <3>2, <3>3
  <2>13. Ends'
    BY <1>2 DEF Ends, HandlerOf, ReplyOf, IsReq
  <2> QED
    BY <1>2, <1>4, <2>12, <2>13 DEF Wires
<1> QED
  BY <1>2, <1>6, <1>7

(* A step that touches nothing of the channels. *)
LEMMA ChannelSame ==
  ASSUME ChannelInv, UNCHANGED << reqNo, issued, caller, netSignals, handler, wire, link >>
  PROVE  ChannelInv'
<1>1. Numbers' /\ ReturnedOwn'
  BY DEF ChannelInv, Numbers, ReturnedOwn
<1>2. Wires'
  <2>1. \A s, w : RequestOn(s, w) => RequestOn(s, w)'
    BY DEF RequestOn, IsReq
  <2>2. \A s, w : AnswerOn(s, w) => AnswerOn(s, w)'
    BY DEF AnswerOn, IsReq
  <2> QED
    BY <2>1, <2>2 DEF ChannelInv, Wires, WireOf, PackOn
<1>3. Ends'
  BY DEF ChannelInv, Ends, HandlerOf, ReplyOf, IsReq
<1> QED
  BY <1>1, <1>2, <1>3 DEF ChannelInv

(* Router coroutine 2 touches nothing of the channel. *)
LEMMA DispatcherChannel ==
  ASSUME LayerInv, ChannelInv, NEW p \in Procs, DispatchStep(p) \/ DealerThrows(p)
  PROVE  ChannelInv' /\ UNCHANGED << link, aborted >>
<1>1. UNCHANGED << reqNo, issued, caller, netSignals, handler, wire, link, aborted >>
  BY DispatcherDoes DEF LayerInv
<1> QED
  BY <1>1, ChannelSame

(* The loss of a connection takes both ends down. *)
LEMMA BreakChannel ==
  ASSUME LayerInv, ChannelInv, NEW s \in Socks, Break(s)
  PROVE  ChannelInv' /\ UNCHANGED aborted
<1> USE DEF ChannelInv
<1>1. /\ UNCHANGED << reqNo, issued, caller, netSignals, handler, aborted >>
      /\ \A t \in Socks : /\ link'[t] = IF t \in {s, Peer[s]} THEN "down" ELSE link[t]
                          /\ \A i \in DOMAIN wire'[t] : i \in DOMAIN wire[t] /\ wire'[t][i] = wire[t][i]
  BY BreakDoes DEF LayerInv
<1>2. TypeOK /\ TypeOK'
  BY SockStepType DEF LayerInv
<1>3. \A t \in Socks : issued'[t] >= issued[t]
  BY <1>1, <1>2 DEF TypeOK
<1>4. \A t \in Socks : link'[t] = link[t] \/ link'[t] = "down"
  BY <1>1
<1>5. \A t \in Socks : link'[t] = link'[Peer[t]]
  BY <1>1, PeerFacts DEF Numbers
<1>6. Numbers' /\ ReturnedOwn'
  BY <1>1, <1>4, <1>5, NumbersKept
<1>7. Wires' /\ Ends'
  BY <1>1, <1>2, <1>3, <1>4, ChannelKept
<1> QED
  BY <1>1, <1>6, <1>7

(* A handler answers a request whose caller still waits. *)
LEMMA HandlerChannel ==
  ASSUME Separated, LayerInv, ChannelInv, NEW s \in Socks, NEW n \in Nos, HandlerStep(s, n)
  PROVE  ChannelInv' /\ UNCHANGED << link, aborted >>
<1> USE DEF ChannelInv
<1>1. /\ \A t \in Socks, m \in Nos :
           /\ handler'[t][m].body = handler[t][m].body
           /\ ~ (t = s /\ m = n) => handler'[t][m] = handler[t][m]
      /\ UNCHANGED << reqNo, issued, caller, netSignals, link, aborted >>
      /\ \/ handler[s][n].pc = "enq" /\ handler'[s][n].pc = "wait" /\ UNCHANGED wire
         \/ /\ handler[s][n].pc = "wait" /\ handler'[s][n].pc = "done"
            /\ appSignals[s][n].st = "sent"
            /\ \/ /\ link[s] = "up"
                  /\ wire' = [wire EXCEPT ![s] = Append(@, [no |-> n, body |-> appSignals[s][n].msg])]
               \/ link[s] # "up" /\ UNCHANGED wire
  BY HandlerDoes DEF LayerInv
<1>2. TypeOK /\ TypeOK'
  BY HandlerStepType DEF LayerInv
<1>3. Numbers' /\ ReturnedOwn'
  BY <1>1, NumbersKept DEF Numbers
<1>4. \A t \in Socks, m \in Nos : /\ Peer[t] \in Socks /\ handler[t][m].body \in Bodies
                                  /\ Peer[Peer[t]] = t
  BY <1>2, PeerFacts DEF TypeOK, HandlerStates
<1>5. \A t \in Socks, m \in Nos, b \in Bodies : IsReq(t, m, b)' <=> IsReq(t, m, b)
  BY <1>1 DEF IsReq
<1>6. handler[s][n].pc \in {"enq", "wait"} /\ handler'[s][n].pc \in {"wait", "done"}
  BY <1>1
<1>7. \A t \in Socks, m \in Nos :
        /\ handler[t][m].pc = "none" <=> handler'[t][m].pc = "none"
        /\ handler[t][m].pc = "done" => handler'[t][m].pc = "done"
  BY <1>1, <1>6
<1>8. \A t \in Socks, w \in Packs : PackOn(t, w) => PackOn(t, w)'
  <2> SUFFICES ASSUME NEW t \in Socks, NEW w \in Packs, PackOn(t, w) PROVE PackOn(t, w)'
    OBVIOUS
  <2>1. w.no \in Nos /\ w.body \in Bodies
    BY DEF Packs
  <2>2. CASE RequestOn(t, w)
    BY <1>1, <1>4, <1>5, <1>7, <2>1, <2>2 DEF RequestOn, PackOn
  <2>3. CASE AnswerOn(t, w)
    BY <1>1, <1>4, <1>5, <1>7, <2>1, <2>3 DEF AnswerOn, PackOn
  <2> QED
    BY <2>2, <2>3 DEF PackOn
<1>9. Ends'
  <2> SUFFICES ASSUME NEW t \in Socks, NEW m \in Nos PROVE HandlerOf(t, m)' /\ ReplyOf(t, m)'
    BY DEF Ends
  <2>1. HandlerOf(t, m) /\ ReplyOf(t, m)
    BY DEF Ends
  <2>2. HandlerOf(t, m)'
    BY <1>1, <1>4, <1>5, <1>7, <2>1 DEF HandlerOf
  <2>3. ReplyOf(t, m)'
    BY <1>1, <1>4, <1>5, <1>7, <2>1 DEF ReplyOf
  <2> QED
    BY <2>2, <2>3
<1>10. CASE UNCHANGED wire
  <2>1. Wires'
    BY <1>2, <1>8, <1>10, WirePrefix DEF Wires
  <2> QED
    BY <1>1, <1>3, <1>9, <2>1
<1>11. CASE /\ handler[s][n].pc = "wait" /\ handler'[s][n].pc = "done"
            /\ appSignals[s][n].st = "sent" /\ link[s] = "up"
            /\ wire' = [wire EXCEPT ![s] = Append(@, [no |-> n, body |-> appSignals[s][n].msg])]
  <2>1. PICK b \in Bodies : b = handler[s][n].body
    BY <1>4
  <2>2. appSignals[s][n].msg = Answer(b) /\ Answer(b) \in Bodies
    BY <1>11, <2>1, BodyTypes DEF LayerInv, Handlers, HandlerAt
  <2>3. PICK e \in Packs : e = [no |-> n, body |-> appSignals[s][n].msg]
    BY <2>2 DEF Packs
  <2>4. e.no = n /\ e.body = Answer(b)
    BY <2>2, <2>3
  <2>5. IsReq(Peer[s], n, b) /\ netSignals[Peer[s]][n].st = "armed"
    BY <1>11, <2>1 DEF Ends, HandlerOf
  <2>6. PackOn(s, e)'
    <3>1. handler'[s][n].body = b
      BY <1>1, <2>1
    <3>2. IsReq(Peer[s], n, b)'
      BY <1>4, <1>5, <2>5
    <3> QED
      BY <1>1, <1>11, <2>4, <2>5, <3>1, <3>2 DEF PackOn, AnswerOn
  <2>7. ASSUME NEW i \in DOMAIN wire[s], wire[s][i].no = n PROVE FALSE
    <3>1. PICK w \in Packs : w = wire[s][i]
      BY <1>2 DEF TypeOK
    <3>2. PackOn(s, w) /\ w.no = n /\ w.body \in Bodies
      BY <2>7, <3>1 DEF Wires, WireOf, Packs
    <3>3. CASE RequestOn(s, w)
      BY <1>2, <2>5, <3>2, <3>3, OneSided DEF RequestOn
    <3>4. CASE AnswerOn(s, w)
      BY <1>11, <3>2, <3>4 DEF AnswerOn
    <3> QED
      BY <3>2, <3>3, <3>4 DEF PackOn
  <2>8. ASSUME NEW t \in Socks PROVE WireOf(t)'
    <3>1. WireOf(t)
      BY DEF Wires
    <3>2. CASE t = s
      <4>1. wire'[t] = Append(wire[t], e)
        BY <1>2, <1>11, <2>3, <3>2 DEF TypeOK
      <4> QED
        BY <1>2, <1>8, <2>4, <2>6, <2>7, <3>1, <3>2, <4>1, WireAppend
    <3>3. CASE t # s
      <4>1. wire'[t] = wire[t]
        BY <1>2, <1>11, <3>3 DEF TypeOK
      <4> QED
        BY <1>2, <1>8, <3>1, <4>1, WirePrefix
    <3> QED
      BY <3>2, <3>3
  <2> QED
    BY <1>1, <1>3, <1>9, <2>8 DEF Wires
<1> QED
  BY <1>1, <1>10, <1>11

(* The receive loop gives an answer to its caller and a request to a new    *)
(* handler; only on a lost connection can its assert fail.                  *)
LEMMA ReceiverChannel ==
  ASSUME Separated, LayerInv, ChannelInv, NEW s \in Socks, RecvPack(s) \/ RecvNothing(s)
  PROVE  /\ ChannelInv'
         /\ \/ UNCHANGED << link, aborted >>
            \/ link[s] = "down" /\ \A p \in Procs : p # Home[s] => aborted'[p] = aborted[p]
<1> USE DEF ChannelInv
<1> DEFINE t == Peer[s]
<1>1. PICK n \in Nos, b \in Bodies :
        /\ \/ /\ wire[t] # << >> /\ n = Head(wire[t]).no /\ b = Head(wire[t]).body
              /\ wire' = [wire EXCEPT ![t] = Tail(@)]
           \/ wire[t] = << >> /\ b = Junk /\ link[s] = "down" /\ UNCHANGED wire
        /\ UNCHANGED << reqNo, issued, caller, sendSignals, dataapp, dataio, router1, router2, served >>
        /\ \/ /\ netSignals[s][n].st = "armed"
              /\ \A u \in Socks, m \in Nos :
                   netSignals'[u][m] = IF u = s /\ m = n THEN Sent(b) ELSE netSignals[u][m]
              /\ UNCHANGED << appSignals, handler, link, aborted >>
           \/ /\ netSignals[s][n].st # "armed" /\ appSignals[s][n].st = "none"
              /\ \A u \in Socks, m \in Nos :
                   /\ appSignals'[u][m] = IF u = s /\ m = n THEN Armed ELSE appSignals[u][m]
                   /\ handler'[u][m] = IF u = s /\ m = n THEN [pc |-> "enq", body |-> b]
                                       ELSE handler[u][m]
              /\ UNCHANGED << netSignals, link, aborted >>
           \/ /\ netSignals[s][n].st # "armed" /\ appSignals[s][n].st # "none"
              /\ Abort(Home[s], "recvAppRep != nullptr")
              /\ UNCHANGED << netSignals, appSignals, handler >>
  BY ReceiverDoes DEF LayerInv
<1>2. TypeOK /\ TypeOK'
  BY SockStepType DEF LayerInv
<1>3. \A u \in Socks, m \in Nos : /\ Peer[u] \in Socks /\ Peer[Peer[u]] = u /\ Peer[u] # u
                                  /\ handler[u][m].body \in Bodies /\ Home[u] \in Procs
  BY <1>2, PeerFacts DEF TypeOK, HandlerStates
<1>4. \A u \in Socks, m \in Nos, x \in Bodies : IsReq(u, m, x)' <=> IsReq(u, m, x)
  BY <1>1 DEF IsReq
<1>5. handler[s][n].pc = "none" <=> appSignals[s][n].st = "none"
  BY DEF LayerInv, Handlers, HandlerAt
<1>6. link[t] = link[s]
  BY DEF Numbers
<1>7. PICK v : v = [pc |-> "enq", body |-> b] /\ v.pc = "enq" /\ v.body = b
  <2>1. [pc |-> "enq", body |-> b].pc = "enq" /\ [pc |-> "enq", body |-> b].body = b
    OBVIOUS
  <2> QED
    BY <2>1
<1>8. Sent(b).st = "sent" /\ Sent(b).msg = b
  BY DEF Sent
<1> DEFINE PackTaken == \E w \in Packs : w.no = n /\ w.body = b /\ PackOn(t, w)
<1>9. wire[t] # << >> => PackTaken
  <2> SUFFICES ASSUME wire[t] # << >> PROVE PackTaken
    OBVIOUS
  <2>1. wire[t] \in Seq(Packs) /\ WireOf(t) /\ n = Head(wire[t]).no /\ b = Head(wire[t]).body
    BY <1>1, <1>2, <1>3 DEF TypeOK, Wires
  <2>2. 1 \in DOMAIN wire[t] /\ Head(wire[t]) = wire[t][1]
    BY <2>1, TailAt
  <2>3. wire[t][1] \in Packs /\ PackOn(t, wire[t][1])
    BY <2>1, <2>2 DEF WireOf
  <2> QED
    BY <2>1, <2>2, <2>3
(* What is left of the wires once the other packs are known to stay right. *)
<1>10. ASSUME \A u \in Socks, w \in Packs :
               PackOn(u, w) /\ ~ (u = t /\ w.no = n) /\ ~ (u = t /\ wire[t] = << >>) => PackOn(u, w)'
      PROVE  Wires'
  <2> SUFFICES ASSUME NEW u \in Socks PROVE WireOf(u)'
    BY DEF Wires
  <2>1. WireOf(u) /\ wire[u] \in Seq(Packs)
    BY <1>2 DEF Wires, TypeOK
  <2>2. CASE u = t /\ wire[t] # << >>
    <3>1. wire'[u] = Tail(wire[u]) /\ Head(wire[u]).no = n
      BY <1>1, <1>2, <1>3, <2>2 DEF TypeOK
    <3> QED
      BY <1>2, <1>10, <2>1, <2>2, <3>1, WireTail
  <2>3. CASE u = t /\ wire[t] = << >>
    <3>1. wire'[u] = << >> /\ wire[u] = << >>
      BY <1>1, <2>3
    <3>2. DOMAIN wire'[u] = {} /\ DOMAIN wire[u] = {}
      BY <3>1
    <3> QED
      BY <3>2 DEF WireOf
  <2>4. CASE u # t
    <3>1. wire'[u] = wire[u]
      BY <1>1, <1>2, <2>4 DEF TypeOK
    <3> QED
      BY <1>2, <1>10, <2>1, <2>4, <3>1, WirePrefix
  <2> QED
    BY <2>2, <2>3, <2>4
(* The pack is for a caller. *)
<1>11. CASE /\ netSignals[s][n].st = "armed"
            /\ \A u \in Socks, m \in Nos :
                 netSignals'[u][m] = IF u = s /\ m = n THEN Sent(b) ELSE netSignals[u][m]
            /\ UNCHANGED << handler, link, aborted >>
  <2>1. \/ b = Junk /\ link[s] = "down"
        \/ /\ handler[t][n].pc = "done" /\ b = Answer(handler[t][n].body)
           /\ IsReq(s, n, handler[t][n].body)
    <3>1. CASE wire[t] = << >>
      BY <1>1, <3>1
    <3>2. CASE wire[t] # << >>
      <4>1. PICK w \in Packs : w.no = n /\ w.body = b /\ PackOn(t, w)
        BY <1>9, <3>2
      <4>2. ~ RequestOn(t, w)
        BY <1>11, <4>1, SignalIsOwn DEF RequestOn
      <4>3. AnswerOn(t, w)
        BY <4>1, <4>2 DEF PackOn
      <4> QED
        BY <1>3, <4>1, <4>3 DEF AnswerOn
    <3> QED
      BY <3>1, <3>2
  <2>2. Numbers' /\ ReturnedOwn'
    BY <1>1, <1>11, NumbersKept DEF Numbers
  <2>3. ASSUME NEW u \in Socks, NEW w \in Packs, PackOn(u, w), ~ (u = t /\ w.no = n),
               ~ (u = t /\ wire[t] = << >>)
        PROVE  PackOn(u, w)'
    <3>1. w.no \in Nos /\ w.body \in Bodies
      BY DEF Packs
    <3>2. CASE RequestOn(u, w)
      <4>1. ~ (u = s /\ w.no = n) \/ link[u] = "down"
        BY <2>1, <3>2 DEF RequestOn
      <4>2. link'[u] = "up" => netSignals'[u][w.no].st = "armed"
        BY <1>11, <3>1, <3>2, <4>1 DEF RequestOn
      <4> QED
        BY <1>4, <1>11, <3>1, <3>2, <4>2 DEF RequestOn, PackOn
    <3>3. CASE AnswerOn(u, w)
      <4>1. ~ (Peer[u] = s /\ w.no = n)
        BY <1>3, <2>3
      <4>2. netSignals'[Peer[u]][w.no].st = "armed"
        BY <1>3, <1>11, <3>1, <3>3, <4>1 DEF AnswerOn
      <4> QED
        BY <1>3, <1>4, <1>11, <3>1, <3>3, <4>2 DEF AnswerOn, PackOn
    <3> QED
      BY <2>3, <3>2, <3>3 DEF PackOn
  <2>4. ASSUME NEW u \in Socks, NEW m \in Nos PROVE HandlerOf(u, m)' /\ ReplyOf(u, m)'
    <3>1. HandlerOf(u, m) /\ ReplyOf(u, m)
      BY DEF Ends
    <3>2. HandlerOf(u, m)'
      <4>1. CASE Peer[u] = s /\ m = n
        <5>1. u = t
          BY <1>3, <4>1
        <5>2. handler[u][m].pc = "done" \/ link[u] = "down"
          BY <1>6, <2>1, <4>1, <5>1
        <5> QED
          BY <1>3, <1>4, <1>11, <3>1, <5>2 DEF HandlerOf
      <4>2. CASE ~ (Peer[u] = s /\ m = n)
        <5>1. netSignals'[Peer[u]][m] = netSignals[Peer[u]][m]
          BY <1>3, <1>11, <4>2
        <5> QED
          BY <1>3, <1>4, <1>11, <3>1, <5>1 DEF HandlerOf
      <4> QED
        BY <4>1, <4>2
    <3>3. ReplyOf(u, m)'
      <4>1. CASE u = s /\ m = n
        <5>1. netSignals'[u][m].msg = b
          BY <1>8, <1>11, <4>1
        <5> QED
          BY <1>3, <1>4, <1>11, <2>1, <4>1, <5>1 DEF ReplyOf
      <4>2. CASE ~ (u = s /\ m = n)
        <5>1. netSignals'[u][m] = netSignals[u][m]
          BY <1>11, <4>2
        <5> QED
          BY <1>3, <1>4, <1>11, <3>1, <5>1 DEF ReplyOf
      <4> QED
        BY <4>1, <4>2
    <3> QED
      BY <3>2, <3>3
  <2> QED
    BY <1>10, <1>11, <2>2, <2>3, <2>4 DEF Ends
(* The pack starts a handler. *)
<1>12. CASE /\ netSignals[s][n].st # "armed" /\ appSignals[s][n].st = "none"
            /\ \A u \in Socks, m \in Nos :
                 handler'[u][m] = IF u = s /\ m = n THEN [pc |-> "enq", body |-> b] ELSE handler[u][m]
            /\ UNCHANGED << netSignals, link, aborted >>
  <2>1. \/ b = Junk /\ link[s] = "down"
        \/ IsReq(t, n, b) /\ (link[s] = "up" => netSignals[t][n].st = "armed")
    <3>1. CASE wire[t] = << >>
      BY <1>1, <3>1
    <3>2. CASE wire[t] # << >>
      <4>1. PICK w \in Packs : w.no = n /\ w.body = b /\ PackOn(t, w)
        BY <1>9, <3>2
      <4>2. ~ AnswerOn(t, w)
        BY <1>3, <1>12, <4>1 DEF AnswerOn
      <4>3. RequestOn(t, w)
        BY <4>1, <4>2 DEF PackOn
      <4> QED
        BY <1>6, <4>1, <4>3 DEF RequestOn
    <3> QED
      BY <3>1, <3>2
  <2>2. Numbers' /\ ReturnedOwn'
    BY <1>1, <1>12, NumbersKept DEF Numbers
  <2>3. handler[s][n].pc = "none" /\ handler'[s][n].pc = "enq" /\ handler'[s][n].body = b
    BY <1>5, <1>7, <1>12
  <2>4. ASSUME NEW u \in Socks, NEW m \in Nos, handler[u][m].pc # "none" PROVE handler'[u][m] = handler[u][m]
    BY <1>12, <2>3, <2>4
  <2>5. ASSUME NEW u \in Socks, NEW w \in Packs, PackOn(u, w), ~ (u = t /\ w.no = n),
               ~ (u = t /\ wire[t] = << >>)
        PROVE  PackOn(u, w)'
    <3>1. w.no \in Nos /\ w.body \in Bodies
      BY DEF Packs
    <3>2. CASE RequestOn(u, w)
      <4>1. ~ (Peer[u] = s /\ w.no = n)
        BY <1>3, <2>5
      <4>2. handler'[Peer[u]][w.no] = handler[Peer[u]][w.no]
        BY <1>3, <1>12, <3>1, <4>1
      <4> QED
        BY <1>4, <1>12, <3>1, <3>2, <4>2 DEF RequestOn, PackOn
    <3>3. CASE AnswerOn(u, w)
      <4>1. handler'[u][w.no] = handler[u][w.no]
        BY <2>4, <3>1, <3>3 DEF AnswerOn
      <4> QED
        BY <1>3, <1>4, <1>12, <3>1, <3>3, <4>1 DEF AnswerOn, PackOn
    <3> QED
      BY <2>5, <3>2, <3>3 DEF PackOn
  <2>6. ASSUME NEW u \in Socks, NEW m \in Nos PROVE HandlerOf(u, m)' /\ ReplyOf(u, m)'
    <3>1. HandlerOf(u, m) /\ ReplyOf(u, m)
      BY DEF Ends
    <3>2. HandlerOf(u, m)'
      <4>1. CASE u = s /\ m = n
        BY <1>3, <1>4, <1>12, <2>1, <2>3, <4>1 DEF HandlerOf
      <4>2. CASE ~ (u = s /\ m = n)
        <5>1. handler'[u][m] = handler[u][m]
          BY <1>12, <4>2
        <5> QED
          BY <1>3, <1>4, <1>12, <3>1, <5>1 DEF HandlerOf
      <4> QED
        BY <4>1, <4>2
    <3>3. ReplyOf(u, m)'
      <4>1. handler[Peer[u]][m].pc = "done" => handler'[Peer[u]][m] = handler[Peer[u]][m]
        BY <1>3, <2>4
      <4> QED
        BY <1>3, <1>4, <1>12, <3>1, <4>1 DEF ReplyOf
    <3> QED
      BY <3>2, <3>3
  <2> QED
    BY <1>10, <1>12, <2>2, <2>5, <2>6 DEF Ends
(* The assert fails: the pack can be neither a request nor an answer. *)
<1>13. CASE /\ netSignals[s][n].st # "armed" /\ appSignals[s][n].st # "none"
            /\ Abort(Home[s], "recvAppRep != nullptr")
            /\ UNCHANGED << netSignals, handler >>
  <2>1. wire[t] = << >> /\ link[s] = "down" /\ UNCHANGED wire
    <3>1. ASSUME wire[t] # << >> PROVE FALSE
      <4>1. PICK w \in Packs : w.no = n /\ w.body = b /\ PackOn(t, w)
        BY <1>9, <3>1
      <4>2. CASE RequestOn(t, w)
        BY <1>3, <1>5, <1>13, <4>1, <4>2 DEF RequestOn
      <4>3. CASE AnswerOn(t, w)
        BY <1>3, <1>13, <4>1, <4>3 DEF AnswerOn
      <4> QED
        BY <4>1, <4>2, <4>3 DEF PackOn
    <3> QED
      BY <1>1, <3>1
  <2>2. \A u \in Socks : /\ link'[u] = link[u] \/ link'[u] = "down"
                         /\ link'[u] = link'[Peer[u]]
    BY <1>3, <1>13, AbortLinks
  <2>3. Numbers' /\ ReturnedOwn'
    BY <1>1, <2>2, NumbersKept
  <2>4. \A u \in Socks : issued'[u] >= issued[u]
    <3>1. issued' = issued
      BY <1>1
    <3>2. \A u \in Socks : issued[u] \in Int
      BY <1>2 DEF TypeOK
    <3> QED
      BY <3>1, <3>2
  <2>5. Wires' /\ Ends'
    BY <1>2, <1>13, <2>1, <2>2, <2>4, ChannelKept
  <2>6. \A p \in Procs : p # Home[s] => aborted'[p] = aborted[p]
    BY <1>2, <1>13 DEF Abort, TypeOK
  <2> QED
    BY <2>1, <2>3, <2>5, <2>6
<1> QED
  BY <1>1, <1>11, <1>12, <1>13

(* Nothing is under way at first. *)
LEMMA InitChannel == Init => ChannelInv
<1> SUFFICES ASSUME Init PROVE ChannelInv
  OBVIOUS
<1>1. TypeOK
  BY InitTypeOK
<1>2. Numbers
  <2>1. \A s \in Socks : InitNo(s) \in Nat
    BY NumberTypes DEF Nos
  <2> QED
    BY <2>1, PeerFacts DEF Init, Numbers
<1>3. Wires
  BY DEF Init, Wires, WireOf
<1>4. Ends
  BY DEF Init, Ends, HandlerOf, ReplyOf, NoSignal
<1>5. ReturnedOwn
  BY DEF Init, ReturnedOwn
<1> QED
  BY <1>2, <1>3, <1>4, <1>5 DEF ChannelInv

(* Every step keeps it; only on a lost connection does an assert fail. *)
LEMMA StepChannel ==
  ASSUME Separated, LayerInv, ChannelInv, [Next]_vars
  PROVE  /\ ChannelInv'
         /\ \/ UNCHANGED << link, aborted >>
            \/ UNCHANGED aborted /\ Breakable # {}
            \/ \E s \in Socks : /\ link[s] = "down"
                                /\ \A p \in Procs : p # Home[s] => aborted'[p] = aborted[p]
<1>1. CASE UNCHANGED vars
  <2>1. UNCHANGED << reqNo, issued, caller, netSignals, handler, wire, link, aborted >>
    BY <1>1 DEF vars
  <2>2. ChannelInv'
    BY <2>1, ChannelSame
  <2> QED
    BY <2>1, <2>2
<1>2. ASSUME NEW c \in Callers, Reqrep(c) \/ CallerStep(c)
      PROVE  ChannelInv' /\ UNCHANGED << link, aborted >>
  BY <1>2, ReqrepChannel, CallerChannel
<1>3. ASSUME NEW p \in Procs, RouterStep(p) \/ DispatchStep(p) \/ DealerThrows(p)
      PROVE  ChannelInv' /\ UNCHANGED << link, aborted >>
  BY <1>3, SenderChannel, DispatcherChannel
<1>4. ASSUME NEW s \in Socks, RecvPack(s) \/ RecvNothing(s)
      PROVE  /\ ChannelInv'
             /\ \/ UNCHANGED << link, aborted >>
                \/ link[s] = "down" /\ \A p \in Procs : p # Home[s] => aborted'[p] = aborted[p]
  BY <1>4, ReceiverChannel
<1>5. ASSUME NEW s \in Socks, Break(s) PROVE ChannelInv' /\ UNCHANGED aborted /\ Breakable # {}
  BY <1>5, BreakChannel DEF Break
<1>6. ASSUME NEW s \in Socks, NEW n \in Nos, HandlerStep(s, n)
      PROVE  ChannelInv' /\ UNCHANGED << link, aborted >>
  BY <1>6, HandlerChannel
<1> QED
  BY <1>1, <1>2, <1>3, <1>4, <1>5, <1>6 DEF Next, Quiescent

(* Both invariants hold in every reachable state. *)
LEMMA ChannelInvariant ==
  ASSUME Separated
  PROVE  Spec => [](LayerInv /\ ChannelInv)
<1>1. Init => LayerInv /\ ChannelInv
  BY InitLayer, InitChannel
<1>2. LayerInv /\ ChannelInv /\ [Next]_vars => (LayerInv /\ ChannelInv)'
  BY StepLayer, StepChannel
<1> QED
  BY <1>1, <1>2, PTL DEF Spec

(* With connections that may be lost at any time: a reqrep never returns    *)
(* the reply to another call; the one wrong thing it can return is the      *)
(* empty string that recvPack makes of a lost connection.                   *)
THEOREM ReturnsAreOwn ==
  ASSUME Separated
  PROVE  Spec => []ReturnedOwn
<1>1. LayerInv /\ ChannelInv => ReturnedOwn
  BY DEF ChannelInv
<1> QED
  BY <1>1, ChannelInvariant, PTL

(* As long as no sock runs out of its numbers, an assert of the             *)
(* request/reply path fails only in a process that lost a connection.       *)
THEOREM AbortsFollowLoss ==
  ASSUME Separated
  PROVE  Spec => AbortHasCause
<1>1. ASSUME LayerInv, ChannelInv, [Next]_vars
      PROVE  \A p \in Procs : aborted[p] = "no" /\ aborted'[p] # "no"
               => \E s \in Socks : Home[s] = p /\ link[s] = "down"
  BY <1>1, StepChannel
<1>2. LayerInv /\ ChannelInv /\ [Next]_vars =>
        [\A p \in Procs : aborted[p] = "no" /\ aborted'[p] # "no"
           => \E s \in Socks :
                /\ Home[s] = p
                /\ link[s] = "down" \/ \E t \in {s, Peer[s]} : issued'[t] > Supply(t)]_vars
  BY <1>1
<1> QED
  BY <1>2, ChannelInvariant, PTL DEF Spec, AbortHasCause

-----------------------------------------------------------------------------
(* Connections that are never lost. *)
Working == (\A s \in Socks : link[s] = "up") /\ NoAbort

LEMMA WorkingInvariant ==
  ASSUME Separated, Breakable = {}
  PROVE  Spec => [](LayerInv /\ ChannelInv /\ Working)
<1>1. Init => Working
  BY DEF Init, Working, NoAbort
<1>2. LayerInv /\ ChannelInv /\ Working /\ [Next]_vars => Working'
  <2> SUFFICES ASSUME LayerInv, ChannelInv, Working, [Next]_vars PROVE Working'
    OBVIOUS
  <2>1. UNCHANGED << link, aborted >>
    BY StepChannel DEF Working
  <2> QED
    BY <2>1 DEF Working, NoAbort
<1> QED
  BY <1>1, <1>2, ChannelInvariant, PTL DEF Spec

(* On connections that hold, every reply goes to the caller whose request   *)
(* it answers, however many callers share a sock and whichever end calls.   *)
THEOREM RepliesCorrelate ==
  ASSUME Separated, Breakable = {}
  PROVE  Spec => []ReplyCorrelation
<1>1. LayerInv /\ ChannelInv /\ Working => ReplyCorrelation
  <2>1. \A c \in Callers : Chan[c] \in Socks
    BY ReqRepAssumption
  <2> QED
    BY <2>1 DEF ChannelInv, ReturnedOwn, Working, ReplyCorrelation
<1> QED
  BY <1>1, WorkingInvariant, PTL

(* On connections that hold, no assert of the request/reply path fails.     *)
THEOREM AssertsHold ==
  ASSUME Separated, Breakable = {}
  PROVE  Spec => []NoAbort
<1>1. LayerInv /\ ChannelInv /\ Working => NoAbort
  BY DEF Working
<1> QED
  BY <1>1, WorkingInvariant, PTL

-----------------------------------------------------------------------------
(* The abstract call of a caller. *)
PendingOf(c) == IF caller[c].pc = "idle" THEN NoId ELSE << Chan[c], caller[c].k >>
Done == {IdOf(b) : b \in served}

(* What the names of the calls say. *)
LEMMA IdFacts ==
  /\ \A s, k : IdOf(Req(s, k)) = << s, k >>
  /\ \A b \in Bodies : IdOf(Answer(b)) = IdOf(b)
  /\ \A s, k : k # 0 => << s, k >> # NoId
BY DEF IdOf, Req, Answer, Bodies, NoId

(* What was served is a request that has left the queue of its handler. *)
LEMMA ServedIsReq ==
  ASSUME LayerInv, ChannelInv, Working, NEW b \in served
  PROVE  \E s \in Socks, n \in Nos : /\ handler[s][n].pc # "none" /\ handler[s][n].body = b
                                     /\ PastQueue(s, n) /\ IsReq(Peer[s], n, b)
<1>1. PICK s \in Socks, n \in Nos : handler[s][n].body = b /\ PastQueue(s, n)
  BY DEF LayerInv, ServedBy
<1>2. handler[s][n].pc # "none" /\ link[s] = "up"
  BY <1>1 DEF PastQueue, Working
<1>3. HandlerOf(s, n)
  BY DEF ChannelInv, Ends
<1>4. IsReq(Peer[s], n, b)
  BY <1>1, <1>2, <1>3 DEF HandlerOf
<1> QED
  BY <1>1, <1>2, <1>4

(* A call that was served was sent, and its number was issued. *)
LEMMA DoneIsOut ==
  ASSUME LayerInv, ChannelInv, Working, NEW s \in Socks, NEW k \in Int, << s, k >> \in Done
  PROVE  k \in 0 .. MaxReq /\ k <= issued[s] /\ Req(s, k) \in served /\ Out(Req(s, k))
<1>1. PICK b \in served : IdOf(b) = << s, k >>
  BY DEF Done
<1>2. PICK t \in Socks, n \in Nos : /\ handler[t][n].pc # "none" /\ handler[t][n].body = b
                                    /\ IsReq(Peer[t], n, b)
  BY ServedIsReq
<1>3. b \in Bodies /\ b = Req(Peer[t], b.k)
  BY <1>2 DEF IsReq, LayerInv, TypeOK
<1>4. b.sock = s /\ b.k = k
  BY <1>1 DEF IdOf
<1>5. b = Req(s, k) /\ Peer[t] = s
  BY <1>3, <1>4, BodyFacts
<1>6. k \in 0 .. MaxReq /\ k <= issued[s]
  BY <1>2, <1>3, <1>4, <1>5 DEF IsReq, Bodies
<1> QED
  BY <1>2, <1>5, <1>6 DEF Out

(* A step of no caller. *)
LEMMA CallersStay ==
  ASSUME UNCHANGED caller
  PROVE  \A c \in Callers : PendingOf(c)' = PendingOf(c) /\ ResultOf(c)' = ResultOf(c)
BY DEF PendingOf, ResultOf

(* reqrep is Call. *)
LEMMA ReqrepIsCall ==
  ASSUME Separated, LayerInv, ChannelInv, Working, NEW c \in Callers, Reqrep(c)
  PROVE  \E id \in {<< Chan[c], k >> : k \in 1 .. MaxReq} :
           /\ PendingOf(c) = NoId /\ id \notin Done /\ \A d \in Callers : PendingOf(d) # id
           /\ PendingOf(c)' = id /\ ResultOf(c)' = NoId
           /\ \A d \in Callers \ {c} : PendingOf(d)' = PendingOf(d) /\ ResultOf(d)' = ResultOf(d)
           /\ UNCHANGED served
<1>1. PICK s \in Socks : s = Chan[c]
  BY ReqRepAssumption
<1>2. /\ issued[s] < MaxReq /\ issued[s] \in Nat /\ caller[c].pc = "idle"
      /\ \A d \in Callers : d # c => caller'[d] = caller[d]
      /\ UNCHANGED served
  BY <1>1, ReqrepDoes DEF LayerInv
<1>3. caller'[c].pc = "enq" /\ caller'[c].k = issued[s] + 1 /\ caller'[c].ret = NoBody
  BY <1>1, <1>2, ReqrepDoes, NumberIsFree DEF LayerInv
<1>4. MaxReq \in Nat
  BY ReqRepAssumption
<1> DEFINE id == << s, issued[s] + 1 >>
<1>5. id \in {<< Chan[c], k >> : k \in 1 .. MaxReq}
  <2>1. issued[s] + 1 \in 1 .. MaxReq
    BY <1>2, <1>4
  <2> QED
    BY <1>1, <2>1
<1>6. id \notin Done
  <2> SUFFICES ASSUME id \in Done PROVE FALSE
    OBVIOUS
  <2>1. issued[s] + 1 \in Int
    BY <1>2
  <2>2. issued[s] + 1 <= issued[s]
    BY <2>1, DoneIsOut
  <2> QED
    BY <1>2, <2>2
<1>7. ASSUME NEW d \in Callers, PendingOf(d) = id PROVE FALSE
  <2>1. id # NoId
    BY <1>2, IdFacts
  <2>2. Chan[d] = s /\ caller[d].k = issued[s] + 1
    BY <1>7, <2>1 DEF PendingOf
  <2>3. caller[d].k <= issued[s]
    BY <2>2 DEF LayerInv, Calls
  <2> QED
    BY <1>2, <2>2, <2>3
<1>8. PendingOf(c) = NoId /\ PendingOf(c)' = id
  BY <1>1, <1>2, <1>3 DEF PendingOf
<1>9. ResultOf(c)' = NoId
  BY <1>3, BodyFacts DEF ResultOf
<1>10. \A d \in Callers \ {c} : PendingOf(d)' = PendingOf(d) /\ ResultOf(d)' = ResultOf(d)
  BY <1>2 DEF PendingOf, ResultOf
<1> QED
  BY <1>2, <1>5, <1>6, <1>7, <1>8, <1>9, <1>10

(* The end of reqrep is Return, or Fail when the send failed; its other     *)
(* steps do not show.                                                       *)
LEMMA CallerIsReturn ==
  ASSUME Separated, LayerInv, ChannelInv, Working, NEW c \in Callers, CallerStep(c)
  PROVE  /\ UNCHANGED served
         /\ \A d \in Callers \ {c} : PendingOf(d)' = PendingOf(d) /\ ResultOf(d)' = ResultOf(d)
         /\ \/ PendingOf(c)' = PendingOf(c) /\ ResultOf(c)' = ResultOf(c)
            \/ /\ PendingOf(c) # NoId /\ PendingOf(c)' = NoId
               /\ \/ PendingOf(c) \in Done /\ ResultOf(c)' = PendingOf(c)
                  \/ PendingOf(c) \notin Done /\ ResultOf(c)' = ResultOf(c)
<1>1. PICK s \in Socks, n \in Nos, k \in 0 .. MaxReq : s = Chan[c] /\ n = caller[c].no /\ k = caller[c].k
  BY ReqRepAssumption DEF LayerInv, TypeOK, CallerStates
<1>2. /\ \A d \in Callers : d # c => caller'[d] = caller[d]
      /\ caller'[c].k = k /\ UNCHANGED served
      /\ \/ caller[c].pc # "idle" /\ caller'[c].pc # "idle" /\ caller'[c].ret = caller[c].ret
         \/ /\ caller'[c].pc = "idle"
            /\ \/ /\ caller[c].pc = "waitSend" /\ sendSignals[s][n] = "failed"
                  /\ caller'[c].ret = caller[c].ret
               \/ /\ caller[c].pc = "waitRep" /\ netSignals[s][n].st = "sent"
                  /\ caller'[c].ret = netSignals[s][n].msg
  BY <1>1, CallerDoes DEF LayerInv
<1>3. \A d \in Callers \ {c} : PendingOf(d)' = PendingOf(d) /\ ResultOf(d)' = ResultOf(d)
  BY <1>2 DEF PendingOf, ResultOf
<1>4. CASE caller[c].pc # "idle" /\ caller'[c].pc # "idle" /\ caller'[c].ret = caller[c].ret
  BY <1>1, <1>2, <1>3, <1>4 DEF PendingOf, ResultOf
<1>5. ASSUME caller[c].pc # "idle", caller'[c].pc = "idle"
      PROVE  PendingOf(c) = << s, k >> /\ PendingOf(c) # NoId /\ PendingOf(c)' = NoId
  <2>1. k >= 1
    BY <1>1, <1>5 DEF LayerInv, Calls
  <2> QED
    BY <1>1, <1>5, <2>1, IdFacts DEF PendingOf
<1>6. CASE /\ caller'[c].pc = "idle" /\ caller[c].pc = "waitSend" /\ sendSignals[s][n] = "failed"
           /\ caller'[c].ret = caller[c].ret
  <2>1. PendingOf(c) = << s, k >> /\ PendingOf(c) # NoId /\ PendingOf(c)' = NoId
    BY <1>5, <1>6
  <2>2. << s, k >> \notin Done
    <3>1. ~ ToldSent(c)
      BY <1>1, <1>6, FailedNotTold
    <3>2. ~ Out(Req(s, k))
      BY <1>1, <3>1 DEF LayerInv, OutKnown
    <3> QED
      BY <3>2, DoneIsOut
  <2>3. ResultOf(c)' = ResultOf(c)
    BY <1>6 DEF ResultOf
  <2> QED
    BY <1>2, <1>3, <2>1, <2>2, <2>3
<1>7. CASE /\ caller'[c].pc = "idle" /\ caller[c].pc = "waitRep" /\ netSignals[s][n].st = "sent"
           /\ caller'[c].ret = netSignals[s][n].msg
  <2>1. PendingOf(c) = << s, k >> /\ PendingOf(c) # NoId /\ PendingOf(c)' = NoId
    BY <1>5, <1>7
  <2>2. Peer[s] \in Socks /\ handler[Peer[s]][n].body \in Bodies
    BY PeerFacts DEF LayerInv, TypeOK, HandlerStates
  <2>3. PICK b \in Bodies : /\ b = handler[Peer[s]][n].body /\ handler[Peer[s]][n].pc = "done"
                            /\ netSignals[s][n].msg = Answer(b) /\ IsReq(s, n, b)
    <3>1. ReplyOf(s, n) /\ link[s] = "up"
      BY DEF ChannelInv, Ends, Working
    <3> QED
      BY <1>7, <2>2, <3>1 DEF ReplyOf
  <2>4. b = Req(s, k)
    BY <1>1, <1>7, <2>3, InFlightIsReq DEF ChannelInv
  <2>5. b \in served
    <3>1. HandlerAt(Peer[s], n)
      BY <2>2 DEF LayerInv, Handlers
    <3> QED
      BY <2>3, <3>1 DEF HandlerAt
  <2>6. IdOf(b) = << s, k >> /\ IdOf(Answer(b)) = << s, k >> /\ Answer(b).kind = "ans"
    BY <2>3, <2>4, IdFacts, BodyFacts
  <2>7. << s, k >> \in Done
    BY <2>5, <2>6 DEF Done
  <2>8. ResultOf(c)' = << s, k >>
    BY <1>7, <2>3, <2>6 DEF ResultOf
  <2> QED
    BY <1>2, <1>3, <2>1, <2>7, <2>8
<1> QED
  BY <1>2, <1>4, <1>6, <1>7

(* The dealer is called for a call that is pending and was not served. *)
LEMMA DispatcherIsServe ==
  ASSUME Separated, LayerInv, ChannelInv, Working, NEW p \in Procs, DispatchStep(p) \/ DealerThrows(p)
  PROVE  /\ UNCHANGED caller
         /\ \/ UNCHANGED served
            \/ \E c \in Callers : /\ PendingOf(c) # NoId /\ PendingOf(c) \notin Done
                                  /\ Done' = Done \cup {PendingOf(c)}
<1>1. /\ UNCHANGED caller
      /\ \/ UNCHANGED served
         \/ dataio[p] # << >> /\ served' = served \cup {Head(dataio[p]).body}
  BY DispatcherDoes DEF LayerInv
<1>2. CASE dataio[p] # << >> /\ served' = served \cup {Head(dataio[p]).body}
  <2>1. PICK m \in Msgs : m = Head(dataio[p]) /\ m = dataio[p][1] /\ 1 \in DOMAIN dataio[p]
    BY <1>2, TailAt DEF LayerInv, TypeOK
  <2>2. PICK t \in Socks, n \in Nos, b \in Bodies : t = m.sock /\ n = m.no /\ b = m.body
    BY DEF Msgs
  <2>3. Home[t] = p /\ handler[t][n].pc = "wait" /\ handler[t][n].body = b
    BY <2>1, <2>2, SMTT(30) DEF LayerInv, Dispatched, DispatchedAt, HandledBy
  <2>4. PICK s \in Socks : s = Peer[t] /\ Peer[s] = t
    BY PeerFacts
  <2>5. IsReq(s, n, b) /\ netSignals[s][n].st = "armed"
    <3>1. HandlerOf(t, n) /\ link[t] = "up"
      BY DEF ChannelInv, Ends, Working
    <3> QED
      BY <2>3, <2>4, <3>1 DEF HandlerOf
  <2>6. PICK c \in Callers : InFlight(c, s, n)
    BY <2>5 DEF LayerInv, SignalsMatchCalls
  <2>7. b = Req(s, caller[c].k) /\ caller[c].pc # "idle" /\ Chan[c] = s /\ caller[c].k >= 1
        /\ caller[c].k \in 0 .. MaxReq
    BY <2>5, <2>6, InFlightIsReq DEF InFlight, ChannelInv, LayerInv, Calls, TypeOK, CallerStates
  <2>8. PendingOf(c) = IdOf(b) /\ PendingOf(c) # NoId /\ IdOf(b) = << s, caller[c].k >>
    BY <2>7, IdFacts DEF PendingOf
  <2>9. PendingOf(c) \notin Done
    <3> SUFFICES ASSUME << s, caller[c].k >> \in Done PROVE FALSE
      BY <2>8
    <3>1. b \in served
      BY <2>7, DoneIsOut
    <3>2. PICK u \in Socks, j \in Nos : PastQueue(u, j) /\ IsReq(Peer[u], j, b)
      BY <3>1, ServedIsReq
    <3>3. Peer[u] = s
      BY <2>5, <3>2, BodyFacts DEF IsReq
    <3>4. u = t /\ j = n
      BY <2>4, <2>5, <3>2, <3>3, PeerFacts DEF IsReq
    <3> QED
      BY <2>1, <2>2, <2>3, <3>2, <3>4 DEF PastQueue
  <2>10. Done' = Done \cup {PendingOf(c)}
    BY <1>2, <2>1, <2>2, <2>8 DEF Done, IdOf
  <2> QED
    BY <1>1, <2>8, <2>9, <2>10
<1> QED
  BY <1>1, <1>2

(* The steps of everybody else do not show. *)
LEMMA OthersStay ==
  ASSUME LayerInv,
         \/ UNCHANGED vars
         \/ \E p \in Procs : RouterStep(p)
         \/ \E s \in Socks : RecvPack(s) \/ RecvNothing(s) \/ Break(s)
         \/ \E s \in Socks, n \in Nos : HandlerStep(s, n)
  PROVE  UNCHANGED << caller, served >>
<1>1. CASE UNCHANGED vars
  BY <1>1 DEF vars
<1>2. ASSUME NEW p \in Procs, RouterStep(p) PROVE UNCHANGED << caller, served >>
  BY <1>2, SenderDoes DEF LayerInv
<1>3. ASSUME NEW s \in Socks, RecvPack(s) \/ RecvNothing(s) \/ Break(s) PROVE UNCHANGED << caller, served >>
  BY <1>3 DEF RecvPack, RecvNothing, Break
<1>4. ASSUME NEW s \in Socks, NEW n \in Nos, HandlerStep(s, n) PROVE UNCHANGED << caller, served >>
  BY <1>4, HandlerDoes DEF LayerInv
<1> QED
  BY <1>1, <1>2, <1>3, <1>4

(* On connections that hold, ChannelCombine over MessageRouter implements   *)
(* the remote call: each call is served at most once, returns its own       *)
(* answer, and is never served after it returned nothing.                   *)
THEOREM LayerImplementsRpc ==
  ASSUME Separated, Breakable = {}
  PROVE  Spec => ImplementsRpc
<1>1. Init => Abstract!Init
  <2> SUFFICES ASSUME Init PROVE Abstract!Init
    OBVIOUS
  <2>1. \A c \in Callers : PendingOf(c) = NoId /\ ResultOf(c) = NoId
    BY BodyFacts DEF Init, PendingOf, ResultOf
  <2>2. Done = {}
    BY DEF Init, Done
  <2> QED
    BY <2>1, <2>2 DEF Abstract!Init, PendingOf, Done
<1>2. LayerInv /\ ChannelInv /\ Working /\ [Next]_vars => [Abstract!Next]_(Abstract!rpcVars)
  <2> SUFFICES ASSUME LayerInv, ChannelInv, Working, [Next]_vars
               PROVE  Abstract!Next \/ UNCHANGED Abstract!rpcVars
    OBVIOUS
  <2>1. ASSUME \A d \in Callers : PendingOf(d)' = PendingOf(d) /\ ResultOf(d)' = ResultOf(d),
               UNCHANGED served
        PROVE  UNCHANGED Abstract!rpcVars
    BY <2>1 DEF Abstract!rpcVars, PendingOf
  <2>2. ASSUME NEW c \in Callers, Reqrep(c) PROVE Abstract!Next
    <3>1. PICK id \in {<< Chan[c], k >> : k \in 1 .. MaxReq} :
            /\ PendingOf(c) = NoId /\ id \notin Done /\ \A d \in Callers : PendingOf(d) # id
            /\ PendingOf(c)' = id /\ ResultOf(c)' = NoId
            /\ \A d \in Callers \ {c} : PendingOf(d)' = PendingOf(d) /\ ResultOf(d)' = ResultOf(d)
            /\ UNCHANGED served
      BY <2>2, ReqrepIsCall
    <3>2. Abstract!Call(c, id)
      BY <3>1 DEF Abstract!Call, PendingOf, Done
    <3> QED
      BY <3>2 DEF Abstract!Next
  <2>3. ASSUME NEW c \in Callers, CallerStep(c) PROVE Abstract!Next \/ UNCHANGED Abstract!rpcVars
    <3>1. /\ UNCHANGED served
          /\ \A d \in Callers \ {c} : PendingOf(d)' = PendingOf(d) /\ ResultOf(d)' = ResultOf(d)
          /\ \/ PendingOf(c)' = PendingOf(c) /\ ResultOf(c)' = ResultOf(c)
             \/ /\ PendingOf(c) # NoId /\ PendingOf(c)' = NoId
                /\ \/ PendingOf(c) \in Done /\ ResultOf(c)' = PendingOf(c)
                   \/ PendingOf(c) \notin Done /\ ResultOf(c)' = ResultOf(c)
      BY <2>3, CallerIsReturn
    <3>2. CASE PendingOf(c)' = PendingOf(c) /\ ResultOf(c)' = ResultOf(c)
      BY <2>1, <3>1, <3>2
    <3>3. CASE /\ PendingOf(c) # NoId /\ PendingOf(c)' = NoId
               /\ PendingOf(c) \in Done /\ ResultOf(c)' = PendingOf(c)
      <4>1. Abstract!Return(c)
        BY <3>1, <3>3 DEF Abstract!Return, PendingOf, Done
      <4> QED
        BY <4>1 DEF Abstract!Next
    <3>4. CASE /\ PendingOf(c) # NoId /\ PendingOf(c)' = NoId
               /\ PendingOf(c) \notin Done /\ ResultOf(c)' = ResultOf(c)
      <4>1. Abstract!Fail(c)
        BY <3>1, <3>4 DEF Abstract!Fail, PendingOf, Done
      <4> QED
        BY <4>1 DEF Abstract!Next
    <3> QED
      BY <3>1, <3>2, <3>3, <3>4
  <2>4. ASSUME NEW p \in Procs, DispatchStep(p) \/ DealerThrows(p)
        PROVE  Abstract!Next \/ UNCHANGED Abstract!rpcVars
    <3>1. UNCHANGED caller /\ \A d \in Callers : PendingOf(d)' = PendingOf(d) /\ ResultOf(d)' = ResultOf(d)
      BY <2>4, DispatcherIsServe, CallersStay
    <3>2. CASE UNCHANGED served
      BY <2>1, <3>1, <3>2
    <3>3. CASE ~ UNCHANGED served
      <4>1. PICK c \in Callers : /\ PendingOf(c) # NoId /\ PendingOf(c) \notin Done
                                 /\ Done' = Done \cup {PendingOf(c)}
        BY <2>4, <3>3, DispatcherIsServe
      <4>2. Abstract!Serve(c)
        BY <3>1, <4>1 DEF Abstract!Serve, PendingOf, Done
      <4> QED
        BY <4>2 DEF Abstract!Next
    <3> QED
      BY <3>2, <3>3
  <2>5. ASSUME \/ UNCHANGED vars
               \/ \E p \in Procs : RouterStep(p)
               \/ \E s \in Socks : RecvPack(s) \/ RecvNothing(s) \/ Break(s)
               \/ \E s \in Socks, n \in Nos : HandlerStep(s, n)
        PROVE  UNCHANGED Abstract!rpcVars
    BY <2>1, <2>5, OthersStay, CallersStay
  <2> QED
    BY <2>2, <2>3, <2>4, <2>5 DEF Next, Quiescent
<1> QED
  BY <1>1, <1>2, WorkingInvariant, PTL DEF Spec, ImplementsRpc, Abstract!Spec
=============================================================================
