-------------------------- MODULE LifecycleProofs --------------------------
(* Proofs about Lifecycle, for every capacity and number of messages and    *)
(* connections.                                                             *)
EXTENDS Lifecycle, TLAPS

(***************************************************************************)
(* None of the invariants is inductive.  Books counts connections, which   *)
(* bounds the backlog and the channels.  RouterBooks ties the router's     *)
(* life to the handshake of sUninit.  ListenBooks says in which states of  *)
(* _listen its flags may be, and LnmBooks what can have gone wrong while   *)
(* the manager still exists, and what can still happen after a tidy end.   *)
(***************************************************************************)
Books ==
  /\ backlog + channels + (IF lis = "accepted" THEN 1 ELSE 0) <= dialled
  /\ late <= channels

RouterBooks ==
  /\ inits = 0 => mr = "none" /\ uninit = "no" /\ ~ finish /\ sender = "none" /\ dealer = "none"
  /\ finish => sender = "done"
  /\ mr = "gone" => finish /\ uninit = "done"
  /\ mr = "gone" /\ dealer = "deal" => cutOff
  /\ "dealer" \in dangling => mr = "gone" /\ cutOff

ListenBooks ==
  /\ ran /\ ~ running => lis = "done"
  /\ late = 0 \/ (late = 1 /\ wantstop /\ lis \in {"check", "done"})
  /\ lis \in {"none", "spawned", "failed"} => ~ ran

LnmBooks ==
  /\ inits = 0 => lnm = "none"
  /\ lnm # "gone" => dangling \subseteq {"dealer"}
  /\ tidy => /\ lnm = "gone" /\ sender = "done" /\ lis = "done" /\ channels = 0 /\ inits > 0
             /\ dangling \subseteq {"dealer"}
             /\ aborted # "no" => inits = 2

LifeInv == TypeOK /\ Books /\ RouterBooks /\ ListenBooks /\ LnmBooks

(* Before initNetwork the invariant holds. *)
LEMMA InitLife == Init => LifeInv
  <1> SUFFICES ASSUME Init PROVE LifeInv
    OBVIOUS
  <1>1. Flags /\ Places
    BY DEF Init, Flags, Places
  <1>2. Numbers
    BY LifecycleAssumption DEF Init, Numbers
  <1>3. Books /\ RouterBooks /\ ListenBooks /\ LnmBooks
    BY DEF Init, Books, RouterBooks, ListenBooks, LnmBooks
  <1> QED
    BY <1>1, <1>2, <1>3 DEF LifeInv, TypeOK

(* The calls of the application keep the invariant. *)
LEMMA CallsKeep ==
  ASSUME LifeInv,
         InitNetwork \/ UninitNetwork \/ SUninit \/ ListenInit \/ Stop
           \/ AddPackFromApp \/ AddPackFromIo \/ Dial
  PROVE  LifeInv'
  <1> USE LifecycleAssumption
  <1> USE DEF LifeInv, TypeOK, Flags, Numbers, Places, Books, RouterBooks, ListenBooks, LnmBooks, routerVars, listenVars, Alive
  <1>1. CASE InitNetwork
    <2>1. TypeOK'
      <3>1. Flags'
        BY <1>1 DEF InitNetwork, AssertFails
      <3>2. Numbers'
        BY <1>1 DEF InitNetwork, AssertFails
      <3>3. Places'
        <4>1. CASE inits = 0
          BY <1>1, <4>1 DEF InitNetwork
        <4>2. CASE inits # 0
          BY <1>1, <4>2 DEF InitNetwork, AssertFails
        <4> QED
          BY <4>1, <4>2
      <3> QED
        BY <3>1, <3>2, <3>3 DEF TypeOK
    <2>2. Books'
      BY <1>1 DEF InitNetwork, AssertFails
    <2>3. RouterBooks'
      BY <1>1 DEF InitNetwork, AssertFails
    <2>4. ListenBooks'
      BY <1>1 DEF InitNetwork, AssertFails
    <2>5. LnmBooks'
      BY <1>1 DEF InitNetwork, AssertFails
    <2> QED
      BY <2>1, <2>2, <2>3, <2>4, <2>5 DEF LifeInv
  <1>2. CASE UninitNetwork
    BY <1>2 DEF UninitNetwork
  <1>3. CASE SUninit
    BY <1>3 DEF SUninit
  <1>4. CASE ListenInit
    BY <1>4 DEF ListenInit
  <1>5. CASE Stop
    BY <1>5 DEF Stop, Posted
  <1>6. CASE AddPackFromApp
    BY <1>6 DEF AddPackFromApp, HasRoom
  <1>7. CASE AddPackFromIo
    BY <1>7 DEF AddPackFromIo, HasRoom
  <1>8. CASE Dial
    BY <1>8 DEF Dial
  <1> QED
    BY <1>1, <1>2, <1>3, <1>4, <1>5, <1>6, <1>7, <1>8

(* The router's coroutines and its destruction keep the invariant. *)
LEMMA RouterKeeps ==
  ASSUME LifeInv, RouterSteps \/ DealerSteps \/ UninitSteps
  PROVE  LifeInv'
  <1> USE LifecycleAssumption
  <1> USE DEF LifeInv, TypeOK, Flags, Numbers, Places, Books, RouterBooks, ListenBooks, LnmBooks, routerVars, listenVars, Alive
  <1>1. CASE SenderTakes
    <2>1. TypeOK'
      <3>1. Flags'
        BY <1>1 DEF SenderTakes, AssertFails
      <3>2. Numbers'
        <4>1. /\ dataapp > 0 /\ dataapp' = dataapp - 1
              /\ UNCHANGED << inits, cancels, dataio, put, dialled, backlog, channels, late >>
          BY <1>1 DEF SenderTakes
        <4> HIDE DEF Flags, Numbers, Places, Books, RouterBooks, ListenBooks, LnmBooks
        <4> QED
          BY <4>1 DEF Numbers
      <3>3. Places'
        BY <1>1 DEF SenderTakes, AssertFails
      <3> QED
        BY <3>1, <3>2, <3>3 DEF TypeOK
    <2>2. Books'
      BY <1>1 DEF SenderTakes, AssertFails
    <2>3. RouterBooks'
      BY <1>1 DEF SenderTakes, AssertFails
    <2>4. ListenBooks'
      BY <1>1 DEF SenderTakes, AssertFails
    <2>5. LnmBooks'
      BY <1>1 DEF SenderTakes, AssertFails
    <2> QED
      BY <2>1, <2>2, <2>3, <2>4, <2>5 DEF LifeInv
  <1>2. CASE SenderSent
    BY <1>2 DEF SenderSent, KeepsRunning
  <1>3. CASE DealerTakes
    BY <1>3 DEF DealerTakes
  <1>4. CASE DealerReturns
    BY <1>4 DEF DealerReturns, KeepsRunning
  <1>5. CASE UninitStarts
    <2>1. TypeOK'
      <3>1. Flags'
        BY <1>5 DEF UninitStarts
      <3>2. Numbers'
        BY <1>5 DEF UninitStarts
      <3>3. Places'
        BY <1>5 DEF UninitStarts
      <3> QED
        BY <3>1, <3>2, <3>3 DEF TypeOK
    <2>2. Books'
      BY <1>5 DEF UninitStarts
    <2>3. RouterBooks'
      BY <1>5 DEF UninitStarts
    <2>4. ListenBooks'
      BY <1>5 DEF UninitStarts
    <2>5. LnmBooks'
      BY <1>5 DEF UninitStarts
    <2> QED
      BY <2>1, <2>2, <2>3, <2>4, <2>5 DEF LifeInv
  <1>6. CASE UninitEnds
    <2>1. TypeOK'
      <3>1. Flags'
        BY <1>6 DEF UninitEnds, Finished
      <3>2. Numbers'
        BY <1>6 DEF UninitEnds, Finished
      <3>3. Places'
        BY <1>6 DEF UninitEnds, Finished
      <3> QED
        BY <3>1, <3>2, <3>3 DEF TypeOK
    <2>2. Books'
      BY <1>6 DEF UninitEnds, Finished
    <2>3. RouterBooks'
      BY <1>6 DEF UninitEnds, Finished
    <2>4. ListenBooks'
      BY <1>6 DEF UninitEnds, Finished
    <2>5. LnmBooks'
      BY <1>6 DEF UninitEnds, Finished
    <2> QED
      BY <2>1, <2>2, <2>3, <2>4, <2>5 DEF LifeInv
  <1> QED
    BY <1>1, <1>2, <1>3, <1>4, <1>5, <1>6 DEF RouterSteps, DealerSteps, UninitSteps

(* The listener, its cancellation and its channels keep the invariant. *)
LEMMA ListenerKeeps ==
  ASSUME LifeInv, ListenSteps \/ Cancel \/ ChannelResumes
  PROVE  LifeInv'
  <1> USE LifecycleAssumption
  <1> USE DEF LifeInv, TypeOK, Flags, Numbers, Places, Books, RouterBooks, ListenBooks, LnmBooks, routerVars, listenVars, Alive
  <1>1. CASE MakeAcceptor
    <2>1. TypeOK'
      <3>1. Flags'
        BY <1>1 DEF MakeAcceptor
      <3>2. Numbers'
        BY <1>1 DEF MakeAcceptor
      <3>3. Places'
        BY <1>1 DEF MakeAcceptor
      <3> QED
        BY <3>1, <3>2, <3>3 DEF TypeOK
    <2>2. Books'
      BY <1>1 DEF MakeAcceptor
    <2>3. RouterBooks'
      BY <1>1 DEF MakeAcceptor
    <2>4. ListenBooks'
      BY <1>1 DEF MakeAcceptor
    <2>5. LnmBooks'
      BY <1>1 DEF MakeAcceptor
    <2> QED
      BY <2>1, <2>2, <2>3, <2>4, <2>5 DEF LifeInv
  <1>2. CASE CheckStop
    BY <1>2 DEF CheckStop
  <1>3. CASE Accept
    BY <1>3 DEF Accept
  <1>4. CASE AcceptCompletes
    BY <1>4 DEF AcceptCompletes
  <1>5. CASE CreateChannel
    <2> HIDE DEF Flags, Numbers, Places, Books, RouterBooks, ListenBooks, LnmBooks
    <2>1. CASE lnm = "up"
      <3>1. /\ lis = "accepted" /\ lis' = "check" /\ channels' = channels + 1
            /\ late' = IF wantstop THEN late + 1 ELSE late
            /\ UNCHANGED << inits, lnm, tidy, routerVars, acc, wantstop, running, ran, cancels,
                            backlog, dialled, dangling, aborted >>
        BY <1>5, <2>1 DEF CreateChannel
      <3>2. late = 0
        BY <3>1 DEF ListenBooks
      <3>3. Books'
        BY <3>1, <3>2 DEF Books, Numbers
      <3>4. Numbers'
        BY <3>1, <3>2, <3>3 DEF Books, Numbers
      <3>5. Flags'
        BY <3>1 DEF Flags
      <3>6. Places'
        BY <3>1 DEF Places
      <3>7. ListenBooks'
        BY <3>1, <3>2 DEF ListenBooks
      <3>8. RouterBooks' /\ LnmBooks'
        BY <3>1 DEF RouterBooks, LnmBooks
      <3> QED
        BY <3>3, <3>4, <3>5, <3>6, <3>7, <3>8
    <2>2. CASE lnm # "up"
      <3>1. /\ aborted' = "_sLocalNetManager != nullptr" /\ lis = "accepted"
            /\ UNCHANGED << inits, lnm, tidy, routerVars, listenVars, dangling >>
        BY <1>5, <2>2 DEF CreateChannel, AssertFails
      <3>2. Books' /\ Numbers' /\ ListenBooks'
        BY <3>1 DEF Books, Numbers, ListenBooks
      <3>3. Flags'
        BY <3>1 DEF Flags
      <3>4. Places'
        BY <3>1 DEF Places
      <3>5. RouterBooks' /\ LnmBooks'
        BY <3>1 DEF RouterBooks, LnmBooks
      <3> QED
        BY <3>2, <3>3, <3>4, <3>5
    <2> QED
      BY <2>1, <2>2
  <1>6. CASE Cancel
    BY <1>6 DEF Cancel
  <1>7. CASE ChannelResumes
    BY <1>7 DEF ChannelResumes
  <1> QED
    BY <1>1, <1>2, <1>3, <1>4, <1>5, <1>6, <1>7 DEF ListenSteps

(* Every step keeps the invariant. *)
LEMMA StepKeeps == LifeInv /\ [Next]_vars => LifeInv'
  <1> SUFFICES ASSUME LifeInv, [Next]_vars PROVE LifeInv'
    OBVIOUS
  <1>1. CASE UNCHANGED vars
    <2>1. TypeOK'
      <3>1. Flags'
        BY <1>1 DEF vars, routerVars, listenVars, LifeInv, TypeOK, Flags
      <3>2. Numbers'
        BY <1>1 DEF vars, routerVars, listenVars, LifeInv, TypeOK, Numbers
      <3>3. Places'
        <4>1. /\ mr' = mr /\ lnm' = lnm /\ uninit' = uninit /\ sender' = sender
              /\ dealer' = dealer /\ lis' = lis /\ dangling' = dangling /\ aborted' = aborted
          BY <1>1 DEF vars, routerVars, listenVars
        <4>2. Places
          BY DEF LifeInv, TypeOK
        <4>3. aborted' \in {"no", "sInit", "_sLocalNetManager != nullptr"}
          BY <4>1, <4>2 DEF Places
        <4>4. /\ mr' \in {"none", "up", "gone"} /\ lnm' \in {"none", "up", "gone"}
              /\ uninit' \in {"no", "posted", "waiting", "done"}
          BY <4>1, <4>2 DEF Places
        <4>5. /\ sender' \in {"none", "recv", "send", "done"}
              /\ dealer' \in {"none", "recv", "deal", "done"}
          BY <4>1, <4>2 DEF Places
        <4>6. lis' \in {"none", "spawned", "check", "enter", "accept", "accepted", "done", "failed"}
          BY <4>1, <4>2 DEF Places
        <4> QED
          BY <4>1, <4>2, <4>3, <4>4, <4>5, <4>6 DEF Places
      <3> QED
        BY <3>1, <3>2, <3>3 DEF TypeOK
    <2>2. Books'
      BY <1>1 DEF vars, routerVars, listenVars, LifeInv, Books
    <2>3. RouterBooks'
      BY <1>1 DEF vars, routerVars, listenVars, LifeInv, RouterBooks
    <2>4. ListenBooks'
      BY <1>1 DEF vars, routerVars, listenVars, LifeInv, ListenBooks
    <2>5. LnmBooks'
      BY <1>1 DEF vars, routerVars, listenVars, LifeInv, LnmBooks
    <2> QED
      BY <2>1, <2>2, <2>3, <2>4, <2>5 DEF LifeInv
  <1>2. CASE Next
    BY <1>2, CallsKeep, RouterKeeps, ListenerKeeps DEF Next
  <1> QED
    BY <1>1, <1>2

(* The invariant holds in every reachable state. *)
LEMMA LifeInvariant == Spec => []LifeInv
  BY InitLife, StepKeeps, PTL DEF Spec

(* Every reachable state of start and shutdown is well typed, for every     *)
(* capacity of the queues.                                                  *)
THEOREM LifecycleTyped == Spec => []TypeOK
  <1>1. LifeInv => TypeOK
    BY DEF LifeInv
  <1> QED
    BY <1>1, LifeInvariant, PTL

(* The router is destroyed only after its first coroutine has left its      *)
(* loop, and is used afterwards only by a dealer sUninit did not wait for.  *)
THEOREM RouterSafe == Spec => []RouterOutlivesSender
  <1>1. LifeInv => RouterOutlivesSender
    BY DEF LifeInv, RouterBooks, RouterOutlivesSender
  <1> QED
    BY <1>1, LifeInvariant, PTL

(* After the one safe order of calls nothing uses a destroyed object.       *)
THEOREM TidySafe == Spec => []TidyIsSafe
  <1>1. LifeInv => TidyIsSafe
    BY DEF LifeInv, LnmBooks, TidyIsSafe
  <1> QED
    BY <1>1, LifeInvariant, PTL

(* At most one connection becomes a channel after stop, however many dial.  *)
THEOREM LateBounded == Spec => []OneLateChannel
  <1>1. LifeInv => OneLateChannel
    BY DEF LifeInv, ListenBooks, OneLateChannel
  <1> QED
    BY <1>1, LifeInvariant, PTL

(* stoped() of a listener that has run is final.                            *)
THEOREM StopedForGood == Spec => []StopedIsFinal
  <1>1. LifeInv => StopedIsFinal
    BY DEF LifeInv, ListenBooks, StopedIsFinal
  <1> QED
    BY <1>1, LifeInvariant, PTL
=============================================================================
