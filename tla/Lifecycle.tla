----------------------------- MODULE Lifecycle -----------------------------
(***************************************************************************)
(* Start and end of the network module: initNetwork and uninitNetwork,     *)
(* MessageRouter::sInit, start and sUninit, LocalNetManager::sInit and     *)
(* sUninit, and init, stop and stoped of a TCP listener.  The application's*)
(* thread calls these; listener, router and channels are coroutines of the *)
(* io_context's only thread, which hold plain pointers to objects that the *)
(* application's thread destroys.                                          *)
(*                                                                         *)
(* Messages and connections are only counted.  An async_accept that has    *)
(* completed is resumed in a later step: a cancel in between finds nothing *)
(* to cancel.                                                              *)
(***************************************************************************)
EXTENDS Integers

CONSTANTS
  Cap,      \* capacity of _dataapp and _dataio
  MaxMsg,   \* bound: messages that are put into each of them
  MaxConn   \* bound: connections that are made

ASSUME LifecycleAssumption == Cap \in Nat \ {0} /\ MaxMsg \in Nat /\ MaxConn \in Nat

VARIABLES
  inits,             \* calls of initNetwork
  mr, lnm,           \* the router's and the manager's _sInst: none, up, gone
  brun,              \* MessageRouter.cpp: _brun
  finish,            \* _nofityFinish->send() was called
  uninit,            \* the coroutine of MessageRouter::sUninit
  sender, dealer,    \* router coroutines 1 and 2
  dataapp, dataio,   \* what is in the queues ...
  put,               \* ... and what was ever put into either
  lis,               \* the coroutine _listen
  acc, wantstop,     \* whether _acc is set, _wantstop
  running, ran,      \* _brun of the listener, and whether it was ever set
  cancels,           \* cancel coroutines that were posted and have not run
  backlog, dialled,  \* connections to accept, connections ever made
  channels, late,    \* channels made from them, those made after stop
  dangling,          \* who has used an object that was destroyed
  cutOff,            \* history: sUninit ended while a dealer ran
  tidy,              \* history: uninitNetwork came last of all
  aborted            \* the assertion that failed, or "no"

routerVars == << mr, brun, finish, uninit, sender, dealer, dataapp, dataio, put, cutOff >>
listenVars == << lis, acc, wantstop, running, ran, cancels, backlog, dialled, channels, late >>
vars == << inits, lnm, tidy, routerVars, listenVars, dangling, aborted >>

Init ==
  /\ inits = 0 /\ mr = "none" /\ lnm = "none"
  /\ brun = FALSE /\ finish = FALSE /\ uninit = "no"
  /\ sender = "none" /\ dealer = "none"
  /\ dataapp = 0 /\ dataio = 0 /\ put = 0 /\ cutOff = FALSE
  /\ lis = "none" /\ acc = FALSE /\ wantstop = FALSE
  /\ running = FALSE /\ ran = FALSE /\ cancels = 0
  /\ backlog = 0 /\ dialled = 0 /\ channels = 0 /\ late = 0
  /\ dangling = {} /\ tidy = FALSE /\ aborted = "no"

Alive == aborted = "no"
AssertFails(a) == aborted' = a

-----------------------------------------------------------------------------
(* initNetwork.  _inited is never set: a second call goes on to             *)
(* assert(LocalNetManager::sInit()), or, after uninitNetwork, starts more   *)
(* coroutines of the same router and fails at assert(PackUnpackManager::    *)
(* sInit()).                                                                *)
InitNetwork ==
  /\ Alive /\ inits < 2
  /\ inits' = inits + 1
  /\ IF inits = 0
     THEN /\ mr' = "up" /\ lnm' = "up" /\ brun' = TRUE
          /\ sender' = "recv" /\ dealer' = "recv"
          /\ UNCHANGED aborted
     ELSE /\ AssertFails("sInit")
          /\ UNCHANGED << mr, lnm, brun, sender, dealer >>
  /\ UNCHANGED << tidy, finish, uninit, dataapp, dataio, put, cutOff, listenVars, dangling >>

(* uninitNetwork: the channels go with the manager. *)
UninitNetwork ==
  /\ Alive /\ lnm = "up"
  /\ lnm' = "gone"
  /\ tidy' = (ran /\ ~ running /\ mr = "gone" /\ channels = 0)
  /\ UNCHANGED << inits, routerVars, listenVars, dangling, aborted >>

HasRoom(n) == n < Cap

(* A message for coroutine 1, a request for coroutine 2. *)
AddPackFromApp ==
  /\ Alive /\ mr = "up" /\ HasRoom(dataapp) /\ put < MaxMsg
  /\ dataapp' = dataapp + 1 /\ put' = put + 1
  /\ UNCHANGED << inits, lnm, tidy, mr, brun, finish, uninit, sender, dealer, dataio, cutOff,
                  listenVars, dangling, aborted >>

AddPackFromIo ==
  /\ Alive /\ mr = "up" /\ HasRoom(dataio) /\ put < MaxMsg
  /\ dataio' = dataio + 1 /\ put' = put + 1
  /\ UNCHANGED << inits, lnm, tidy, mr, brun, finish, uninit, sender, dealer, dataapp, cutOff,
                  listenVars, dangling, aborted >>

(* Coroutine 1 takes a message and calls LNM->sendPack, ... *)
SenderTakes ==
  /\ Alive /\ sender = "recv" /\ dataapp > 0
  /\ dataapp' = dataapp - 1
  /\ IF lnm = "up"
     THEN sender' = "send" /\ UNCHANGED aborted
     ELSE AssertFails("_sLocalNetManager != nullptr") /\ UNCHANGED sender
  /\ UNCHANGED << inits, lnm, tidy, mr, brun, finish, uninit, dealer, dataio, put, cutOff,
                  listenVars, dangling >>

KeepsRunning_Always == TRUE
(* while (_brun) *)
KeepsRunning == brun

(* ... which returns: the channel it used may be gone by now. *)
SenderSent ==
  /\ Alive /\ sender = "send"
  /\ sender' = IF KeepsRunning THEN "recv" ELSE "done"
  /\ finish' = (finish \/ ~ KeepsRunning)
  /\ dangling' = IF lnm = "gone" THEN dangling \cup {"sender"} ELSE dangling
  /\ UNCHANGED << inits, lnm, tidy, mr, brun, uninit, dealer, dataapp, dataio, put, cutOff,
                  listenVars, aborted >>

(* Coroutine 2 takes a request and awaits its dealer, ... *)
DealerTakes ==
  /\ Alive /\ dealer = "recv" /\ mr = "up" /\ dataio > 0
  /\ dealer' = "deal" /\ dataio' = dataio - 1
  /\ UNCHANGED << inits, lnm, tidy, mr, brun, finish, uninit, sender, dataapp, put, cutOff,
                  listenVars, dangling, aborted >>

(* ... and calls notifyRecvAppRep, a member of the router. *)
DealerReturns ==
  /\ Alive /\ dealer = "deal"
  /\ dealer' = IF KeepsRunning THEN "recv" ELSE "done"
  /\ dangling' = IF mr = "gone" THEN dangling \cup {"dealer"} ELSE dangling
  /\ UNCHANGED << inits, lnm, tidy, mr, brun, finish, uninit, sender, dataapp, dataio, put, cutOff,
                  listenVars, aborted >>

(* MessageRouter::sUninit spawns a coroutine, which clears _brun, ... *)
SUninit ==
  /\ Alive /\ mr = "up" /\ uninit = "no"
  /\ uninit' = "posted"
  /\ UNCHANGED << inits, lnm, tidy, mr, brun, finish, sender, dealer, dataapp, dataio, put, cutOff,
                  listenVars, dangling, aborted >>

UninitStarts ==
  /\ Alive /\ uninit = "posted"
  /\ uninit' = "waiting" /\ brun' = FALSE
  /\ UNCHANGED << inits, lnm, tidy, mr, finish, sender, dealer, dataapp, dataio, put, cutOff,
                  listenVars, dangling, aborted >>

Finished_Assumed == TRUE
(* _waitFinish->async_wait *)
Finished == finish

(* ... waits for coroutine 1 and destroys the router.  A coroutine 2 that   *)
(* waits for a request is cancelled with its channel and leaves its loop.   *)
UninitEnds ==
  /\ Alive /\ uninit = "waiting" /\ Finished
  /\ uninit' = "done" /\ mr' = "gone"
  /\ dealer' = IF dealer = "recv" THEN "done" ELSE dealer
  /\ cutOff' = (dealer = "deal")
  /\ UNCHANGED << inits, lnm, tidy, brun, finish, sender, dataapp, dataio, put,
                  listenVars, dangling, aborted >>

-----------------------------------------------------------------------------
(* The listener: TcpServerCombine, used by DBTcp. *)

ListenInit ==
  /\ Alive /\ lis = "none" /\ inits > 0
  /\ lis' = "spawned"
  /\ UNCHANGED << inits, lnm, tidy, routerVars, acc, wantstop, running, ran, cancels, backlog, dialled,
                  channels, late, dangling, aborted >>

(* _listen makes its acceptor; if that throws (the port is in use) the      *)
(* coroutine is over.                                                       *)
MakeAcceptor ==
  /\ Alive /\ lis = "spawned"
  /\ \/ lis' = "check" /\ acc' = TRUE
     \/ lis' = "failed" /\ UNCHANGED acc
  /\ UNCHANGED << inits, lnm, tidy, routerVars, wantstop, running, ran, cancels, backlog, dialled,
                  channels, late, dangling, aborted >>

CheckStop_Clears ==
  /\ Alive /\ lis = "check"
  /\ lis' = IF wantstop THEN "done" ELSE "enter"
  /\ running' = FALSE
  /\ UNCHANGED << inits, lnm, tidy, routerVars, acc, wantstop, ran, cancels, backlog, dialled,
                  channels, late, dangling, aborted >>
CheckStop_Forever ==
  /\ Alive /\ lis = "check"
  /\ lis' = "enter"
  /\ UNCHANGED << inits, lnm, tidy, routerVars, acc, wantstop, running, ran, cancels, backlog,
                  dialled, channels, late, dangling, aborted >>
(* while (!_wantstop): stop, on the other thread, may come right after.     *)
CheckStop ==
  /\ Alive /\ lis = "check"
  /\ lis' = IF wantstop THEN "done" ELSE "enter"
  /\ running' = (running /\ ~ wantstop)
  /\ UNCHANGED << inits, lnm, tidy, routerVars, acc, wantstop, ran, cancels, backlog, dialled,
                  channels, late, dangling, aborted >>

(* _brun = true; async_accept *)
Accept ==
  /\ Alive /\ lis = "enter"
  /\ lis' = "accept" /\ running' = TRUE /\ ran' = TRUE
  /\ UNCHANGED << inits, lnm, tidy, routerVars, acc, wantstop, cancels, backlog, dialled, channels,
                  late, dangling, aborted >>

(* A client connects; the accept completes; it is resumed. *)
Dial ==
  /\ Alive /\ acc /\ dialled < MaxConn
  /\ dialled' = dialled + 1 /\ backlog' = backlog + 1
  /\ UNCHANGED << inits, lnm, tidy, routerVars, lis, acc, wantstop, running, ran, cancels, channels,
                  late, dangling, aborted >>

AcceptCompletes ==
  /\ Alive /\ lis = "accept" /\ backlog > 0
  /\ lis' = "accepted" /\ backlog' = backlog - 1
  /\ UNCHANGED << inits, lnm, tidy, routerVars, acc, wantstop, running, ran, cancels, dialled, channels,
                  late, dangling, aborted >>

CreateChannel ==
  /\ Alive /\ lis = "accepted"
  /\ IF lnm = "up"
     THEN /\ lis' = "check" /\ channels' = channels + 1
          /\ late' = IF wantstop THEN late + 1 ELSE late
          /\ UNCHANGED aborted
     ELSE /\ AssertFails("_sLocalNetManager != nullptr")
          /\ UNCHANGED << lis, channels, late >>
  /\ UNCHANGED << inits, lnm, tidy, routerVars, acc, wantstop, running, ran, cancels, backlog, dialled,
                  dangling >>

(* The receive loop of a channel goes on (data, or its socket was closed):  *)
(* it holds a plain pointer to the channel.                                 *)
ChannelResumes ==
  /\ Alive /\ channels > 0 /\ lnm = "gone"
  /\ dangling' = dangling \cup {"channel"}
  /\ UNCHANGED << inits, lnm, tidy, routerVars, listenVars, aborted >>

Posted_Lost(n) == n
(* co_spawn of the coroutine that cancels. *)
Posted(n) == n + 1

(* stop: nothing at all without an acceptor.  Two cancels at most (bound).  *)
Stop ==
  /\ Alive /\ acc /\ cancels < 2
  /\ wantstop' = TRUE /\ cancels' = Posted(cancels)
  /\ UNCHANGED << inits, lnm, tidy, routerVars, lis, acc, running, ran, backlog, dialled, channels, late,
                  dangling, aborted >>

(* _acc->cancel(): async_accept throws, END_ASIO swallows it.  Between       *)
(* while (!_wantstop) and async_accept the thread is the listener's.        *)
Cancel ==
  /\ Alive /\ cancels > 0 /\ lis # "enter"
  /\ cancels' = cancels - 1
  /\ lis' = IF lis = "accept" THEN "check" ELSE lis
  /\ UNCHANGED << inits, lnm, tidy, routerVars, acc, wantstop, running, ran, backlog, dialled, channels,
                  late, dangling, aborted >>

-----------------------------------------------------------------------------
RouterSteps == SenderTakes \/ SenderSent
DealerSteps == DealerTakes \/ DealerReturns
UninitSteps == UninitStarts \/ UninitEnds
ListenSteps == MakeAcceptor \/ CheckStop \/ Accept \/ AcceptCompletes \/ CreateChannel

Next ==
  \/ InitNetwork \/ UninitNetwork \/ SUninit \/ ListenInit \/ Stop
  \/ AddPackFromApp \/ AddPackFromIo \/ Dial
  \/ RouterSteps \/ DealerSteps \/ UninitSteps \/ ListenSteps
  \/ Cancel \/ ChannelResumes

(* The io_context resumes what can go on; a dealer returns. *)
Fairness ==
  /\ WF_vars(RouterSteps) /\ WF_vars(DealerSteps) /\ WF_vars(UninitSteps)
  /\ WF_vars(ListenSteps) /\ WF_vars(Cancel)

Spec == Init /\ [][Next]_vars /\ Fairness

-----------------------------------------------------------------------------
Flags ==
  /\ brun \in BOOLEAN /\ finish \in BOOLEAN /\ cutOff \in BOOLEAN /\ tidy \in BOOLEAN
  /\ acc \in BOOLEAN /\ wantstop \in BOOLEAN /\ running \in BOOLEAN /\ ran \in BOOLEAN

Numbers ==
  /\ inits \in 0 .. 2 /\ cancels \in 0 .. 2
  /\ dataapp \in 0 .. Cap /\ dataio \in 0 .. Cap /\ put \in 0 .. MaxMsg
  /\ dialled \in 0 .. MaxConn /\ backlog \in 0 .. MaxConn
  /\ channels \in 0 .. MaxConn /\ late \in 0 .. MaxConn

Places ==
  /\ mr \in {"none", "up", "gone"} /\ lnm \in {"none", "up", "gone"}
  /\ uninit \in {"no", "posted", "waiting", "done"}
  /\ sender \in {"none", "recv", "send", "done"}
  /\ dealer \in {"none", "recv", "deal", "done"}
  /\ lis \in {"none", "spawned", "check", "enter", "accept", "accepted", "done", "failed"}
  /\ dangling \subseteq {"sender", "dealer", "channel"}
  /\ aborted \in {"no", "sInit", "_sLocalNetManager != nullptr"}

(* Every variable has its type; the queues keep to their capacity.          *)
TypeOK == Flags /\ Numbers /\ Places

(* sUninit waits for coroutine 1 only.  The router is not destroyed under   *)
(* it, and whoever uses a destroyed router is a dealer that was running     *)
(* when the wait ended.                                                     *)
RouterOutlivesSender ==
  /\ mr = "gone" => sender = "done"
  /\ "dealer" \in dangling => cutOff

(* An application that calls uninitNetwork only when stoped() is true of a  *)
(* listener that has run, sUninit has ended and there never was a channel,  *)
(* fails no assert afterwards and leaves no coroutine without its objects.  *)
(* No weaker order will do, since channels cannot be closed.                *)
TidyIsSafe == tidy => /\ dangling \subseteq {"dealer"}
                      /\ aborted # "no" => inits = 2

(* After stop at most one more connection becomes a channel: the one whose  *)
(* accept had completed when the cancel came, or that came between the      *)
(* loop's check and its async_accept.                                       *)
OneLateChannel == late <= 1

(* Once the listener has run, stoped() means that it has left its loop and  *)
(* will not accept again; before, stoped() is true as well.                 *)
StopedIsFinal == ran /\ ~ running => lis = "done"

(* stop, if there is an acceptor, ends the loop (demo/Source.cpp asserts    *)
(* stoped() a second after stop()), unless an assert ended the process.     *)
StopStops == wantstop ~> (lis = "done" \/ ~ Alive)

(* sUninit comes to its end once a message is there for coroutine 1 to take.*)
(* Without one it waits for ever: clearing _brun does not wake coroutine 1. *)
UninitEndsAfterMessage == (uninit = "waiting" /\ dataapp > 0) ~> (mr = "gone" \/ ~ Alive)

=============================================================================
