------------------------ MODULE ResourceCacheProofs ------------------------
(* Proofs about ResourceCache, for any number of requests, versions, objects. *)
EXTENDS ResourceCache, TLAPS

(***************************************************************************)
(* StaleOnlyWhilePending is not inductive: a load that is under way has    *)
(* taken the size of the file and will write what it finds then.  The      *)
(* invariant says of the fileOp in _files that, with nothing pending, both *)
(* the size taken and the contents read are of the current version, and of *)
(* fileOps not made yet, or made before the file exists, that they are     *)
(* empty.                                                                  *)
(***************************************************************************)
Current ==
  (files # 0 /\ fileOp[files].datas.kind # "empty" /\ events + pathsUpdate = 0)
    => /\ fileOp[files].len = disk
       /\ fileOp[files].datas.kind = "file" => fileOp[files].datas = File(disk, disk)

Untouched ==
  \A o \in Objs : (o > nobj \/ disk = 0) => fileOp[o].datas.kind = "empty"

Loading ==
  \A r \in Requests : request[r].pc \in {"load", "sync"}
    => /\ request[r].obj \in 1 .. nobj
       /\ fileOp[request[r].obj].datas.kind # "empty"

CacheInv == TypeOK /\ Current /\ Untouched /\ Loading

(* The initial state, with an empty cache, satisfies the invariant. *)
LEMMA InitInv == Init => CacheInv
  <1> SUFFICES ASSUME Init PROVE CacheInv
    OBVIOUS
  <1> USE ResourceCacheAssumption
  <1>1. TypeOK
    BY DEF Init, TypeOK, Objs, Contents, Blank
  <1>2. Current /\ Untouched /\ Loading
    BY DEF Init, Current, Untouched, Loading, Objs, Blank
  <1> QED
    BY <1>1, <1>2 DEF CacheInv

(* A request keeps the invariant: it makes an empty fileOp, or starts a     *)
(* load with the size of the current version.                              *)
LEMMA RequestInv ==
  ASSUME CacheInv, NEW r \in Requests, Request(r)
  PROVE  CacheInv'
  <1> USE ResourceCacheAssumption
  <1> DEFINE o == IF files = 0 THEN nobj + 1 ELSE files
  <1>1. o \in Objs /\ o \in 1 .. nobj' /\ files' = o /\ nobj' \in 0 .. MaxObj /\ nobj <= nobj'
    BY DEF CacheInv, TypeOK, Request, Found, Objs
  <1>2. TypeOK'
    <2>1. Blank("empty") \in Contents /\ Resized \in Contents
      BY DEF Blank, Resized, Contents
    <2>2. [len |-> disk, datas |-> Resized] \in [len : 0 .. MaxVersion, datas : Contents]
      BY <2>1 DEF CacheInv, TypeOK
    <2>3. fileOp' \in [Objs -> [len : 0 .. MaxVersion, datas : Contents]]
      <3>1. fileOp' = fileOp \/ fileOp' = [fileOp EXCEPT ![o] = [len |-> disk, datas |-> Resized]]
        BY DEF Request, Found
      <3> QED
        BY <3>1, <2>2 DEF CacheInv, TypeOK
    <2>4. request' \in [Requests -> [pc : {"idle", "load", "sync", "defer"},
                                     obj : 0 .. MaxObj, body : Contents]]
      <3>1. PICK p \in {"load", "defer"}, d \in {0, o} :
              request' = [request EXCEPT ![r] = [pc |-> p, obj |-> d, body |-> Blank("empty")]]
        BY DEF Request, Found
      <3>2. d \in 0 .. MaxObj
        BY <1>1 DEF Objs
      <3>3. [pc |-> p, obj |-> d, body |-> Blank("empty")]
              \in [pc : {"idle", "load", "sync", "defer"}, obj : 0 .. MaxObj, body : Contents]
        BY <3>2, <2>1
      <3> QED
        BY <3>1, <3>3 DEF CacheInv, TypeOK
    <2> QED
      BY <1>1, <2>3, <2>4 DEF CacheInv, TypeOK, Request, Found
  <1>3. CASE fileOp[o].datas.kind = "empty" /\ disk > 0
    <2>1. /\ fileOp' = [fileOp EXCEPT ![o] = [len |-> disk, datas |-> Resized]]
          /\ request' = [request EXCEPT ![r] = [pc |-> "load", obj |-> o, body |-> Blank("empty")]]
          /\ UNCHANGED << disk, events, pathsUpdate, hotUpdate >>
      BY <1>3 DEF Request, Found
    <2>2. fileOp'[o].len = disk /\ fileOp'[o].datas.kind = "zeros"
      BY <2>1, <1>1 DEF CacheInv, TypeOK, Resized, Blank
    <2>3. Current'
      BY <2>1, <2>2, <1>1 DEF Current
    <2>4. Untouched'
      BY <2>1, <1>1, <1>3 DEF CacheInv, TypeOK, Untouched, Objs
    <2>5. Loading'
      <3> SUFFICES ASSUME NEW q \in Requests, request'[q].pc \in {"load", "sync"}
                   PROVE  /\ request'[q].obj \in 1 .. nobj'
                          /\ fileOp'[request'[q].obj].datas.kind # "empty"
        BY DEF Loading
      <3>1. CASE q = r
        BY <3>1, <2>1, <2>2, <1>1 DEF CacheInv, TypeOK
      <3>2. CASE q # r
        <4>1. request'[q] = request[q]
          BY <3>2, <2>1 DEF CacheInv, TypeOK
        <4>2. request[q].obj \in 1 .. nobj /\ fileOp[request[q].obj].datas.kind # "empty"
          BY <4>1 DEF CacheInv, Loading
        <4>3. request[q].obj # o /\ request[q].obj \in Objs /\ nobj \in Nat
          BY <4>2, <1>3 DEF CacheInv, TypeOK, Objs
        <4>4. fileOp'[request[q].obj] = fileOp[request[q].obj]
          BY <4>3, <2>1 DEF CacheInv, TypeOK
        <4> QED
          BY <4>1, <4>2, <4>3, <4>4, <1>1
      <3> QED
        BY <3>1, <3>2
    <2> QED
      BY <1>2, <2>3, <2>4, <2>5 DEF CacheInv
  <1>4. CASE ~(fileOp[o].datas.kind = "empty" /\ disk > 0)
    <2>1. /\ fileOp' = fileOp
          /\ \E d \in {0, o} : request' = [request EXCEPT ![r] =
               [pc |-> "defer", obj |-> d, body |-> Blank("empty")]]
          /\ UNCHANGED << disk, events, pathsUpdate, hotUpdate >>
      BY <1>4 DEF Request, Found, CacheInv, TypeOK
    <2>2. Current'
      <3>1. CASE files = 0
        <4>1. o \in Objs /\ o > nobj
          BY <3>1, <1>1 DEF CacheInv, TypeOK
        <4> QED
          BY <4>1, <2>1, <1>1 DEF CacheInv, Untouched, Current
      <3>2. CASE files # 0
        BY <3>2, <2>1, <1>1 DEF CacheInv, Current
      <3> QED
        BY <3>1, <3>2
    <2>3. Untouched'
      BY <2>1, <1>1 DEF CacheInv, TypeOK, Untouched, Objs
    <2>4. Loading'
      BY <2>1, <1>1 DEF CacheInv, TypeOK, Loading
    <2> QED
      BY <1>2, <2>2, <2>3, <2>4 DEF CacheInv
  <1> QED
    BY <1>3, <1>4

(* The end of a load keeps the invariant: with nothing pending, size and    *)
(* contents are of the version on disk.                                     *)
LEMMA LoadedInv ==
  ASSUME CacheInv, NEW r \in Requests, Loaded(r)
  PROVE  CacheInv'
  <1> USE ResourceCacheAssumption
  <1> DEFINE o == request[r].obj
  <1>1. o \in 1 .. nobj /\ o \in Objs /\ nobj \in Nat /\ fileOp[o].datas.kind # "empty"
    BY DEF CacheInv, TypeOK, Loading, Loaded, Objs
  <1>2. /\ fileOp' = [fileOp EXCEPT ![o].datas = File(fileOp[o].len, disk)]
        /\ request' = [request EXCEPT ![r].pc = "defer"]
        /\ UNCHANGED << disk, events, pathsUpdate, files, nobj, hotUpdate >>
    BY DEF Loaded
  <1>3. /\ fileOp'[o].len = fileOp[o].len
        /\ fileOp'[o].datas = File(fileOp[o].len, disk)
        /\ \A k \in Objs : k # o => fileOp'[k] = fileOp[k]
    BY <1>1, <1>2 DEF CacheInv, TypeOK
  <1>4. TypeOK'
    <2>1. fileOp' \in [Objs -> [len : 0 .. MaxVersion, datas : Contents]]
      BY <1>1, <1>2 DEF CacheInv, TypeOK, File, Contents
    <2>2. request' \in [Requests -> [pc : {"idle", "load", "sync", "defer"},
                                     obj : 0 .. MaxObj, body : Contents]]
      BY <1>2 DEF CacheInv, TypeOK
    <2> QED
      BY <1>2, <2>1, <2>2 DEF CacheInv, TypeOK
  <1>5. Current'
    <2>1. CASE files = o
      BY <2>1, <1>1, <1>2, <1>3 DEF CacheInv, Current, File
    <2>2. CASE files # o
      <3>1. files # 0 => files \in Objs
        BY DEF CacheInv, TypeOK, Objs
      <3> QED
        BY <2>2, <3>1, <1>2, <1>3 DEF CacheInv, Current
    <2> QED
      BY <2>1, <2>2
  <1>6. Untouched'
    BY <1>1, <1>2, <1>3 DEF CacheInv, Untouched, Objs
  <1>7. Loading'
    <2> SUFFICES ASSUME NEW q \in Requests, request'[q].pc \in {"load", "sync"}
                 PROVE  /\ request'[q].obj \in 1 .. nobj
                        /\ fileOp'[request'[q].obj].datas.kind # "empty"
      BY <1>2 DEF Loading
    <2>1. request[q].pc \in {"load", "sync"} /\ request'[q].obj = request[q].obj
      BY <1>2 DEF CacheInv, TypeOK
    <2>2. request[q].obj \in 1 .. nobj /\ fileOp[request[q].obj].datas.kind # "empty"
      BY <2>1 DEF CacheInv, Loading
    <2>3. request[q].obj \in Objs
      BY <2>2 DEF CacheInv, TypeOK, Objs
    <2> QED
      BY <2>1, <2>2, <2>3, <1>3 DEF File
  <1> QED
    BY <1>4, <1>5, <1>6, <1>7 DEF CacheInv

(* The other steps of a request touch no fileOp. *)
LEMMA ServeInv ==
  ASSUME CacheInv, NEW r \in Requests, OpenFails(r) \/ ReadFails(r) \/ Respond(r)
  PROVE  CacheInv'
  <1> USE ResourceCacheAssumption
  <1>1. /\ UNCHANGED << disk, events, pathsUpdate, files, nobj, fileOp, hotUpdate >>
        /\ \E e \in [pc : {"idle", "sync", "defer"}, obj : 0 .. MaxObj, body : Contents] :
             /\ request' = [request EXCEPT ![r] = e]
             /\ e.pc = "sync" => request[r].pc = "load" /\ e.obj = request[r].obj
    <2>1. CASE OpenFails(r)
      <3> DEFINE e == [request[r] EXCEPT !.pc = "sync"]
      <3>1. e \in [pc : {"idle", "sync", "defer"}, obj : 0 .. MaxObj, body : Contents]
        BY DEF CacheInv, TypeOK
      <3>2. e.pc = "sync" /\ e.obj = request[r].obj /\ request' = [request EXCEPT ![r] = e]
        BY <2>1 DEF CacheInv, TypeOK, OpenFails
      <3> QED
        BY <2>1, <3>1, <3>2 DEF OpenFails
    <2>2. CASE ReadFails(r)
      <3> DEFINE e == [request[r] EXCEPT !.pc = "defer"]
      <3>1. e \in [pc : {"idle", "sync", "defer"}, obj : 0 .. MaxObj, body : Contents]
        BY DEF CacheInv, TypeOK
      <3>2. e.pc = "defer" /\ request' = [request EXCEPT ![r] = e]
        BY <2>2 DEF CacheInv, TypeOK, ReadFails
      <3> QED
        BY <2>2, <3>1, <3>2 DEF ReadFails
    <2>3. CASE Respond(r)
      <3> DEFINE b == IF request[r].obj = 0 THEN Blank("empty")
                      ELSE IF Alive(request[r].obj) THEN fileOp[request[r].obj].datas
                      ELSE Blank("freed")
                 e == [pc |-> "idle", obj |-> 0, body |-> b]
      <3>1. b \in Contents
        BY DEF CacheInv, TypeOK, Contents, Blank, Objs
      <3>2. e \in [pc : {"idle", "sync", "defer"}, obj : 0 .. MaxObj, body : Contents]
        BY <3>1
      <3>3. request' = [request EXCEPT ![r] = e]
        BY <2>3 DEF Respond
      <3> QED
        BY <2>3, <3>2, <3>3 DEF Respond
    <2> QED
      BY <2>1, <2>2, <2>3
  <1>2. TypeOK'
    BY <1>1 DEF CacheInv, TypeOK
  <1>3. Current' /\ Untouched'
    BY <1>1 DEF CacheInv, Current, Untouched
  <1>4. Loading'
    BY <1>1 DEF CacheInv, TypeOK, Loading
  <1> QED
    BY <1>2, <1>3, <1>4 DEF CacheInv

(* The watcher and the eviction: a change of the file leaves something      *)
(* pending, and nothing pending goes away but by an eviction.               *)
LEMMA UpdateInv ==
  ASSUME CacheInv, Modify \/ Notify \/ HotUpdate
  PROVE  CacheInv'
  <1> USE ResourceCacheAssumption
  <1>1. CASE Modify
    <2>1. TypeOK'
      BY <1>1 DEF CacheInv, TypeOK, Modify
    <2>2. Current'
      <3>1. CASE disk = 0
        BY <3>1, <1>1 DEF CacheInv, TypeOK, Untouched, Current, Modify, Objs
      <3>2. CASE disk # 0
        BY <3>2, <1>1 DEF CacheInv, TypeOK, Current, Modify
      <3> QED
        BY <3>1, <3>2
    <2>3. Untouched' /\ Loading'
      BY <1>1 DEF CacheInv, TypeOK, Untouched, Loading, Modify
    <2> QED
      BY <2>1, <2>2, <2>3 DEF CacheInv
  <1>2. CASE Notify
    <2>1. TypeOK'
      BY <1>2 DEF CacheInv, TypeOK, Notify
    <2>2. Current'
      BY <1>2 DEF CacheInv, TypeOK, Current, Notify
    <2>3. Untouched' /\ Loading'
      BY <1>2 DEF CacheInv, Untouched, Loading, Notify
    <2> QED
      BY <2>1, <2>2, <2>3 DEF CacheInv
  <1>3. CASE Arm \/ Expire
    BY <1>3 DEF CacheInv, TypeOK, Current, Untouched, Loading, Arm, Expire
  <1>4. CASE Drain
    <2>1. TypeOK'
      BY <1>4 DEF CacheInv, TypeOK, Drain, Queued, Evicted
    <2>2. Current'
      BY <1>4 DEF CacheInv, Current, Drain, Evicted
    <2>3. Untouched' /\ Loading'
      BY <1>4 DEF CacheInv, Untouched, Loading, Drain
    <2> QED
      BY <2>1, <2>2, <2>3 DEF CacheInv
  <1> QED
    BY <1>1, <1>2, <1>3, <1>4 DEF HotUpdate

(* Every step keeps the invariant. *)
LEMMA NextInv == CacheInv /\ [Next]_vars => CacheInv'
  <1> SUFFICES ASSUME CacheInv, [Next]_vars PROVE CacheInv'
    OBVIOUS
  <1>1. CASE Modify \/ Notify \/ HotUpdate
    BY <1>1, UpdateInv
  <1>2. ASSUME NEW r \in Requests, Request(r) PROVE CacheInv'
    BY <1>2, RequestInv
  <1>3. ASSUME NEW r \in Requests, Serve(r) PROVE CacheInv'
    BY <1>3, LoadedInv, ServeInv DEF Serve
  <1>4. CASE UNCHANGED vars
    BY <1>4 DEF CacheInv, TypeOK, Current, Untouched, Loading, vars
  <1> QED
    BY <1>1, <1>2, <1>3, <1>4 DEF Next

(* A load begins only on a fileOp whose _datas is empty, and no fileOp that *)
(* is being loaded is: so no two requests load the same one.                *)
LEMMA OneLoadStep == CacheInv /\ OneLoadPerFileOp /\ [Next]_vars => OneLoadPerFileOp'
  <1> SUFFICES ASSUME CacheInv, OneLoadPerFileOp, [Next]_vars PROVE OneLoadPerFileOp'
    OBVIOUS
  <1> DEFINE L == {"load", "sync"}
  <1>1. ASSUME NEW r \in Requests, Request(r), NEW q \in Requests, request'[q].pc \in L, q # r
        PROVE  request[q].pc \in L /\ request'[q].obj = request[q].obj
    BY <1>1 DEF CacheInv, TypeOK, Request, Found
  <1>2. ASSUME NEW r \in Requests, Request(r), request'[r].pc \in L
        PROVE  fileOp[request'[r].obj].datas.kind = "empty"
    BY <1>2 DEF CacheInv, TypeOK, Request, Found
  <1>3. ASSUME NEW r \in Requests, Request(r) PROVE OneLoadPerFileOp'
    <2>1. \A q \in Requests : q # r /\ request'[q].pc \in L
             => fileOp[request'[q].obj].datas.kind # "empty"
      BY <1>1, <1>3 DEF CacheInv, Loading
    <2> QED
      BY <2>1, <1>1, <1>2, <1>3 DEF OneLoadPerFileOp
  <1>4. ASSUME NEW r \in Requests, Serve(r), NEW q \in Requests, request'[q].pc \in L
        PROVE  request[q].pc \in L /\ request'[q].obj = request[q].obj
    BY <1>4 DEF CacheInv, TypeOK, Serve, OpenFails, Loaded, ReadFails, Respond
  <1>5. ASSUME NEW r \in Requests, Serve(r) PROVE OneLoadPerFileOp'
    BY <1>4, <1>5 DEF OneLoadPerFileOp
  <1>6. CASE request' = request
    BY <1>6 DEF OneLoadPerFileOp
  <1>7. Modify \/ Notify \/ HotUpdate \/ UNCHANGED vars => request' = request
    BY DEF Modify, Notify, HotUpdate, Arm, Expire, Drain, vars
  <1> QED
    BY <1>3, <1>5, <1>6, <1>7 DEF Next

(* The cache never offers old or torn contents once every modification has  *)
(* been reported and drained, for any number of requests, versions and      *)
(* evictions.                                                               *)
THEOREM NeverStaleWhenDrained == Spec => []StaleOnlyWhilePending
  <1>1. CacheInv => StaleOnlyWhilePending
    BY DEF CacheInv, TypeOK, Current, Stale, StaleOnlyWhilePending
  <1> QED
    BY <1>1, InitInv, NextInv, PTL DEF Spec

(* The _datas of a fileOp are never written by two loads at once, for any   *)
(* number of requests, however loads, evictions and failures interleave.    *)
THEOREM SingleLoader == Spec => []OneLoadPerFileOp
  <1>1. Init => OneLoadPerFileOp
    BY DEF Init, OneLoadPerFileOp
  <1> QED
    BY <1>1, InitInv, NextInv, OneLoadStep, PTL DEF Spec

(* Every reachable state of the cache is well typed, for every value of the *)
(* constants: the queue of reports never runs below zero.                   *)
THEOREM CacheTyped == Spec => []TypeOK
  <1>1. CacheInv => TypeOK
    BY DEF CacheInv
  <1> QED
    BY <1>1, InitInv, NextInv, PTL DEF Spec
=============================================================================
