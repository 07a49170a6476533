--------------------------- MODULE ResourceCache ---------------------------
(***************************************************************************)
(* The static resources of the HTTP server, for one path: FilePathMonitor  *)
(* caches a fileOp per path, fileOp loads the file on first use, the file  *)
(* watcher's thread reports modifications and a coroutine evicts.          *)
(*                                                                         *)
(* Three threads take part: the watcher (Modify, Notify), the io_context   *)
(* (requests and eviction) and the HTTP loop, which sends the response     *)
(* (Respond) from the memory the request was given a view of.  A file is   *)
(* its version; the build reads asynchronously (ASIO_HAS_IO_URING).        *)
(***************************************************************************)
EXTENDS Naturals, FiniteSets

CONSTANTS
  Requests,    \* coroutines that serve HTTP requests for the path
  MaxVersion,  \* bound: versions of the file
  MaxObj,      \* bound: fileOp objects made
  MayFail      \* whether opening and reading may fail

ASSUME ResourceCacheAssumption ==
  MaxVersion \in Nat /\ MaxObj \in Nat /\ MayFail \in BOOLEAN

VARIABLES
  disk,         \* version of the file on disk, 0 while it does not exist
  events,       \* modifications efsw has yet to report
  pathsUpdate,  \* FilePathMonitor::_pathsUpdate: how often it holds the path
  files,        \* FilePathMonitor::_files: the path's fileOp, 0 if none
  nobj,         \* fileOp objects made so far
  fileOp,       \* the fileOps: version of the size taken, what _datas holds
  hotUpdate,    \* the coroutine waitHotUpdate
  request       \* the requests: where they are, their fileOp, their body

vars == << disk, events, pathsUpdate, files, nobj, fileOp, hotUpdate, request >>

Objs == 1 .. MaxObj
(* What a piece of memory holds: no file, or bytes of version ver of the    *)
(* file cut to the size of version len.                                     *)
Blank(k) == [kind |-> k, len |-> 0, ver |-> 0]
File(l, v) == [kind |-> "file", len |-> l, ver |-> v]
Contents == [kind : {"empty", "zeros", "freed", "file"}, len : 0 .. MaxVersion, ver : 0 .. MaxVersion]

Init ==
  /\ disk = 0 /\ events = 0 /\ pathsUpdate = 0 /\ files = 0 /\ nobj = 0
  /\ fileOp = [o \in Objs |-> [len |-> 0, datas |-> Blank("empty")]]
  /\ hotUpdate = "arming"
  /\ request = [r \in Requests |-> [pc |-> "idle", obj |-> 0, body |-> Blank("empty")]]

-----------------------------------------------------------------------------
(* The environment changes the file; efsw will report it.  Creating the     *)
(* file is not reported as a modification.                                  *)
Modify ==
  /\ disk < MaxVersion
  /\ disk' = disk + 1
  /\ events' = IF disk = 0 THEN events ELSE events + 1
  /\ UNCHANGED << pathsUpdate, files, nobj, fileOp, hotUpdate, request >>

(* notifyFileModified: enqueue, then CoEvent::trigger, which cancels a wait *)
(* under way and is lost when there is none.                                *)
Notify ==
  /\ events > 0 /\ events' = events - 1
  /\ pathsUpdate' = pathsUpdate + 1
  /\ hotUpdate' = IF hotUpdate = "waiting" THEN "draining" ELSE hotUpdate
  /\ UNCHANGED << disk, files, nobj, fileOp, request >>

(* CoEvent::async_wait: the timer is set. *)
Arm ==
  /\ hotUpdate = "arming" /\ hotUpdate' = "waiting"
  /\ UNCHANGED << disk, events, pathsUpdate, files, nobj, fileOp, request >>

Expire_Never == FALSE /\ UNCHANGED vars
(* The timer of CoEvent::async_wait runs out, after an hour. *)
Expire ==
  /\ hotUpdate = "waiting" /\ hotUpdate' = "draining"
  /\ UNCHANGED << disk, events, pathsUpdate, files, nobj, fileOp, request >>

Evicted_Kept == files
(* _files.erase: a request that is loading keeps its fileOp alive. *)
Evicted == 0

(* try_dequeue finds a path. *)
Queued == pathsUpdate > 0

(* The inner loop of waitHotUpdate: evict one reported path, or go back to  *)
(* waiting when the queue is found empty.                                   *)
Drain ==
  /\ hotUpdate = "draining"
  /\ \/ /\ Queued
        /\ pathsUpdate' = pathsUpdate - 1 /\ files' = Evicted
        /\ UNCHANGED hotUpdate
     \/ /\ ~Queued
        /\ hotUpdate' = "arming"
        /\ UNCHANGED << pathsUpdate, files >>
  /\ UNCHANGED << disk, events, nobj, fileOp, request >>

-----------------------------------------------------------------------------
Resized_Late == Blank("empty")
(* dst.resize(len), before the read begins. *)
Resized == Blank("zeros")

(* asyncGetResource: the cached fileOp of the path, or a new one. *)
Found == IF files = 0 THEN nobj + 1 ELSE files

(* asyncGetResource and asyncGetData up to the first co_await: if nothing   *)
(* was loaded, take the size and start to read (getFileSize gives 0 while   *)
(* there is no file).  Anything in _datas, loaded or not, is taken for the  *)
(* file.  The branch that waits for a load needs a size and no _datas,      *)
(* which resize rules out.                                                  *)
Request(r) ==
  LET o == Found
  IN  /\ request[r].pc = "idle"
      /\ files = 0 => nobj < MaxObj
      /\ files' = o
      /\ nobj' = IF files = 0 THEN nobj + 1 ELSE nobj
      /\ \/ /\ fileOp[o].datas.kind = "empty" /\ disk > 0
            /\ fileOp' = [fileOp EXCEPT ![o] = [len |-> disk, datas |-> Resized]]
            /\ request' = [request EXCEPT ![r] = [pc |-> "load", obj |-> o, body |-> Blank("empty")]]
         \/ /\ fileOp[o].datas.kind = "empty" /\ disk = 0
            /\ request' = [request EXCEPT ![r] = [pc |-> "defer", obj |-> 0, body |-> Blank("empty")]]
            /\ UNCHANGED fileOp
         \/ /\ fileOp[o].datas.kind # "empty"
            /\ request' = [request EXCEPT ![r] = [pc |-> "defer", obj |-> o, body |-> Blank("empty")]]
            /\ UNCHANGED fileOp
      /\ UNCHANGED << disk, events, pathsUpdate, hotUpdate >>

(* The asynchronous open failed: fileOpSync::getData reads instead. *)
OpenFails(r) ==
  /\ MayFail /\ request[r].pc = "load"
  /\ request' = [request EXCEPT ![r].pc = "sync"]
  /\ UNCHANGED << disk, events, pathsUpdate, files, nobj, fileOp, hotUpdate >>

(* The read is complete: len bytes of the file as it is now. *)
Loaded(r) ==
  LET o == request[r].obj
  IN  /\ request[r].pc \in {"load", "sync"}
      /\ fileOp' = [fileOp EXCEPT ![o].datas = File(fileOp[o].len, disk)]
      /\ request' = [request EXCEPT ![r].pc = "defer"]
      /\ UNCHANGED << disk, events, pathsUpdate, files, nobj, hotUpdate >>

(* The read failed: bret was true from the start and the count is not       *)
(* looked at, so nobody notices.                                            *)
ReadFails(r) ==
  /\ MayFail /\ request[r].pc \in {"load", "sync"}
  /\ request' = [request EXCEPT ![r].pc = "defer"]
  /\ UNCHANGED << disk, events, pathsUpdate, files, nobj, fileOp, hotUpdate >>

(* A fileOp lives while _files or the coroutine of a request holds it. *)
Alive(o) == o = files \/ \E q \in Requests : request[q].obj = o /\ request[q].pc \in {"load", "sync"}

(* The HTTP loop sends what the string_view of the request shows by now. *)
Respond(r) ==
  LET o == request[r].obj
  IN  /\ request[r].pc = "defer"
      /\ request' = [request EXCEPT ![r] =
           [pc |-> "idle", obj |-> 0, body |-> IF o = 0 THEN Blank("empty")
                                               ELSE IF Alive(o) THEN fileOp[o].datas
                                               ELSE Blank("freed")]]
      /\ UNCHANGED << disk, events, pathsUpdate, files, nobj, fileOp, hotUpdate >>

-----------------------------------------------------------------------------
Serve(r) == OpenFails(r) \/ Loaded(r) \/ ReadFails(r) \/ Respond(r)
HotUpdate == Arm \/ Expire \/ Drain
Next == Modify \/ Notify \/ HotUpdate \/ \E r \in Requests : Request(r) \/ Serve(r)

Spec == Init /\ [][Next]_vars

(* The watcher reports what it saw, timers run out, reads end. *)
FairSpec == Spec /\ WF_vars(Notify) /\ WF_vars(HotUpdate) /\ \A r \in Requests : WF_vars(Serve(r))

-----------------------------------------------------------------------------
(* The variables have their types. *)
TypeOK ==
  /\ disk \in 0 .. MaxVersion /\ events \in Nat /\ pathsUpdate \in Nat
  /\ files \in 0 .. nobj /\ nobj \in 0 .. MaxObj
  /\ fileOp \in [Objs -> [len : 0 .. MaxVersion, datas : Contents]]
  /\ hotUpdate \in {"arming", "waiting", "draining"}
  /\ request \in [Requests -> [pc : {"idle", "load", "sync", "defer"},
                               obj : 0 .. MaxObj, body : Contents]]

(* What _files offers was read from an older file, or from two. *)
Stale == files # 0 /\ fileOp[files].datas.kind = "file"
                   /\ fileOp[files].datas # File(disk, disk)

(* The cache offers old or torn contents only while a modification is still *)
(* to be reported or to be drained: no load that overlaps a modification,   *)
(* an eviction and other requests leaves such contents behind.              *)
StaleOnlyWhilePending == Stale => events + pathsUpdate > 0

(* Old contents do not stay: even when the trigger is lost between two      *)
(* waits of waitHotUpdate, its timer brings the eviction.                   *)
StaleIsEvicted == Stale ~> ~Stale

(* At most one request at a time reads into the _datas of a fileOp.         *)
OneLoadPerFileOp ==
  \A q, r \in Requests :
    (request[q].pc \in {"load", "sync"} /\ request[r].pc \in {"load", "sync"}
       /\ request[q].obj = request[r].obj) => q = r

(* A request that finds a load under way waits for it to finish: no         *)
(* response is made of the zeros that _datas holds meanwhile.               *)
WaitsForLoad == \A r \in Requests : request[r].body.kind # "zeros"
=============================================================================
