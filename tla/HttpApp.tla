------------------------------ MODULE HttpApp ------------------------------
(***************************************************************************)
(* The HTTP application: handlers on the uWebSockets loop, a coroutine on  *)
(* the io_context for every request, and the answer deferred to the loop.  *)
(* A response is known by its address only: an aborted one is remembered in*)
(* _abortReps, and the loop gives the address of a response that is gone to*)
(* a later one.                                                            *)
(*                                                                         *)
(* The steps of the loop are atomic (one thread); so are those of the      *)
(* io_context.  An answer is the request it was made for.                  *)
(***************************************************************************)
EXTENDS Integers, Sequences, FiniteSets

CONSTANTS
  Reqs,       \* HTTP requests that may be made, each once
  Addrs,      \* addresses of HttpResponse objects
  MaxChunks   \* bound: pieces in which a body arrives

ASSUME HttpAssumption == MaxChunks \in Nat \ {0}

VARIABLES
  stage,      \* how far a request is
  route,      \* what it matched: a static resource or one of the routers
  addr,       \* the address of its response
  chunks,     \* pieces of the body still to come
  whole,      \* whether all pieces so far were kept in postdata
  live,       \* requests whose client waits for the response
  abortReps,  \* Apps::_abortReps
  deferred,   \* uWS::Loop: functions deferred to the loop
  got,        \* the answers written to the client of a request
  stray,      \* addresses on which end was called with nobody waiting there
  clean       \* history: no trace of an earlier request at the address

httpVars == << stage, route, addr, chunks, whole, live, abortReps, deferred, got, stray, clean >>

(* The templates of HttpCmdTag.h a route may be made with: _DB_JSON asks the *)
(* database at once, _CACHE_DB_JSON after a local function.                  *)
Routes == {"none", "static", "db", "cachedb"}

HttpInit ==
  /\ stage = [r \in Reqs |-> "new"]
  /\ route = [r \in Reqs |-> "none"]
  /\ addr = [r \in Reqs |-> CHOOSE a \in Addrs : TRUE]
  /\ chunks = [r \in Reqs |-> 0]
  /\ whole = [r \in Reqs |-> TRUE]
  /\ live = {} /\ abortReps = {} /\ deferred = << >>
  /\ got = [r \in Reqs |-> {}]
  /\ stray = {}
  /\ clean = [r \in Reqs |-> TRUE]

-----------------------------------------------------------------------------
InFlight(r) == stage[r] \in {"working", "asking", "answered", "deferred"}

(* Nothing is left of an earlier request at address a. *)
Clean(a) == a \notin abortReps /\ \A q \in Reqs : addr[q] = a => ~ InFlight(q)

(* A request begins at an address where no response is open: the handlers   *)
(* of _initRes (which spawns its coroutine) and of _initHttp (which waits   *)
(* for n pieces of data).                                                   *)
Begin(r, a, w, n) ==
  /\ stage[r] = "new"
  /\ w = "static" <=> n = 0
  /\ \A q \in live : addr[q] # a
  /\ stage' = [stage EXCEPT ![r] = IF w = "static" THEN "working" ELSE "body"]
  /\ route' = [route EXCEPT ![r] = w]
  /\ chunks' = [chunks EXCEPT ![r] = n]
  /\ addr' = [addr EXCEPT ![r] = a]
  /\ live' = live \cup {r}
  /\ clean' = [clean EXCEPT ![r] = Clean(a)]
  /\ UNCHANGED << whole, abortReps, deferred, got, stray >>

(* isEnd: the piece is the last one. *)
Last(r) == chunks[r] = 1

(* datadealer: one piece of the body.  If the address is among the aborted  *)
(* ones it leaves that set and the piece is thrown away.                    *)
Data(r) ==
  LET thrown == addr[r] \in abortReps
  IN  /\ stage[r] = "body" /\ r \in live
      /\ chunks' = [chunks EXCEPT ![r] = @ - 1]
      /\ abortReps' = abortReps \ {addr[r]}
      /\ whole' = [whole EXCEPT ![r] = @ /\ ~ thrown]
      /\ stage' = [stage EXCEPT ![r] = IF ~ Last(r) THEN "body"
                                       ELSE IF thrown THEN "dropped" ELSE "working"]
      /\ UNCHANGED << route, addr, live, deferred, got, stray, clean >>

(* onAborted *)
Aborted(a) == abortReps \cup {a}

(* The client goes away before the response has ended. *)
Abort(r) ==
  /\ r \in live
  /\ live' = live \ {r}
  /\ abortReps' = Aborted(addr[r])
  /\ stage' = [stage EXCEPT ![r] = IF @ = "body" THEN "over" ELSE @]
  /\ UNCHANGED << route, addr, chunks, whole, deferred, got, stray, clean >>

(* The coroutine of a route awaits its function, which asks the database ... *)
Ask(r) ==
  /\ stage[r] = "working" /\ route[r] \in {"db", "cachedb"} /\ whole[r]
  /\ stage' = [stage EXCEPT ![r] = "asking"]
  /\ UNCHANGED << route, addr, chunks, whole, live, abortReps, deferred, got, stray, clean >>

(* ... or answers by itself: a body that does not parse, a local answer, no *)
(* connection to the database; asyncGetResource returns for a static file;   *)
Answer(r) ==
  /\ stage[r] = "working"
  /\ stage' = [stage EXCEPT ![r] = "answered"]
  /\ UNCHANGED << route, addr, chunks, whole, live, abortReps, deferred, got, stray, clean >>

(* ... and the query has ended, with a reply or without. *)
Asked(r) ==
  /\ stage[r] = "asking"
  /\ stage' = [stage EXCEPT ![r] = "answered"]
  /\ UNCHANGED << route, addr, chunks, whole, live, abortReps, deferred, got, stray, clean >>

(* _loop->defer *)
Defer(r) ==
  /\ stage[r] = "answered"
  /\ stage' = [stage EXCEPT ![r] = "deferred"]
  /\ deferred' = Append(deferred, r)
  /\ UNCHANGED << route, addr, chunks, whole, live, abortReps, got, stray, clean >>

(* Whoever waits at an address. *)
At(a) == {q \in live : addr[q] = a}

(* rep->end *)
End(a, r) ==
  /\ got' = [q \in Reqs |-> IF q \in At(a) THEN got[q] \cup {r} ELSE got[q]]
  /\ live' = live \ At(a)
  /\ stray' = IF At(a) = {} THEN stray \cup {a} ELSE stray

Known_Never(a) == FALSE
(* _abortReps.find(rep) *)
Known(a) == a \in abortReps

(* _abortReps.erase(it) *)
Erased_Kept(a) == abortReps
Erased(a) == abortReps \ {a}

Target_ByReference(r) == IF live = {} THEN addr[r] ELSE addr[CHOOSE q \in live : TRUE]
(* rep, as the deferred function captured it. *)
Target(r) == addr[r]

(* The deferred function: an aborted response is forgotten, another ended.  *)
Run ==
  /\ deferred # << >>
  /\ LET r == Head(deferred)
         a == Target(r)
     IN  /\ IF Known(a)
            THEN abortReps' = Erased(a) /\ UNCHANGED << live, got, stray >>
            ELSE End(a, r) /\ UNCHANGED abortReps
         /\ stage' = [stage EXCEPT ![r] = "over"]
  /\ deferred' = Tail(deferred)
  /\ UNCHANGED << route, addr, chunks, whole, clean >>

-----------------------------------------------------------------------------
(* A client whose response got an address without a trace of an earlier     *)
(* request gets its own answer or none, and its body is complete.           *)
CleanGetsOwn ==
  \A r \in Reqs : clean[r] => /\ got[r] \subseteq {r}
                              /\ whole[r] /\ stage[r] # "dropped"

(* end is called on a response that is gone (a write into freed memory), or *)
(* an answer goes to the wrong client, only after an address was used again *)
(* while a trace of its earlier use was left: the set of addresses is       *)
(* sound as long as the allocator waits.                                    *)
ConfusionNeedsReuse ==
  (stray # {} \/ \E r \in Reqs : ~ got[r] \subseteq {r}) => \E r \in Reqs : ~ clean[r]

(* No entry of _abortReps outlives the request it was made for, except those*)
(* of bodies that were cut off: these stay until a later request pays.      *)
EntriesConsumed ==
  \A a \in abortReps : \E r \in Reqs : addr[r] = a /\ (InFlight(r) \/ chunks[r] > 0)

=============================================================================
