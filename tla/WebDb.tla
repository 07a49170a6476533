------------------------------- MODULE WebDb -------------------------------
(***************************************************************************)
(* The HTTP application in front of the database service: a request of a   *)
(* route becomes a query of the same identity, its reply the answer.  The  *)
(* call in between is that of ConnPool and ReqRep: it reaches the service  *)
(* and is answered, or it fails before it was sent, or a crash of the      *)
(* service leaves it without an end.                                       *)
(***************************************************************************)
EXTENDS HttpApp, DbService

vars == << httpVars, dbVars >>

Init == HttpInit /\ DbInit

(* DealAuth: registration and login go on to the database, the others are  *)
(* answered from the token alone.                                          *)
NeedNextRouter(x) == x.op \in {"Regist", "Login"}

(* executeQuery in T_ROUTER_NEED_DB_JSON and T_ROUTER_NEED_CACHE_DB_JSON.   *)
ExecuteQuery(r, x) ==
  /\ route[r] = "cachedb" => NeedNextRouter(x)
  /\ Ask(r) /\ Arrive(r, x)

(* executeQuery has returned. *)
QueryEnded(r) == reply[r] # NoReply

QueryReturns(r) == QueryEnded(r) /\ Asked(r)

Loop ==
  \/ \E r \in Reqs, a \in Addrs, w \in Routes \ {"none"}, n \in 0 .. MaxChunks : Begin(r, a, w, n)
  \/ \E r \in Reqs : Data(r) \/ Abort(r)
  \/ Run

Coroutine(r) == Answer(r) \/ QueryReturns(r) \/ Defer(r)

Next ==
  \/ (Loop \/ \E r \in Reqs : Coroutine(r)) /\ UNCHANGED dbVars
  \/ \E r \in Reqs, x \in Requests : ExecuteQuery(r, x)
  \/ DbStep /\ UNCHANGED httpVars

(* Coroutines that can go on do, the loop runs what was deferred to it and  *)
(* reads what a client sent; clients need not come, nor stay.               *)
Fairness ==
  /\ WF_vars(Run /\ UNCHANGED dbVars)
  /\ \A r \in Reqs :
       /\ WF_vars(Data(r) /\ UNCHANGED dbVars)
       /\ WF_vars((Coroutine(r) /\ UNCHANGED dbVars) \/ \E x \in Requests : ExecuteQuery(r, x))
       /\ WF_vars((AsyncWait(r) \/ Trigger(r)) /\ UNCHANGED httpVars)
       /\ WF_vars((OpenDb(r) \/ Statement(r)) /\ UNCHANGED httpVars)
  /\ WF_vars(RouterTake /\ UNCHANGED httpVars)

Spec == Init /\ [][Next]_vars /\ Fairness

-----------------------------------------------------------------------------
(* A client at a clean address that stays gets its own answer, unless the   *)
(* service crashed with its query: through body, coroutine, database and    *)
(* deferred function, statements that throw included.                       *)
CleanServed ==
  \A r \in Reqs : (clean[r] /\ r \in live) ~> (got[r] = {r} \/ r \notin live \/ r \in lost)

=============================================================================
