-------------------------------- MODULE Rpc --------------------------------
(***************************************************************************)
(* What the request/reply layer promises its callers: a call is pending    *)
(* from the moment it is made until it returns; a pending call is served   *)
(* at most once; it returns either the answer computed when it was served, *)
(* or nothing, and then it was not and never will be served.               *)
(***************************************************************************)
CONSTANTS
  Clients,   \* who calls
  NoId,      \* the name of no call
  Calls      \* the names the calls of a client may have

VARIABLES
  pending,   \* the call a client waits for
  result,    \* what a client's last call returned: the call whose answer it is
  done       \* the calls that were served

rpcVars == << pending, result, done >>

Init ==
  /\ pending = [c \in Clients |-> NoId]
  /\ result = [c \in Clients |-> NoId]
  /\ done = {}

Call(c, id) ==
  /\ pending[c] = NoId
  /\ id \notin done /\ \A d \in Clients : pending[d] # id
  /\ pending' = [pending EXCEPT ![c] = id]
  /\ result' = [result EXCEPT ![c] = NoId]
  /\ UNCHANGED done

Serve(c) ==
  /\ pending[c] # NoId /\ pending[c] \notin done
  /\ done' = done \cup {pending[c]}
  /\ UNCHANGED << pending, result >>

Return(c) ==
  /\ pending[c] # NoId /\ pending[c] \in done
  /\ result' = [result EXCEPT ![c] = pending[c]]
  /\ pending' = [pending EXCEPT ![c] = NoId]
  /\ UNCHANGED done

Fail(c) ==
  /\ pending[c] # NoId /\ pending[c] \notin done
  /\ pending' = [pending EXCEPT ![c] = NoId]
  /\ UNCHANGED << result, done >>

Next ==
  \E c \in Clients :
    \/ \E id \in Calls[c] : Call(c, id)
    \/ Serve(c) \/ Return(c) \/ Fail(c)

Spec == Init /\ [][Next]_rpcVars
=============================================================================
