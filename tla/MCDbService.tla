---------------------------- MODULE MCDbService ----------------------------
(* One name to register with two passwords, two administrators to add and   *)
(* one to remove, and a table that has two users of the same phone already. *)
EXTENDS DbService

User(n, w) == [name |-> n, phone |-> "p", pass |-> w]

MCRequests ==
  {[op |-> "Regist", name |-> "a", phone |-> "p", pass |-> w] : w \in {"w1", "w2"}}
    \cup {[op |-> "Garbled"], [op |-> "GetAllUsers"],
          [op |-> "Login", name |-> Empty, phone |-> "p", pass |-> "w1"],
          [op |-> "AddSysAdmin", user |-> "a", phone |-> "p", admins |-> << "x", "y" >>],
          [op |-> "DelSysAdmin", user |-> "a", phone |-> "p", admins |-> << "x" >>],
          [op |-> "GetSysAdmin", user |-> "a", phone |-> "p"],
          [op |-> "GetUserGenInfo", user |-> "a", phone |-> "p", fromdb |-> TRUE],
          [op |-> "GetUserGenInfo", user |-> "a", phone |-> "p", fromdb |-> FALSE]}

MCInitUsers == {<< User("b", "w2"), User("c", "w1") >>}
=============================================================================
