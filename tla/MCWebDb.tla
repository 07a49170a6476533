------------------------------ MODULE MCWebDb ------------------------------
(* Two requests at two addresses, about one name: registering it, logging   *)
(* in with it, listing the users and its administrators.                    *)
EXTENDS WebDb

MCRequests ==
  {[op |-> "Regist", name |-> "a", phone |-> "p", pass |-> "w"],
   [op |-> "Login", name |-> "a", phone |-> Empty, pass |-> "w"],
   [op |-> "GetAllUsers"],
   [op |-> "GetSysAdmin", user |-> "a", phone |-> "p"]}

MCInitUsers == {<< >>}
=============================================================================
