-------------------------- MODULE AccountLifecycle --------------------------
(***************************************************************************)
(* What the server promises about an account, seen from outside: the flag  *)
(* users.logged_in admits one session at a time, a session ends well by a  *)
(* logout only, and an account whose session is lost any other way cannot  *)
(* be used again.  The welcome message warns of it: "REMEMBER to logout    *)
(* ... or you get permanently locked off of your account".                 *)
(***************************************************************************)
CONSTANT User

VARIABLE status

Status == {"free",       \* logged_in is FALSE
           "admitting",  \* logged_in is TRUE, the session is being made
           "online",     \* a connected client has the session
           "locked"}     \* logged_in is TRUE and nobody has the session

LifecycleTypeOK == status \in [User -> Status]

Init == status = [u \in User |-> "free"]

Move(u, from, to) ==
  /\ status[u] = from
  /\ status' = [status EXCEPT ![u] = to]

Admit(u) == Move(u, "free", "admitting")

(* A login can take over the address of another user's session. *)
Enter(u) ==
  /\ status[u] = "admitting"
  /\ \E lost \in SUBSET {v \in User : status[v] = "online"} :
       status' = [v \in User |-> IF v = u THEN "online"
                                 ELSE IF v \in lost THEN "locked"
                                 ELSE status[v]]

Leave(u) == Move(u, "online", "free")

(* A commit whose answer is lost with the connection to the database. *)
InDoubt(u) == Move(u, "free", "locked")

(* A client is dropped, a login meets a dropped client, the process dies. *)
Lose ==
  \E lost \in SUBSET {v \in User : status[v] \in {"admitting", "online"}} :
    status' = [v \in User |-> IF v \in lost THEN "locked" ELSE status[v]]

Next ==
  \/ \E u \in User : Admit(u) \/ Enter(u) \/ Leave(u) \/ InDoubt(u)
  \/ Lose

Spec == Init /\ [][Next]_status
=============================================================================
