-------------------------------- MODULE Locks --------------------------------
(***************************************************************************)
(* The five mutexes of the server and the functions that take them.  Each  *)
(* of these functions holds one mutex from its beginning to its end, and   *)
(* may call others meanwhile.  What a thread calls, in what order and how  *)
(* often, is left open, so that every behaviour of the code is one of the  *)
(* model.  Sections of a function in a block of their own are functions    *)
(* here; those between them take no mutex and are left out, and so is the  *)
(* game thread, which takes none.                                          *)
(***************************************************************************)
EXTENDS Integers, Sequences, SequencesExt

CONSTANTS
  MainThread, HandlerThread,                  \* sets of threads; one of each
  WorldBroadcastThread, FactionBroadcastThread \* in the server

Thread == MainThread \cup HandlerThread \cup WorldBroadcastThread \cup FactionBroadcastThread

NoCall == "none"

(* The functions that hold each mutex. *)
sections ==
  [messageHandler |-> {"respond", "broadcastTo"},
   factions |-> {"addFaction", "spawnObject"},
   server |-> {"getClientConnections", "getUser", "loginUser", "logoutUser",
               "disconnectClient", "updateUserData", "updateUserFaction", "insertClient"},
   worldState |-> {"getTileState", "setTileState", "modifyTerrain", "copyTile",
                   "getAllFactions", "getChangedFactions", "resetChangedFactionsStatus"},
   database |-> {"exec_query"}]

Mutex == DOMAIN sections

Function == UNION {sections[m] : m \in Mutex}

(* Mutant: a response is sent under the mutex of the clients' registry. *)
mutexOf_respondOther(f) ==
  IF f = "respond" THEN "server" ELSE CHOOSE m \in Mutex : f \in sections[m]

mutexOf(f) == CHOOSE m \in Mutex : f \in sections[m]

(* Mutant: the answer to a logout is sent before its mutex is released. *)
callees_answersInside(f) ==
  CASE f = "broadcastTo" -> {"disconnectClient"}
    [] f = "logoutUser" -> {"exec_query", "respond"}
    [] OTHER -> {}

(* What a function calls while it holds its mutex. *)
callees(f) ==
  CASE f = "broadcastTo" -> {"disconnectClient"}
    [] f = "logoutUser" -> {"exec_query"}
    [] f = "addFaction" -> {"getUser", "exec_query", "updateUserFaction"}
    [] f = "spawnObject" -> {"getTileState", "setTileState"}
    [] OTHER -> {}

(* What a thread calls while it holds none: the main thread in Server::run, *)
(* the handler in its loop and in the functions of the messages.           *)
calls(t) ==
  (IF t \in MainThread THEN {"insertClient"} ELSE {})
    \cup (IF t \in HandlerThread
          THEN {"getClientConnections", "getUser", "loginUser", "logoutUser",
                "updateUserData", "exec_query", "addFaction", "spawnObject",
                "modifyTerrain", "getAllFactions", "respond"}
          ELSE {})
    \cup (IF t \in WorldBroadcastThread
          THEN {"getClientConnections", "getUser", "copyTile", "broadcastTo"} ELSE {})
    \cup (IF t \in FactionBroadcastThread
          THEN {"getChangedFactions", "getClientConnections", "broadcastTo",
                "resetChangedFactionsStatus"}
          ELSE {})

(* What a function itself does with what several threads use and may not   *)
(* use at once.                                                            *)
uses(f) ==
  CASE f \in {"respond", "broadcastTo"} -> {"send"}
    [] f = "exec_query" -> {"s_pConnection"}
    [] f \in {"getUser", "loginUser", "updateUserData", "logoutUser", "disconnectClient"} ->
         {"_clientUserMapping"}
    [] OTHER -> {}

VARIABLES
  stack,          \* the functions each thread is in, the innermost last
  waiting         \* the function each waits to enter, or NoCall

vars == <<stack, waiting>>

Init ==
  /\ stack = [t \in Thread |-> <<>>]
  /\ waiting = [t \in Thread |-> NoCall]

InnerCalls(t) == IF stack[t] = <<>> THEN calls(t) ELSE callees(Last(stack[t]))

Held(t) == {mutexOf(stack[t][i]) : i \in DOMAIN stack[t]}

-----------------------------------------------------------------------------
Call(t, f) ==
  /\ waiting[t] = NoCall
  /\ f \in InnerCalls(t)
  /\ waiting' = [waiting EXCEPT ![t] = f]
  /\ UNCHANGED stack

Acquire(t) ==
  /\ waiting[t] # NoCall
  /\ \A u \in Thread : mutexOf(waiting[t]) \notin Held(u)
  /\ stack' = [stack EXCEPT ![t] = Append(@, waiting[t])]
  /\ waiting' = [waiting EXCEPT ![t] = NoCall]

Release(t) ==
  /\ waiting[t] = NoCall
  /\ stack[t] # <<>>
  /\ stack' = [stack EXCEPT ![t] = Front(@)]
  /\ UNCHANGED waiting

Next ==
  \E t \in Thread :
    \/ \E f \in Function : Call(t, f)
    \/ Acquire(t)
    \/ Release(t)

Spec == Init /\ [][Next]_vars

-----------------------------------------------------------------------------
(* No threads wait for each other, and none for itself: std::mutex does    *)
(* not know its owner.                                                     *)
WaitsForOneOf(t, threads) ==
  /\ waiting[t] # NoCall
  /\ \E u \in threads : mutexOf(waiting[t]) \in Held(u)

NoDeadlock ==
  \A threads \in SUBSET Thread :
    threads # {} => \E t \in threads : ~WaitsForOneOf(t, threads)

(* Running(t, x): t is in a function that uses x, or waits inside it. *)
Running(t, x) == \E i \in DOMAIN stack[t] : x \in uses(stack[t][i])

(* The database connection, the users of the clients and the sending end   *)
(* of the sockets are never used by two threads at once, though functions  *)
(* of different components use them.  (The server's other map, _clients,   *)
(* is looked up in Server::run without a mutex, and Game's _factions is    *)
(* guarded by two different ones: neither has this property.)              *)
NeverShared ==
  \A t, u \in Thread :
    t # u => \A x \in {"send", "s_pConnection", "_clientUserMapping"} :
               ~(Running(t, x) /\ Running(u, x))
=============================================================================
