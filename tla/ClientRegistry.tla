--------------------------- MODULE ClientRegistry ---------------------------
(***************************************************************************)
(* Server: the connected clients, the users logged in from them, and the   *)
(* kernel's socket descriptors both refer to.                              *)
(*                                                                         *)
(* `_clients' and `_clientUserMapping' are guarded by Server::_mutex, which*)
(* every operation below holds from its first to its last line, so each is *)
(* one atomic step of the thread that calls it.  The exception is the main *)
(* thread: run() looks an address up without the mutex and takes it only   *)
(* for the insertion, so accepting is three steps (acceptPc).  The unlocked*)
(* look-up races with the locked writers; its outcomes are those of a      *)
(* look-up before and of one after the write.                              *)
(*                                                                         *)
(* A Client is a value that is copied: the threads work on snapshots of    *)
(* `_clients' and hold a descriptor number long after it may have been     *)
(* closed and handed out again.                                            *)
(***************************************************************************)
EXTENDS Database, Integers, Sequences

CONSTANTS
  Addr,         \* "ip:port" of the peers
  FD,           \* descriptor numbers the kernel can hand out for connections
  NoAddr,
  NoSD,         \* no entry in `_clients'
  NoSession,    \* no entry in `_clientUserMapping'
  Request,      \* messages a peer can send
  MaxBatch,     \* bound: unread messages in one receive queue
  ReuseAddr     \* may a peer connect again from an address it used before?

ASSUME RegistryAssumption ==
  /\ FD \subseteq Nat
  /\ NoAddr \notin Addr
  /\ NoSD \notin FD
  /\ MaxBatch \in Nat \ {0}
  /\ ReuseAddr \in BOOLEAN

VARIABLES
  peer,               \* kernel: the address a descriptor is connected to
  link,               \* kernel: what became of that connection
  inbox,              \* kernel: messages received and not yet read
  seen,               \* addresses that connected to this process
  clients,            \* Server::_clients, the descriptor by address
  clientUserMapping,  \* Server::_clientUserMapping
  acceptPc, accepted  \* where the main thread is in Server::run, clientAddr
                      \* and connSD there

kernelVars  == <<peer, link, inbox, seen>>
sessionVars == <<clients, clientUserMapping>>
acceptVars  == <<acceptPc, accepted>>
registryVars == <<kernelVars, sessionVars, acceptVars>>

(***************************************************************************)
(* What the maps hold.  A User is a copy of a users' row: its identity,    *)
(* the position the client observes and whether it carries a faction name. *)
(***************************************************************************)
Client     == [addr : Addr, sd : FD]
NoClient   == [addr |-> NoAddr, sd |-> NoSD]
UserData   == [user : User \cup {NullUser}, tile : Tile, faction : BOOLEAN]

ASSUME NoSessionAssumption == NoSession \notin UserData

Link == {"open", "closed", "reset"}

KernelTypeOK ==
  /\ peer \in [FD -> Addr \cup {NoAddr}]
  /\ link \in [FD -> Link]
  /\ inbox \in [FD -> Seq(Request)]
  /\ seen \subseteq Addr

SessionTypeOK ==
  /\ clients \in [Addr -> FD \cup {NoSD}]
  /\ clientUserMapping \in [Addr -> UserData \cup {NoSession}]

AcceptTypeOK ==
  /\ acceptPc \in {"accept", "find", "insert"}
  /\ accepted \in Client \cup {NoClient}

RegistryTypeOK == KernelTypeOK /\ SessionTypeOK /\ AcceptTypeOK

RegistryEmpty ==
  /\ peer = [f \in FD |-> NoAddr]
  /\ link = [f \in FD |-> "open"]
  /\ inbox = [f \in FD |-> <<>>]
  /\ seen = {}
  /\ clients = [a \in Addr |-> NoSD]
  /\ clientUserMapping = [a \in Addr |-> NoSession]
  /\ acceptPc = "accept"
  /\ accepted = NoClient

(* The process is gone: the kernel has closed its descriptors. *)
RegistryRestart ==
  /\ peer' = [f \in FD |-> NoAddr]
  /\ link' = [f \in FD |-> "open"]
  /\ inbox' = [f \in FD |-> <<>>]
  /\ seen' = {}
  /\ clients' = [a \in Addr |-> NoSD]
  /\ clientUserMapping' = [a \in Addr |-> NoSession]
  /\ acceptPc' = "accept"
  /\ accepted' = NoClient

-----------------------------------------------------------------------------
(***************************************************************************)
(* The kernel and the peers.  A peer may connect from an address whose     *)
(* previous connection it has torn down; the server's descriptor for that  *)
(* one stays allocated until it is closed.                                 *)
(***************************************************************************)
Open(f) == peer[f] # NoAddr

Reachable(f) == Open(f) /\ link[f] # "reset"

PeerSend(f, r) ==
  /\ Open(f)
  /\ link[f] = "open"
  /\ Len(inbox[f]) < MaxBatch
  /\ inbox' = [inbox EXCEPT ![f] = Append(@, r)]
  /\ UNCHANGED <<peer, link, seen, sessionVars, acceptVars>>

(* A peer closes its end in order, or aborts the connection. *)
PeerClose(f, how) ==
  /\ Open(f)
  /\ link[f] = "open"
  /\ link' = [link EXCEPT ![f] = how]
  /\ UNCHANGED <<peer, inbox, seen, sessionVars, acceptVars>>

(* send(): the first one after the peer has closed still succeeds and      *)
(* makes the peer reset the connection.                                    *)
Delivered(f) ==
  /\ Reachable(f)
  /\ link' = [link EXCEPT ![f] = IF @ = "closed" THEN "reset" ELSE @]

(* send() < 0: EPIPE, EBADF, or EAGAIN from a peer that does not read. *)
Undelivered == UNCHANGED link

(* close(): EBADF on a descriptor that is free. *)
Close(f) ==
  /\ peer' = [peer EXCEPT ![f] = NoAddr]
  /\ link' = [link EXCEPT ![f] = "open"]
  /\ inbox' = [inbox EXCEPT ![f] = <<>>]

-----------------------------------------------------------------------------
(***************************************************************************)
(* The main thread: Server::run.                                           *)
(***************************************************************************)
Accept(a) ==
  /\ acceptPc = "accept"
  /\ ReuseAddr \/ a \notin seen
  /\ \A f \in FD : peer[f] = a => link[f] = "reset"
  /\ \E f \in FD :
       /\ ~Open(f)
       /\ \A g \in FD : ~Open(g) => f <= g     \* the lowest free number
       /\ peer' = [peer EXCEPT ![f] = a]
       /\ accepted' = [addr |-> a, sd |-> f]
  /\ seen' = seen \cup {a}
  /\ acceptPc' = "find"
  /\ UNCHANGED <<link, inbox, sessionVars>>

(* "Double connecting prevented": nobody closes connSD. *)
Find ==
  /\ acceptPc = "find"
  /\ \/ /\ clients[accepted.addr] = NoSD
        /\ acceptPc' = "insert"
        /\ UNCHANGED accepted
     \/ /\ clients[accepted.addr] # NoSD
        /\ acceptPc' = "accept"
        /\ accepted' = NoClient
  /\ UNCHANGED <<kernelVars, sessionVars>>

Insert ==
  /\ acceptPc = "insert"
  /\ clients' = [clients EXCEPT ![accepted.addr] = accepted.sd]
  /\ acceptPc' = "accept"
  /\ accepted' = NoClient
  /\ UNCHANGED <<kernelVars, clientUserMapping>>

-----------------------------------------------------------------------------
(***************************************************************************)
(* The operations the other threads call.                                  *)
(***************************************************************************)
getClientConnections ==
  {c \in Client : clients[c.addr] = c.sd}

(* NULL_USER both for an address without an entry and for an entry that    *)
(* updateUserData has default constructed.                                 *)
LoggedInFrom(a) ==
  clientUserMapping[a] # NoSession /\ clientUserMapping[a].user # NullUser

getUser(c) == clientUserMapping[c.addr]

loginUser(c, user) ==
  clientUserMapping' = [clientUserMapping EXCEPT ![c.addr] = user]

(* operator[] makes the entry it does not find. *)
updateUserData(c, t) ==
  clientUserMapping' =
    [clientUserMapping EXCEPT
       ![c.addr] = IF @ = NoSession
                   THEN [user |-> NullUser, tile |-> t, faction |-> FALSE]
                   ELSE [@ EXCEPT !.tile = t]]

(* Mutants of disconnectClient: leaves a default constructed Client behind;*)
(* closes the descriptor even if somebody else has dropped the client;     *)
(* leaves the client registered.                                           *)
disconnectClient_defaultEntry(c) ==
  /\ clients' = [clients EXCEPT ![c.addr] = 0]
  /\ clientUserMapping' = [clientUserMapping EXCEPT ![c.addr] = NoSession]
  /\ Close(c.sd)

disconnectClient_closesAlways(c) ==
  /\ clients' = [clients EXCEPT ![c.addr] = NoSD]
  /\ clientUserMapping' = [clientUserMapping EXCEPT ![c.addr] = NoSession]
  /\ Close(c.sd)

disconnectClient_keepsClient(c) ==
  /\ clientUserMapping' = [clientUserMapping EXCEPT ![c.addr] = NoSession]
  /\ Close(c.sd)
  /\ UNCHANGED clients

(* Closes the descriptor the caller remembers. *)
disconnectClient(c) ==
  \/ /\ clients[c.addr] # NoSD
     /\ clients' = [clients EXCEPT ![c.addr] = NoSD]
     /\ clientUserMapping' = [clientUserMapping EXCEPT ![c.addr] = NoSession]
     /\ Close(c.sd)
  \/ /\ clients[c.addr] = NoSD
     /\ UNCHANGED <<sessionVars, peer, link, inbox>>
=============================================================================
