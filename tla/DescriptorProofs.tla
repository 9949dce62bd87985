-------------------------- MODULE DescriptorProofs --------------------------
(***************************************************************************)
(* While no address is used twice, every open descriptor belongs to the    *)
(* client that connected on it, and requests of a registered client come   *)
(* from its own peer.  The threads close and read the descriptor numbers   *)
(* of snapshots, so the invariant has to say what a stale snapshot can     *)
(* still hold: a client that is registered as it was, or not at all.       *)
(***************************************************************************)
EXTENDS SessionsProofs

(* What is known of a copy of a client. *)
Known(c) ==
  /\ c.addr \in seen
  /\ clients[c.addr] \in {NoSD, c.sd}
  /\ c.addr # accepted.addr

SnapshotsKnown ==
  /\ \A c \in currentClients : Known(c)
  /\ handlerPc # "client" => Known(client)
  /\ \A b \in Broadcaster :
       /\ \A c \in bClients[b] : Known(c)
       /\ bPc[b] \in {"send", "disconnect"} => Known(bClient[b])

(* The connection the main thread is registering. *)
AcceptedIsNew ==
  /\ acceptPc = "accept" => accepted = NoClient
  /\ acceptPc # "accept" => /\ clients[accepted.addr] = NoSD
                            /\ peer[accepted.sd] = accepted.addr
                            /\ accepted.addr \in seen

RegisteredSeen == \A a \in Addr : clients[a] # NoSD => a \in seen

FInv ==
  /\ FdsAccounted /\ RegisteredSender
  /\ AcceptedIsNew /\ RegisteredSeen /\ SnapshotsKnown

-----------------------------------------------------------------------------
LEMMA NoClientAddr == NoClient.addr = NoAddr /\ NoAddr \notin Addr
BY RegistryAssumption DEF NoClient

LEMMA InitFInv == Init => FInv
BY RegistryAssumption
   DEF Init, RegistryEmpty, ThreadsStart, AtStart, FInv, FdsAccounted,
       RegisteredSender, AcceptedIsNew, RegisteredSeen, SnapshotsKnown, Open,
       Broadcaster

LEMMA RestartFInv == Restart => FInv'
BY RegistryAssumption
   DEF Restart, RegistryRestart, AtStart, FInv, FdsAccounted,
       RegisteredSender, AcceptedIsNew, RegisteredSeen, SnapshotsKnown, Open,
       Broadcaster

LEMMA SameDescriptors ==
  ASSUME FInv,
         UNCHANGED <<peer, seen, clients, acceptVars, currentClients,
                     handlerPc, client, sender, bPc, bClients, bClient>>
  PROVE  FInv'
BY DEF FInv, FdsAccounted, RegisteredSender, AcceptedIsNew, RegisteredSeen,
   SnapshotsKnown, Known, Open, acceptVars

(* A fresh snapshot. *)
LEMMA SnapshotKnown ==
  ASSUME TInv, FInv, NEW c \in getClientConnections
  PROVE  Known(c)
<1>1. c.addr \in Addr /\ c.sd \in FD /\ clients[c.addr] = c.sd
  BY DEF getClientConnections, Client
<1>2. c.addr \in seen
  BY <1>1, RegistryAssumption DEF FInv, RegisteredSeen
<1>3. c.addr # accepted.addr
  BY <1>1, NoClientAddr, RegistryAssumption DEF FInv, AcceptedIsNew
<1> QED BY <1>1, <1>2, <1>3 DEF Known

(* A step of the handler thread that stays with its client or leaves it. *)
LEMMA HandlerKeeps ==
  ASSUME FInv,
         UNCHANGED <<peer, seen, clients, acceptVars, currentClients,
                     bPc, bClients, bClient>>,
         \/ handlerPc # "client" /\ UNCHANGED <<client, sender>>
         \/ handlerPc' = "client"
  PROVE  FInv'
BY DEF FInv, FdsAccounted, RegisteredSender, AcceptedIsNew, RegisteredSeen,
   SnapshotsKnown, Known, Open, acceptVars

-----------------------------------------------------------------------------
(* The main thread. *)
LEMMA AcceptFInv ==
  ASSUME TInv, FInv, ~ReuseAddr, AcceptConnection
  PROVE  FInv'
<1> PICK a \in Addr : Accept(a)
  BY DEF AcceptConnection
<1>1. UNCHANGED <<clients, handlerVars, bVars>>
  BY DEF Accept, AcceptConnection, sessionVars
<1>2. PICK f \in FD : /\ ~Open(f)
                      /\ peer' = [peer EXCEPT ![f] = a]
                      /\ accepted' = [addr |-> a, sd |-> f]
  BY DEF Accept
<1>3. a \notin seen /\ seen' = seen \cup {a} /\ accepted = NoClient
  BY DEF Accept, FInv, AcceptedIsNew
<1>4. peer[f] = NoAddr /\ peer \in [FD -> Addr \cup {NoAddr}] /\ NoAddr \notin Addr
  BY <1>2, RegistryAssumption DEF Open, TInv, KernelTypeOK
<1>5. clients \in [Addr -> FD \cup {NoSD}] /\ clients[a] = NoSD
  BY <1>3 DEF TInv, SessionTypeOK, FInv, RegisteredSeen
<1>6. FdsAccounted'
  <2>1. ASSUME NEW g \in FD, Open(g)'
        PROVE  \/ clients'[peer'[g]] = g
               \/ accepted' = [addr |-> peer'[g], sd |-> g]
    <3>1. CASE g = f
      BY <1>2, <1>4, <3>1
    <3>2. CASE g # f
      <4>1. peer'[g] = peer[g] /\ Open(g)
        BY <1>2, <1>4, <2>1, <3>2 DEF Open
      <4>2. accepted # [addr |-> peer[g], sd |-> g]
        BY <1>3, <4>1, NoClientAddr DEF Open, NoClient
      <4> QED BY <1>1, <4>1, <4>2 DEF FInv, FdsAccounted
    <3> QED BY <3>1, <3>2
  <2>2. ASSUME NEW c \in Addr, clients'[c] # NoSD
        PROVE  peer'[clients'[c]] = c
    <3>1. clients[c] \in FD /\ peer[clients[c]] = c
      BY <1>1, <1>5, <2>2 DEF FInv, FdsAccounted
    <3> QED BY <1>1, <1>2, <1>4, <3>1
  <2> QED BY <2>1, <2>2 DEF FdsAccounted
<1>7. RegisteredSender'
  BY <1>1 DEF FInv, RegisteredSender, handlerVars
<1>8. AcceptedIsNew'
  BY <1>1, <1>2, <1>3, <1>4, <1>5 DEF AcceptedIsNew, Accept
<1>9. RegisteredSeen'
  BY <1>1, <1>3 DEF FInv, RegisteredSeen
<1>10. ASSUME NEW c, Known(c) PROVE Known(c)'
  BY <1>1, <1>2, <1>3, <1>10 DEF Known
<1>11. SnapshotsKnown'
  BY <1>1, <1>10 DEF FInv, SnapshotsKnown, handlerVars, bVars
<1> QED BY <1>6, <1>7, <1>8, <1>9, <1>11 DEF FInv

LEMMA RegisterFInv ==
  ASSUME TInv, FInv, RegisterConnection
  PROVE  FInv'
<1>1. UNCHANGED <<kernelVars, handlerVars, bVars>>
  BY DEF RegisterConnection, Find, Insert
<1>2. acceptPc # "accept" /\ accepted.addr \in Addr /\ accepted.sd \in FD
  BY DEF RegisterConnection, Find, Insert, TInv, AInv, AcceptOK, Client
<1>3. CASE Find
  <2>1. UNCHANGED <<clients, accepted>> /\ acceptPc' # "accept"
    BY <1>2, <1>3 DEF Find, FInv, AcceptedIsNew, sessionVars
  <2> QED
    BY <1>1, <1>2, <2>1
       DEF FInv, FdsAccounted, RegisteredSender, AcceptedIsNew,
           RegisteredSeen, SnapshotsKnown, Known, Open, kernelVars,
           handlerVars, bVars
<1>4. CASE Insert
  <2>1. /\ clients' = [clients EXCEPT ![accepted.addr] = accepted.sd]
        /\ acceptPc' = "accept" /\ accepted' = NoClient
        /\ clients \in [Addr -> FD \cup {NoSD}]
    BY <1>4 DEF Insert, TInv, SessionTypeOK
  <2>2. UNCHANGED <<peer, seen>>
    BY <1>1 DEF kernelVars
  <2>3. FdsAccounted'
    <3>1. ASSUME NEW f \in FD, Open(f)'
          PROVE  clients'[peer'[f]] = f
      <4>1. Open(f) /\ peer[f] \in Addr
        BY <2>2, <3>1 DEF Open, TInv, KernelTypeOK
      <4>2. \/ clients[peer[f]] = f
            \/ accepted = [addr |-> peer[f], sd |-> f]
        BY <4>1 DEF FInv, FdsAccounted
      <4>3. CASE peer[f] = accepted.addr
        <5>1. clients[peer[f]] # f
          BY <1>2, <4>3, RegistryAssumption DEF FInv, AcceptedIsNew
        <5> QED BY <2>1, <2>2, <4>1, <4>2, <5>1
      <4>4. CASE peer[f] # accepted.addr
        BY <2>1, <2>2, <4>1, <4>2, <4>4
      <4> QED BY <4>3, <4>4
    <3>2. ASSUME NEW a \in Addr, clients'[a] # NoSD
          PROVE  peer'[clients'[a]] = a
      BY <1>2, <2>1, <2>2, <3>2 DEF FInv, FdsAccounted, AcceptedIsNew
    <3> QED BY <3>1, <3>2 DEF FdsAccounted
  <2>4. ASSUME NEW c \in Client, Known(c)
        PROVE  Known(c)' /\ clients'[c.addr] = clients[c.addr]
    BY <1>2, <2>1, <2>2, <2>4, NoClientAddr DEF Known, Client
  <2>5. SnapshotsKnown'
    BY <1>1, <2>4
       DEF FInv, SnapshotsKnown, handlerVars, bVars, TInv, HInv,
           HandlerTypeOK, HandlerOK, BInv, BroadcastTypeOK, BroadcastersOK
  <2>6. RegisteredSender'
    BY <1>1, <2>4 DEF FInv, SnapshotsKnown, RegisteredSender, handlerVars,
       TInv, HInv, HandlerOK
  <2>7. RegisteredSeen'
    BY <1>2, <2>1, <2>2 DEF FInv, RegisteredSeen, AcceptedIsNew
  <2> QED BY <2>1, <2>3, <2>5, <2>6, <2>7 DEF FInv, AcceptedIsNew
<1> QED BY <1>3, <1>4 DEF RegisterConnection

-----------------------------------------------------------------------------
(* disconnectClient by a broadcasting thread, of the client it remembers. *)
LEMMA DisconnectFInv ==
  ASSUME TInv, FInv, NEW b \in Broadcaster, BDisconnect(b)
  PROVE  FInv'
<1> DEFINE c == bClient[b]
<1>1. c \in Client /\ c.addr \in Addr /\ c.sd \in FD /\ Known(c)
  BY DEF TInv, BInv, BroadcastersOK, BDisconnect, FInv, SnapshotsKnown, Client
<1>2. /\ UNCHANGED <<seen, acceptVars, handlerVars, bClients>>
      /\ \A d \in Broadcaster : bPc'[d] \in {"send", "disconnect"} =>
           bPc[d] \in {"send", "disconnect"} /\ bClient'[d] = bClient[d]
  BY DEF BDisconnect, BGoto, TInv, BInv, BroadcastTypeOK
<1>3. CASE clients[c.addr] = NoSD
  <2>1. UNCHANGED <<clients, peer>>
    BY <1>3 DEF BDisconnect, disconnectClient, sessionVars
  <2> QED
    BY <1>2, <2>1
       DEF FInv, FdsAccounted, RegisteredSender, AcceptedIsNew,
           RegisteredSeen, SnapshotsKnown, Known, Open, acceptVars,
           handlerVars
<1>4. CASE clients[c.addr] # NoSD
  <2>1. /\ clients' = [clients EXCEPT ![c.addr] = NoSD]
        /\ peer' = [peer EXCEPT ![c.sd] = NoAddr]
    BY <1>4 DEF BDisconnect, disconnectClient, Close
  <2>2. clients[c.addr] = c.sd /\ peer[c.sd] = c.addr
    BY <1>1, <1>4 DEF Known, FInv, FdsAccounted
  <2>3. /\ clients \in [Addr -> FD \cup {NoSD}]
        /\ peer \in [FD -> Addr \cup {NoAddr}]
    BY DEF TInv, SessionTypeOK, KernelTypeOK
  <2>4. FdsAccounted'
    <3>1. ASSUME NEW f \in FD, Open(f)'
          PROVE  \/ clients'[peer'[f]] = f
                 \/ accepted' = [addr |-> peer'[f], sd |-> f]
      <4>1. f # c.sd /\ peer'[f] = peer[f] /\ Open(f) /\ peer[f] \in Addr
        BY <1>1, <2>1, <2>3, <3>1 DEF Open
      <4>2. \/ clients[peer[f]] = f
            \/ accepted = [addr |-> peer[f], sd |-> f]
        BY <4>1 DEF FInv, FdsAccounted
      <4>3. UNCHANGED accepted
        BY <1>2 DEF acceptVars
      <4> QED BY <1>1, <2>1, <2>2, <2>3, <4>1, <4>2, <4>3
    <3>2. ASSUME NEW a \in Addr, clients'[a] # NoSD
          PROVE  peer'[clients'[a]] = a
      <4>1. a # c.addr /\ clients'[a] = clients[a]
        BY <1>1, <2>1, <2>3, <3>2
      <4>2. clients[a] \in FD /\ peer[clients[a]] = a
        BY <2>3, <3>2, <4>1 DEF FInv, FdsAccounted
      <4> QED BY <1>1, <2>1, <2>2, <2>3, <4>1, <4>2
    <3> QED BY <3>1, <3>2 DEF FdsAccounted
  <2>5. ASSUME NEW d \in Client, Known(d) PROVE Known(d)'
    BY <1>1, <1>2, <2>1, <2>3, <2>5 DEF Known, Client, acceptVars
  <2>6. SnapshotsKnown'
    BY <1>2, <2>5
       DEF FInv, SnapshotsKnown, handlerVars, TInv, HInv, HandlerTypeOK,
           HandlerOK, BInv, BroadcastTypeOK, BroadcastersOK
  <2>7. RegisteredSender'
    <3>1. handlerPc # "client" => client.addr \in Addr /\ client.sd \in FD
      BY DEF TInv, HInv, HandlerOK, Client
    <3> QED
      BY <1>1, <1>2, <2>1, <2>3, <3>1, RegistryAssumption
         DEF FInv, RegisteredSender, handlerVars
  <2>8. AcceptedIsNew'
    <3>1. UNCHANGED <<acceptPc, accepted, seen>>
      BY <1>2 DEF acceptVars
    <3>2. acceptPc # "accept" => accepted.addr \in Addr /\ accepted.sd \in FD
      BY DEF TInv, AInv, AcceptOK, Client
    <3>3. acceptPc # "accept" => accepted.sd # c.sd
      BY <1>1, <2>2 DEF FInv, AcceptedIsNew, Known
    <3> QED
      BY <1>1, <2>1, <2>3, <3>1, <3>2, <3>3 DEF FInv, AcceptedIsNew
  <2>9. RegisteredSeen'
    BY <1>1, <1>2, <2>1, <2>3 DEF FInv, RegisteredSeen
  <2> QED BY <2>4, <2>6, <2>7, <2>8, <2>9 DEF FInv
<1> QED BY <1>3, <1>4

(* The other steps of the broadcasting threads. *)
LEMMA BroadcastFInv ==
  ASSUME TInv, FInv,
         \/ WorldSnapshot \/ GetChangedFactions \/ FactionSnapshot
         \/ FactionRoundDone
         \/ \E b \in Broadcaster : BNext(b) \/ BSend(b)
  PROVE  FInv'
<1>1. UNCHANGED <<peer, seen, clients, acceptVars, handlerVars>>
  BY DEF WorldSnapshot, GetChangedFactions, FactionSnapshot, FactionRoundDone,
     BNext, BSend, registryVars, kernelVars, sessionVars
<1> DEFINE OldOrFresh(b) ==
             /\ \A c \in bClients'[b] :
                  c \in bClients[b] \/ c \in getClientConnections
             /\ bPc'[b] \in {"send", "disconnect"} =>
                  \/ /\ bPc[b] \in {"send", "disconnect"}
                     /\ bClient'[b] = bClient[b]
                  \/ bClient'[b] \in bClients[b]
<1>2. ASSUME NEW b \in Broadcaster PROVE OldOrFresh(b)
  <2> USE DEF TInv, BInv, BroadcastTypeOK, Broadcaster, BGoto
  <2>1. CASE WorldSnapshot
    BY <2>1 DEF WorldSnapshot
  <2>2. CASE GetChangedFactions
    BY <2>2 DEF GetChangedFactions
  <2>3. CASE FactionSnapshot
    BY <2>3 DEF FactionSnapshot
  <2>4. CASE FactionRoundDone
    BY <2>4 DEF FactionRoundDone
  <2>5. ASSUME NEW d \in Broadcaster, BNext(d)
        PROVE  OldOrFresh(b)
    BY <2>5 DEF BNext
  <2>6. ASSUME NEW d \in Broadcaster, BSend(d)
        PROVE  OldOrFresh(b)
    BY <2>6 DEF BSend
  <2> QED BY <2>1, <2>2, <2>3, <2>4, <2>5, <2>6
<1>3. ASSUME NEW c, Known(c) PROVE Known(c)'
  BY <1>1, <1>3 DEF Known, acceptVars
<1>4. SnapshotsKnown'
  BY <1>1, <1>2, <1>3, SnapshotKnown DEF FInv, SnapshotsKnown, handlerVars
<1> QED
  BY <1>1, <1>4
     DEF FInv, FdsAccounted, RegisteredSender, AcceptedIsNew, RegisteredSeen,
         Open, acceptVars, handlerVars

-----------------------------------------------------------------------------
(* The handler thread. *)
LEMMA HandlerFInv ==
  ASSUME TInv, FInv, handleClientMessages
  PROVE  FInv'
<1>1. CASE HandlerSnapshot
  <2>1. UNCHANGED <<peer, seen, clients, acceptVars, handlerPc, client, sender,
                    bVars>>
    BY <1>1 DEF HandlerSnapshot, registryVars, kernelVars, sessionVars
  <2>2. \A c \in currentClients' : Known(c)
    BY <1>1, SnapshotKnown DEF HandlerSnapshot
  <2> QED
    BY <2>1, <2>2
       DEF FInv, FdsAccounted, RegisteredSender, AcceptedIsNew,
           RegisteredSeen, SnapshotsKnown, Known, Open, acceptVars, bVars
<1>2. CASE Read
  <2>1. UNCHANGED <<peer, seen, clients, acceptVars, bVars>>
    BY <1>2 DEF Read, sessionVars
  <2>2. PICK c \in currentClients :
          /\ currentClients' = currentClients \ {c}
          /\ \/ UNCHANGED <<handlerPc, client, sender>>
             \/ client' = c /\ sender' = peer[c.sd]
    BY <1>2 DEF Read
  <2>3. c \in Client /\ Known(c)
    BY DEF FInv, SnapshotsKnown, TInv, HInv, HandlerTypeOK
  <2>4. clients[c.addr] = c.sd => peer[c.sd] = c.addr
    BY <2>3, RegistryAssumption DEF FInv, FdsAccounted, Client
  <2>5. handlerPc = "client" /\ handlerPc' \in {"client", "message"}
    BY <1>2 DEF Read
  <2>6. RegisteredSender' /\ SnapshotsKnown'
    BY <2>1, <2>2, <2>3, <2>4, <2>5
       DEF FInv, RegisteredSender, SnapshotsKnown, Known, acceptVars,
           bVars
  <2> QED
    BY <2>1, <2>6
       DEF FInv, FdsAccounted, AcceptedIsNew, RegisteredSeen, Open, acceptVars
<1>3. CASE ~(HandlerSnapshot \/ Read)
  <2>1. UNCHANGED <<peer, seen, clients, acceptVars, currentClients, bVars>>
    BY <1>3
       DEF handleClientMessages, SendResponse, LoginSelect, LoginUpdate,
           LoginUser, LoginFaction, LogoutGetUser, SavePos, LogoutUser,
           ObserveGetUser, UpdateUserData, AddFaction, FactionOwner,
           FactionInsert, Register, ServerInfo, Lists, Exec, NoResponse,
           NextMessage, Respond, Goto, GotoWith, registryVars, kernelVars,
           sessionVars
  <2>2. \/ handlerPc # "client" /\ UNCHANGED <<client, sender>>
        \/ handlerPc' = "client"
    BY <1>3
       DEF handleClientMessages, SendResponse, LoginSelect, LoginUpdate,
           LoginUser, LoginFaction, LogoutGetUser, SavePos, LogoutUser,
           ObserveGetUser, UpdateUserData, AddFaction, FactionOwner,
           FactionInsert, Register, ServerInfo, Lists, Exec, NoResponse,
           NextMessage, Respond, Goto, GotoWith
  <2> QED BY <2>1, <2>2, HandlerKeeps DEF bVars
<1> QED BY <1>1, <1>2, <1>3

-----------------------------------------------------------------------------
LEMMA NextFInv ==
  ASSUME ~ReuseAddr
  PROVE  TInv /\ FInv /\ [Next]_vars => FInv'
<1> SUFFICES ASSUME TInv, FInv, [Next]_vars PROVE FInv'
  OBVIOUS
<1>1. CASE handleClientMessages
  BY <1>1, HandlerFInv
<1>2. CASE AcceptConnection \/ RegisterConnection
  BY <1>2, AcceptFInv, RegisterFInv
<1>3. CASE broadcastWorldState \/ broadcastFactionStates
  BY <1>3, BroadcastFInv, DisconnectFInv
     DEF broadcastWorldState, broadcastFactionStates, BroadcastStep,
         Broadcaster
<1>4. CASE Restart
  BY <1>4, RestartFInv
<1>5. CASE Peers
  <2>1. UNCHANGED <<peer, seen, clients, acceptVars, handlerVars, bVars>>
    BY <1>5 DEF Peers, PeerSend, PeerClose, sessionVars
  <2> QED BY <2>1, SameDescriptors DEF handlerVars, bVars
<1>6. CASE UNCHANGED vars
  BY <1>6, SameDescriptors DEF vars, registryVars, kernelVars, sessionVars,
     handlerVars, bVars
<1> QED BY <1>1, <1>2, <1>3, <1>4, <1>5, <1>6 DEF Next

THEOREM DescriptorInvariant ==
  ASSUME ~ReuseAddr
  PROVE  Spec => []FInv
BY TypeInvariant, InitFInv, NextFInv, PTL DEF Spec

(* While no address is used twice, nobody leaks a descriptor or closes one *)
(* that belongs to somebody else (Server.cpp:373).                         *)
THEOREM DescriptorsAccounted ==
  ASSUME ~ReuseAddr
  PROVE  Spec => []FdsAccounted
<1>1. FInv => FdsAccounted
  BY DEF FInv
<1> QED BY <1>1, DescriptorInvariant, PTL

(* ... and a registered client's requests are its own peer's               *)
(* (MessageHandler.cpp:56).                                                *)
THEOREM RequestsFromOwnPeer ==
  ASSUME ~ReuseAddr
  PROVE  Spec => []RegisteredSender
<1>1. FInv => RegisteredSender
  BY DEF FInv
<1> QED BY <1>1, DescriptorInvariant, PTL
=============================================================================
