--------------------------- MODULE SessionsProofs ---------------------------
(***************************************************************************)
(* Invariance proofs for Sessions, for every set of users, addresses,      *)
(* descriptors and messages.                                               *)
(***************************************************************************)
EXTENDS Sessions, TLAPS

(***************************************************************************)
(* What the locals of the threads hold while they are in use.              *)
(***************************************************************************)
HandlerOK ==
  /\ handlerPc # "client" => batch # <<>> /\ client \in Client
  /\ handlerPc = "updateUserData" => request.kind = "observe"
  /\ handlerPc \in {"owner", "insertFaction"} => request.kind = "faction"

BroadcastersOK ==
  \A b \in Broadcaster :
    bPc[b] \in {"send", "disconnect"} => bClient[b] \in Client

AcceptOK == acceptPc # "accept" => accepted \in Client

(* The invariant, one part for each group of variables. *)
AInv == AcceptTypeOK /\ AcceptOK
HInv == HandlerTypeOK /\ HandlerOK
BInv == BroadcastTypeOK /\ BroadcastersOK

TInv ==
  /\ DBTypeOK /\ KernelTypeOK /\ SessionTypeOK /\ AInv
  /\ HInv /\ GameTypeOK /\ BInv
  /\ restarts \in 0 .. MaxRestarts

-----------------------------------------------------------------------------
(* The fields of the messages. *)
LEMMA RequestFields ==
  ASSUME NEW r \in Request
  PROVE  /\ r.kind \in {"login", "register"} => r.user \in User
         /\ r.kind = "observe" => r.tile \in Tile
         /\ r.kind = "faction" => r.name \in FactionName
BY SessionsAssumption DEF Requests

(* The first message of a batch, and what is left of it. *)
LEMMA Batches ==
  ASSUME NEW s \in Seq(Request), s # <<>>
  PROVE  Head(s) \in Request /\ Tail(s) \in Seq(Request)
OBVIOUS

LEMMA Snapshot == getClientConnections \subseteq Client
BY DEF getClientConnections

(* What a start gets to know of the table. *)
LEMMA StartTypes ==
  ASSUME NEW s \in SelectFactions, DOMAIN factionOwner \subseteq FactionName
  PROVE  /\ s.up \in BOOLEAN
         /\ Loaded(s.rows) \subseteq FactionName
         /\ UpdatedAtStart(s.rows) \subseteq Loaded(s.rows)
BY DatabaseAssumption DEF SelectFactions, Loaded, UpdatedAtStart

(* The initial state. *)
LEMMA InitTInv == Init => TInv
<1> SUFFICES ASSUME Init PROVE TInv
  OBVIOUS
<1> USE DatabaseAssumption, RegistryAssumption, SessionsAssumption
<1>1. DBTypeOK
  <2>1. dbUp \in BOOLEAN
    BY DEF Init, LoadFactions, SelectFactions
  <2> QED
    BY <2>1 DEF Init, DBInit, DBTypeOK
<1>2. RegistryTypeOK
  BY DEF Init, RegistryEmpty, RegistryTypeOK, KernelTypeOK, SessionTypeOK,
     AcceptTypeOK, Link
<1>3. NoUser \in UserData
  BY DEF NoUser, UserData
<1>4. HandlerTypeOK
  <2>1. saved \in BOOLEAN
    BY Zenon DEF Init, ThreadsStart
  <2>2. batch \in Seq(Request) /\ currentClients \subseteq Client
    BY DEF Init, ThreadsStart
  <2> QED
    BY <1>3, <2>1, <2>2 DEF HandlerTypeOK, Init, ThreadsStart, HandlerPc
<1>5. GameTypeOK
  BY <1>1, StartTypes DEF GameTypeOK, Init, LoadFactions, DBTypeOK
<1>6. BroadcastTypeOK
  <2>1. AtStart \in [Broadcaster -> BroadcasterPc]
    BY DEF AtStart, BroadcasterPc
  <2> QED
    BY <2>1 DEF BroadcastTypeOK, Init, ThreadsStart
<1>7. HandlerOK /\ BroadcastersOK /\ AcceptOK
  BY DEF HandlerOK, BroadcastersOK, AcceptOK, Init, ThreadsStart, AtStart,
     RegistryEmpty, Broadcaster
<1> QED
  BY <1>1, <1>2, <1>4, <1>5, <1>6, <1>7
     DEF TInv, AInv, HInv, BInv, RegistryTypeOK, Init

-----------------------------------------------------------------------------
(* A group of variables that a step leaves alone keeps its part. *)
LEMMA DBSame == DBTypeOK /\ UNCHANGED dbVars => DBTypeOK'
BY DEF DBTypeOK, dbVars, tables

LEMMA KernelSame == KernelTypeOK /\ UNCHANGED kernelVars => KernelTypeOK'
BY DEF KernelTypeOK, kernelVars

LEMMA SessionSame == SessionTypeOK /\ UNCHANGED sessionVars => SessionTypeOK'
BY DEF SessionTypeOK, sessionVars

LEMMA AcceptSame == AInv /\ UNCHANGED acceptVars => AInv'
BY DEF AInv, AcceptTypeOK, AcceptOK, acceptVars

LEMMA HandlerSame == HInv /\ UNCHANGED handlerVars => HInv'
BY DEF HInv, HandlerTypeOK, HandlerOK, handlerVars, request

LEMMA GameSame == GameTypeOK /\ UNCHANGED gameVars => GameTypeOK'
BY DEF GameTypeOK, gameVars

LEMMA BroadcastSame == BInv /\ UNCHANGED bVars => BInv'
BY DEF BInv, BroadcastTypeOK, BroadcastersOK, bVars

-----------------------------------------------------------------------------
(* The ways the handler thread goes on within a message function. *)
LEMMA HandlerRespond ==
  ASSUME HInv, handlerPc # "client",
         NEW r \in {"success", "error"}, Respond(r)
  PROVE  HInv'
BY DEF HInv, HandlerTypeOK, HandlerOK, Respond, HandlerPc

LEMMA HandlerGoto ==
  ASSUME HInv, handlerPc # "client", NEW pc \in HandlerPc, Goto(pc),
         pc = "updateUserData" => request.kind = "observe",
         pc \in {"owner", "insertFaction"} => request.kind = "faction"
  PROVE  HInv'
BY DEF HInv, HandlerTypeOK, HandlerOK, Goto, request

LEMMA HandlerGotoWith ==
  ASSUME HInv, handlerPc # "client", NEW pc \in HandlerPc,
         NEW u \in UserData, GotoWith(pc, u),
         pc = "updateUserData" => request.kind = "observe",
         pc \in {"owner", "insertFaction"} => request.kind = "faction"
  PROVE  HInv'
BY DEF HInv, HandlerTypeOK, HandlerOK, GotoWith, request

LEMMA NoUserType == NoUser \in UserData
BY DatabaseAssumption DEF NoUser, UserData

LEMMA HandlerNext ==
  ASSUME HInv, handlerPc # "client", NextMessage
  PROVE  HInv'
<1>1. Tail(batch) \in Seq(Request)
  BY Batches DEF HInv, HandlerTypeOK, HandlerOK
<1>2. saved' \in BOOLEAN
  BY Zenon DEF NextMessage
<1>3. HandlerTypeOK'
  BY <1>1, <1>2, NoUserType
     DEF HInv, HandlerTypeOK, NextMessage, HandlerPc
<1>4. HandlerOK'
  BY DEF HInv, HandlerOK, NextMessage
<1> QED BY <1>3, <1>4 DEF HInv

-----------------------------------------------------------------------------
(* The statements, with what they are called with. *)
LEMMA Statements ==
  ASSUME DBTypeOK, dbUp' \in BOOLEAN,
         \/ UNCHANGED tables
         \/ \E u \in User \cup {NullUser}, flag \in BOOLEAN :
              SetLoggedIn(u, flag)
         \/ \E u \in User \cup {NullUser}, t \in Tile : SaveTile(u, t)
         \/ \E n \in FactionName, u \in User \cup {NullUser} :
              InsertFaction(n, u)
         \/ \E u \in User : InsertUser(u)
  PROVE  DBTypeOK'
<1>1. CASE UNCHANGED tables
  BY <1>1 DEF DBTypeOK, tables
<1>2. ASSUME NEW u \in User \cup {NullUser}, NEW flag \in BOOLEAN,
             SetLoggedIn(u, flag)
      PROVE  DBTypeOK'
  <2>1. loggedIn' \in [User -> BOOLEAN]
    BY <1>2, Zenon DEF DBTypeOK, SetLoggedIn
  <2> QED BY <1>2, <2>1 DEF DBTypeOK, SetLoggedIn
<1>3. ASSUME NEW u \in User \cup {NullUser}, NEW t \in Tile, SaveTile(u, t)
      PROVE  DBTypeOK'
  BY <1>3 DEF DBTypeOK, SaveTile
<1>4. ASSUME NEW n \in FactionName, NEW u \in User \cup {NullUser},
             InsertFaction(n, u)
      PROVE  DBTypeOK'
  BY <1>4 DEF DBTypeOK, InsertFaction
<1>5. ASSUME NEW u \in User, InsertUser(u)
      PROVE  DBTypeOK'
  BY <1>5 DEF DBTypeOK, InsertUser
<1> QED BY <1>1, <1>2, <1>3, <1>4, <1>5

(* The connection when a statement has been run. *)
LEMMA ConnectionType ==
  ASSUME DBTypeOK, dbUp' = FALSE \/ UNCHANGED dbUp
  PROVE  dbUp' \in BOOLEAN
BY Zenon DEF DBTypeOK

(* The operations of Server. *)
LEMMA SendType ==
  ASSUME KernelTypeOK, NEW f \in FD, Delivered(f) \/ Undelivered,
         UNCHANGED <<peer, inbox, seen>>
  PROVE  KernelTypeOK'
BY DEF KernelTypeOK, Delivered, Undelivered, Link

LEMMA DisconnectType ==
  ASSUME KernelTypeOK, SessionTypeOK, NEW c \in Client, disconnectClient(c),
         UNCHANGED seen
  PROVE  KernelTypeOK' /\ SessionTypeOK'
<1>1. c.addr \in Addr /\ c.sd \in FD
  BY DEF Client
<1>2. CASE clients[c.addr] # NoSD
  <2>1. /\ clients' = [clients EXCEPT ![c.addr] = NoSD]
        /\ clientUserMapping' = [clientUserMapping EXCEPT ![c.addr] = NoSession]
        /\ Close(c.sd)
    BY <1>2 DEF disconnectClient
  <2>2. KernelTypeOK'
    BY <1>1, <2>1 DEF KernelTypeOK, Close, Link
  <2>3. SessionTypeOK'
    BY <1>1, <2>1 DEF SessionTypeOK
  <2> QED BY <2>2, <2>3
<1>3. CASE clients[c.addr] = NoSD
  BY <1>3 DEF KernelTypeOK, SessionTypeOK, disconnectClient, sessionVars
<1> QED BY <1>2, <1>3

LEMMA MappedUser ==
  ASSUME SessionTypeOK, NEW c \in Client, LoggedInFrom(c.addr)
  PROVE  getUser(c) \in UserData /\ getUser(c).user # NullUser
BY DEF SessionTypeOK, LoggedInFrom, getUser, Client

-----------------------------------------------------------------------------
(* The kernel, the peers and the main thread. *)
LEMMA PeersType == TInv /\ Peers => TInv'
<1> SUFFICES ASSUME TInv, Peers PROVE TInv'
  OBVIOUS
<1>1. SessionTypeOK' /\ AInv'
  BY SessionSame, AcceptSame DEF TInv, Peers, PeerSend, PeerClose
<1>2. ASSUME NEW f \in FD, NEW r \in Request, PeerSend(f, r)
      PROVE  KernelTypeOK'
  BY <1>2 DEF TInv, KernelTypeOK, PeerSend
<1>3. ASSUME NEW f \in FD, NEW how \in {"closed", "reset"}, PeerClose(f, how)
      PROVE  KernelTypeOK'
  BY <1>3 DEF TInv, KernelTypeOK, PeerClose, Link
<1> QED
  BY <1>1, <1>2, <1>3, DBSame, HandlerSame, GameSame, BroadcastSame
     DEF TInv, Peers

LEMMA AcceptType == TInv /\ AcceptConnection => TInv'
<1> SUFFICES ASSUME TInv, NEW a \in Addr, Accept(a),
                    UNCHANGED <<dbVars, handlerVars, gameVars, bVars, restarts>>
             PROVE  TInv'
  BY DEF AcceptConnection
<1>1. SessionTypeOK'
  BY SessionSame DEF TInv, Accept
<1>2. KernelTypeOK'
  BY DEF TInv, KernelTypeOK, Accept
<1>3. AInv'
  BY DEF TInv, AInv, AcceptTypeOK, AcceptOK, Accept, Client
<1> QED
  BY <1>1, <1>2, <1>3, DBSame, HandlerSame, GameSame, BroadcastSame DEF TInv

LEMMA RegisterConnectionType == TInv /\ RegisterConnection => TInv'
<1> SUFFICES ASSUME TInv, Find \/ Insert,
                    UNCHANGED <<dbVars, handlerVars, gameVars, bVars, restarts>>
             PROVE  TInv'
  BY DEF RegisterConnection
<1>1. KernelTypeOK'
  BY KernelSame DEF TInv, Find, Insert
<1>2. AInv'
  BY DEF TInv, AInv, AcceptTypeOK, AcceptOK, Find, Insert
<1>3. SessionTypeOK'
  <2>1. CASE Find
    BY <2>1, SessionSame DEF TInv, Find
  <2>2. CASE Insert
    BY <2>2 DEF TInv, AInv, AcceptOK, SessionTypeOK, Insert, Client
  <2> QED BY <2>1, <2>2
<1> QED
  BY <1>1, <1>2, <1>3, DBSame, HandlerSame, GameSame, BroadcastSame DEF TInv

LEMMA RestartType == TInv /\ Restart => TInv'
<1> SUFFICES ASSUME TInv, Restart PROVE TInv'
  OBVIOUS
<1> USE DatabaseAssumption, RegistryAssumption, SessionsAssumption
<1>1. DBTypeOK' /\ GameTypeOK'
  <2> PICK s \in SelectFactions :
        /\ dbUp' = s.up
        /\ factions' = Loaded(s.rows)
        /\ updated' = UpdatedAtStart(s.rows)
        /\ unloaded' = DOMAIN factionOwner \ Loaded(s.rows)
    BY DEF Restart
  <2>1. DOMAIN factionOwner \subseteq FactionName
    BY DEF TInv, DBTypeOK
  <2>2. dbUp' \in BOOLEAN /\ GameTypeOK'
    BY <2>1, StartTypes DEF GameTypeOK
  <2> QED BY <2>2 DEF TInv, DBTypeOK, tables, Restart
<1>2. KernelTypeOK' /\ SessionTypeOK' /\ AInv'
  BY DEF Restart, RegistryRestart, KernelTypeOK, SessionTypeOK, AInv,
     AcceptTypeOK, AcceptOK, Link
<1>3. HInv'
  <2>1. saved' \in BOOLEAN
    BY Zenon DEF Restart
  <2>2. batch' \in Seq(Request) /\ currentClients' \subseteq Client
    BY DEF Restart
  <2> QED
    BY <2>1, <2>2, NoUserType
       DEF Restart, HInv, HandlerTypeOK, HandlerOK, HandlerPc
<1>5. BInv'
  <2>1. AtStart \in [Broadcaster -> BroadcasterPc]
    BY DEF AtStart, BroadcasterPc
  <2> QED
    BY <2>1 DEF Restart, BInv, BroadcastTypeOK, BroadcastersOK, AtStart,
                Broadcaster
<1>6. restarts' \in 0 .. MaxRestarts
  BY DEF TInv, Restart
<1> QED
  BY <1>1, <1>2, <1>3, <1>5, <1>6 DEF TInv

-----------------------------------------------------------------------------
(* The broadcasting threads. *)
LEMMA WorldSnapshotType == TInv /\ WorldSnapshot => TInv'
<1> SUFFICES ASSUME TInv, WorldSnapshot PROVE TInv'
  OBVIOUS
<1>1. BInv'
  BY Snapshot DEF TInv, BInv, BroadcastTypeOK, BroadcastersOK, WorldSnapshot,
     Broadcaster
<1> QED
  BY <1>1, DBSame, KernelSame, SessionSame, AcceptSame, HandlerSame, GameSame
     DEF TInv, WorldSnapshot, registryVars

LEMMA FactionRoundType ==
  TInv /\ (GetChangedFactions \/ FactionSnapshot \/ FactionRoundDone) => TInv'
<1>1. ASSUME TInv, GetChangedFactions PROVE TInv'
  <2>1. BInv'
    BY <1>1 DEF TInv, GameTypeOK, BInv, BroadcastTypeOK, BroadcastersOK,
       GetChangedFactions, BGoto, Broadcaster, BroadcasterPc
  <2> QED
    BY <1>1, <2>1, DBSame, KernelSame, SessionSame, AcceptSame, HandlerSame,
       GameSame DEF TInv, GetChangedFactions, registryVars
<1>2. ASSUME TInv, FactionSnapshot PROVE TInv'
  <2>1. BInv'
    BY <1>2, Snapshot DEF TInv, BInv, BroadcastTypeOK, BroadcastersOK,
       FactionSnapshot, BGoto, Broadcaster, BroadcasterPc
  <2> QED
    BY <1>2, <2>1, DBSame, KernelSame, SessionSame, AcceptSame, HandlerSame,
       GameSame DEF TInv, FactionSnapshot, registryVars
<1>3. ASSUME TInv, FactionRoundDone PROVE TInv'
  <2>1. BInv'
    BY <1>3 DEF TInv, BInv, BroadcastTypeOK, BroadcastersOK,
       FactionRoundDone, BGoto, Broadcaster, BroadcasterPc
  <2>2. GameTypeOK'
    BY <1>3 DEF TInv, GameTypeOK, FactionRoundDone
  <2> QED
    BY <1>3, <2>1, <2>2, DBSame, KernelSame, SessionSame, AcceptSame,
       HandlerSame DEF TInv, FactionRoundDone, registryVars
<1> QED BY <1>1, <1>2, <1>3

LEMMA BroadcastStepType ==
  ASSUME TInv, NEW b \in Broadcaster, BroadcastStep(b)
  PROVE  TInv'
<1>1. CASE BNext(b)
  <2>1. BInv'
    BY <1>1 DEF TInv, BInv, BroadcastTypeOK, BroadcastersOK, BNext, BGoto,
       BroadcasterPc
  <2> QED
    BY <1>1, <2>1, DBSame, KernelSame, SessionSame, AcceptSame, HandlerSame,
       GameSame DEF TInv, BNext, registryVars
<1>2. CASE BSend(b)
  <2>1. BInv'
    BY <1>2 DEF TInv, BInv, BroadcastTypeOK, BroadcastersOK, BSend, BGoto,
       BroadcasterPc
  <2>2. bClient[b].sd \in FD
    BY <1>2 DEF TInv, BInv, BroadcastersOK, BSend, Client
  <2>3. KernelTypeOK'
    BY <1>2, <2>2, SendType DEF TInv, BSend
  <2> QED
    BY <1>2, <2>1, <2>3, DBSame, SessionSame, AcceptSame, HandlerSame,
       GameSame DEF TInv, BSend
<1>3. CASE BDisconnect(b)
  <2>1. BInv'
    BY <1>3 DEF TInv, BInv, BroadcastTypeOK, BroadcastersOK, BDisconnect,
       BGoto, BroadcasterPc
  <2>2. bClient[b] \in Client
    BY <1>3 DEF TInv, BInv, BroadcastersOK, BDisconnect
  <2>3. KernelTypeOK' /\ SessionTypeOK'
    BY <1>3, <2>2, DisconnectType DEF TInv, BDisconnect
  <2> QED
    BY <1>3, <2>1, <2>3, DBSame, AcceptSame, HandlerSame, GameSame
       DEF TInv, BDisconnect
<1> QED BY <1>1, <1>2, <1>3 DEF BroadcastStep

-----------------------------------------------------------------------------
(* The handler thread: snapshots, reading and responding. *)
LEMMA HandlerLoopType ==
  TInv /\ (HandlerSnapshot \/ Read \/ SendResponse) => TInv'
<1>1. ASSUME TInv, HandlerSnapshot PROVE TInv'
  <2>1. HInv'
    BY <1>1, Snapshot DEF TInv, HInv, HandlerTypeOK, HandlerOK, HandlerSnapshot
  <2> QED
    BY <1>1, <2>1, DBSame, KernelSame, SessionSame, AcceptSame, GameSame,
       BroadcastSame DEF TInv, HandlerSnapshot, registryVars
<1>2. ASSUME TInv, Read PROVE TInv'
  <2> SUFFICES ASSUME NEW c \in currentClients,
               /\ currentClients' = currentClients \ {c}
               /\ \/ /\ inbox[c.sd] = <<>>
                     /\ UNCHANGED <<inbox, handlerPc, client, batch, sender>>
                  \/ /\ inbox[c.sd] # <<>>
                     /\ batch' = inbox[c.sd]
                     /\ inbox' = [inbox EXCEPT ![c.sd] = <<>>]
                     /\ client' = c
                     /\ sender' = peer[c.sd]
                     /\ handlerPc' = "message"
               PROVE  TInv'
    BY <1>2 DEF Read
  <2>1. c \in Client /\ c.sd \in FD
    BY <1>2 DEF TInv, HInv, HandlerTypeOK, Client
  <2>2. HInv'
    <3>1. CASE inbox[c.sd] = <<>>
      BY <1>2, <3>1 DEF TInv, HInv, HandlerTypeOK, HandlerOK, Read, request
    <3>2. CASE inbox[c.sd] # <<>>
      <4>1. batch' \in Seq(Request) /\ sender' \in Addr \cup {NoAddr}
        BY <1>2, <2>1, <3>2 DEF TInv, KernelTypeOK
      <4> QED
        BY <1>2, <2>1, <3>2, <4>1
           DEF TInv, HInv, HandlerTypeOK, HandlerOK, HandlerPc, Read
    <3> QED BY <3>1, <3>2
  <2>3. KernelTypeOK'
    <3>1. UNCHANGED <<peer, link, seen>>
      BY <1>2 DEF Read
    <3>2. inbox' \in [FD -> Seq(Request)]
      <4>1. inbox \in [FD -> Seq(Request)] /\ <<>> \in Seq(Request)
        BY <1>2 DEF TInv, KernelTypeOK
      <4>2. inbox' = inbox \/ inbox' = [inbox EXCEPT ![c.sd] = <<>>]
        OBVIOUS
      <4> QED BY <4>1, <4>2
    <3> QED BY <1>2, <3>1, <3>2 DEF TInv, KernelTypeOK
  <2> QED
    BY <1>2, <2>2, <2>3, DBSame, SessionSame, AcceptSame, GameSame,
       BroadcastSame DEF TInv, Read
<1>3. ASSUME TInv, SendResponse PROVE TInv'
  <2>1. HInv'
    BY <1>3, HandlerNext DEF TInv, SendResponse
  <2>2. client.sd \in FD
    BY <1>3 DEF TInv, HInv, HandlerOK, SendResponse, Client
  <2>3. KernelTypeOK'
    BY <1>3, <2>2, SendType DEF TInv, SendResponse
  <2> QED
    BY <1>3, <2>1, <2>3, DBSame, SessionSame, AcceptSame, GameSame,
       BroadcastSame DEF TInv, SendResponse
<1> QED BY <1>1, <1>2, <1>3

-----------------------------------------------------------------------------
(* The handler thread: the message functions.  Most of them touch nothing  *)
(* but the tables and the thread's own locals.                             *)
LEMMA TablesAndHandler ==
  ASSUME TInv, DBTypeOK', HInv',
         UNCHANGED <<registryVars, gameVars, bVars, restarts>>
  PROVE  TInv'
BY KernelSame, SessionSame, AcceptSame, GameSame, BroadcastSame
   DEF TInv, registryVars

(* The message being handled, and who it is handled for. *)
LEMMA Current ==
  ASSUME TInv, handlerPc # "client"
  PROVE  /\ HInv /\ DBTypeOK /\ SessionTypeOK
         /\ request \in Request
         /\ client \in Client /\ client.addr \in Addr
         /\ user \in UserData
BY Batches DEF TInv, HInv, HandlerTypeOK, HandlerOK, request, Client

LEMMA LoginType ==
  TInv /\ (LoginSelect \/ LoginUpdate \/ LoginUser \/ LoginFaction) => TInv'
<1>1. ASSUME TInv, LoginSelect PROVE TInv'
  <2> DEFINE u == request.user
             row == [user |-> u, tile |-> savedTile[u], faction |-> FALSE]
  <2>1. handlerPc # "client" /\ u \in User
    BY <1>1, Current, RequestFields DEF LoginSelect
  <2>2. row \in UserData
    <3>1. savedTile[u] \in Tile
      BY <1>1, <2>1 DEF TInv, DBTypeOK
    <3> QED BY <2>1, <3>1 DEF UserData
  <2>3. UNCHANGED tables /\ (dbUp' = FALSE \/ UNCHANGED dbUp)
    BY <1>1 DEF LoginSelect, Exec
  <2>4. GotoWith("setLoggedIn", row) \/ Respond("error")
    BY <1>1 DEF LoginSelect, Exec
  <2>5. HInv'
    <3> HIDE DEF row
    <3> QED
      BY <1>1, <2>1, <2>2, <2>4, HandlerGotoWith, HandlerRespond
         DEF TInv, HandlerPc
  <2>6. DBTypeOK'
    BY <1>1, <2>3, ConnectionType, Statements DEF TInv
  <2> QED BY <1>1, <2>5, <2>6, TablesAndHandler DEF LoginSelect
<1>2. ASSUME TInv, LoginUpdate PROVE TInv'
  <2>1. handlerPc # "client"
    BY <1>2 DEF LoginUpdate
  <2>2. user.user \in User \cup {NullUser}
    BY <1>2, <2>1, Current DEF UserData
  <2>3. /\ UNCHANGED tables \/ SetLoggedIn(user.user, TRUE)
        /\ dbUp' = FALSE \/ UNCHANGED dbUp
        /\ Goto("loginUser") \/ Respond("error")
    BY <1>2 DEF LoginUpdate, Exec
  <2>4. HInv'
    BY <1>2, <2>1, <2>3, HandlerGoto, HandlerRespond DEF TInv, HandlerPc
  <2>5. DBTypeOK'
    BY <1>2, <2>2, <2>3, ConnectionType, Statements DEF TInv
  <2> QED BY <1>2, <2>4, <2>5, TablesAndHandler DEF LoginUpdate
<1>3. ASSUME TInv, LoginUser PROVE TInv'
  <2>1. handlerPc # "client"
    BY <1>3 DEF LoginUser
  <2>2. HInv'
    BY <1>3, <2>1, HandlerGoto DEF TInv, LoginUser, HandlerPc
  <2>3. SessionTypeOK'
    BY <1>3, <2>1, Current DEF SessionTypeOK, LoginUser, loginUser
  <2> QED
    BY <1>3, <2>2, <2>3, DBSame, KernelSame, AcceptSame, GameSame,
       BroadcastSame DEF TInv, LoginUser
<1>4. ASSUME TInv, LoginFaction PROVE TInv'
  <2> DEFINE names == FactionsOf(user.user)
             named == Cardinality(names) = 1 /\ EmptyName \notin names
             copy == [user EXCEPT !.faction = named]
  <2>1. handlerPc # "client"
    BY <1>4 DEF LoginFaction
  <2>2. copy \in UserData
    <3>1. user \in UserData
      BY <1>4, <2>1, Current
    <3>2. named \in BOOLEAN
      BY Zenon
    <3> QED BY <3>1, <3>2, Zenon DEF UserData
  <2>3. /\ UNCHANGED tables
        /\ dbUp' = FALSE \/ UNCHANGED dbUp
    BY <1>4 DEF LoginFaction, Exec
  <2>4. \/ /\ user' = copy
           /\ response' \in {"success", "error"}
           /\ handlerPc' = "send"
           /\ UNCHANGED <<currentClients, client, batch, sender, saved>>
        \/ Respond("error")
    BY <1>4 DEF LoginFaction, Exec
  <2>5. HInv'
    <3> HIDE DEF copy
    <3>1. CASE Respond("error")
      BY <1>4, <2>1, <3>1, HandlerRespond DEF TInv
    <3>2. CASE ~Respond("error")
      BY <1>4, <2>1, <2>2, <2>4, <3>2
         DEF TInv, HInv, HandlerTypeOK, HandlerOK, HandlerPc
    <3> QED BY <3>1, <3>2
  <2>6. DBTypeOK'
    BY <1>4, <2>3, ConnectionType, Statements DEF TInv
  <2> QED BY <1>4, <2>5, <2>6, TablesAndHandler DEF LoginFaction
<1> QED BY <1>1, <1>2, <1>3, <1>4

LEMMA LogoutType ==
  TInv /\ (LogoutGetUser \/ SavePos \/ LogoutUser) => TInv'
<1>1. ASSUME TInv, LogoutGetUser PROVE TInv'
  <2>1. handlerPc # "client"
    BY <1>1 DEF LogoutGetUser
  <2>2. HInv'
    <3>1. CASE LoggedInFrom(client.addr)
      <4>1. getUser(client) \in UserData
        BY <1>1, <2>1, <3>1, Current, MappedUser
      <4>2. GotoWith("savePos", getUser(client))
        BY <1>1, <3>1 DEF LogoutGetUser
      <4> QED
        BY <1>1, <2>1, <4>1, <4>2, HandlerGotoWith DEF TInv, HandlerPc
    <3>2. CASE ~LoggedInFrom(client.addr)
      BY <1>1, <2>1, <3>2, HandlerNext DEF TInv, LogoutGetUser, NoResponse
    <3> QED BY <3>1, <3>2
  <2> QED
    BY <1>1, <2>2, DBSame, TablesAndHandler DEF TInv, LogoutGetUser
<1>2. ASSUME TInv, SavePos PROVE TInv'
  <2>1. handlerPc = "savePos"
    BY <1>2 DEF SavePos
  <2>2. user.user \in User \cup {NullUser} /\ user.tile \in Tile
    BY <1>2, <2>1, Current DEF UserData
  <2>3. /\ UNCHANGED tables \/ SaveTile(user.user, user.tile)
        /\ dbUp' = FALSE \/ UNCHANGED dbUp
    BY <1>2 DEF SavePos, Exec
  <2>4. saved' \in BOOLEAN
    BY <1>2, Zenon DEF SavePos, Exec
  <2>5. HInv'
    BY <1>2, <2>1, <2>4
       DEF TInv, HInv, HandlerTypeOK, HandlerOK, SavePos, HandlerPc
  <2>6. DBTypeOK'
    BY <1>2, <2>2, <2>3, ConnectionType, Statements DEF TInv
  <2> QED BY <1>2, <2>5, <2>6, TablesAndHandler DEF SavePos
<1>3. ASSUME TInv, LogoutUser PROVE TInv'
  <2>1. handlerPc # "client"
    BY <1>3 DEF LogoutUser
  <2>2. user.user \in User \cup {NullUser} /\ client.addr \in Addr
    BY <1>3, <2>1, Current DEF UserData
  <2>3. /\ UNCHANGED tables \/ SetLoggedIn(user.user, FALSE)
        /\ dbUp' = FALSE \/ UNCHANGED dbUp
    BY <1>3 DEF LogoutUser, Exec, dbVars
  <2>4. Respond("success") \/ NextMessage
    BY <1>3 DEF LogoutUser, Exec, NoResponse
  <2>5. \/ UNCHANGED clientUserMapping
        \/ clientUserMapping' =
             [clientUserMapping EXCEPT ![client.addr] = NoSession]
    BY <1>3 DEF LogoutUser, Exec
  <2>6. HInv'
    BY <1>3, <2>1, <2>4, HandlerNext, HandlerRespond DEF TInv
  <2>7. DBTypeOK'
    BY <1>3, <2>2, <2>3, ConnectionType, Statements DEF TInv
  <2>8. SessionTypeOK'
    BY <1>3, <2>2, <2>5 DEF TInv, SessionTypeOK, LogoutUser
  <2> QED
    BY <1>3, <2>6, <2>7, <2>8, KernelSame, AcceptSame, GameSame,
       BroadcastSame DEF TInv, LogoutUser
<1> QED BY <1>1, <1>2, <1>3

LEMMA ObserveType == TInv /\ (ObserveGetUser \/ UpdateUserData) => TInv'
<1>1. ASSUME TInv, ObserveGetUser PROVE TInv'
  <2>1. handlerPc # "client" /\ request.kind = "observe"
    BY <1>1 DEF ObserveGetUser
  <2>2. Goto("updateUserData") \/ NextMessage
    BY <1>1 DEF ObserveGetUser, NoResponse
  <2>3. HInv'
    BY <1>1, <2>1, <2>2, HandlerGoto, HandlerNext DEF TInv, HandlerPc
  <2> QED
    BY <1>1, <2>3, DBSame, TablesAndHandler DEF TInv, ObserveGetUser
<1>2. ASSUME TInv, UpdateUserData PROVE TInv'
  <2>1. handlerPc # "client"
    BY <1>2 DEF UpdateUserData
  <2>2. client.addr \in Addr /\ request.tile \in Tile
    BY <1>2, <2>1, Current, RequestFields
       DEF TInv, HInv, HandlerOK, UpdateUserData
  <2>3. HInv'
    BY <1>2, <2>1, HandlerNext DEF TInv, UpdateUserData, NoResponse
  <2>4. SessionTypeOK'
    <3> DEFINE old == clientUserMapping[client.addr]
               new == IF old = NoSession
                      THEN [user |-> NullUser, tile |-> request.tile,
                            faction |-> FALSE]
                      ELSE [old EXCEPT !.tile = request.tile]
    <3>1. old \in UserData \cup {NoSession}
      BY <1>2, <2>2 DEF TInv, SessionTypeOK
    <3>2. new \in UserData
      BY <2>2, <3>1 DEF UserData
    <3>3. clientUserMapping' =
            [clientUserMapping EXCEPT ![client.addr] = new]
      BY <1>2 DEF UpdateUserData, updateUserData
    <3> HIDE DEF new
    <3> QED
      BY <1>2, <2>2, <3>2, <3>3 DEF TInv, SessionTypeOK, UpdateUserData
  <2> QED
    BY <1>2, <2>3, <2>4, DBSame, KernelSame, AcceptSame, GameSame,
       BroadcastSame DEF TInv, UpdateUserData
<1> QED BY <1>1, <1>2

LEMMA FactionType ==
  TInv /\ (AddFaction \/ FactionOwner \/ FactionInsert) => TInv'
<1>1. ASSUME TInv, AddFaction PROVE TInv'
  <2>1. handlerPc # "client" /\ request.kind = "faction"
    BY <1>1 DEF AddFaction
  <2>2. Respond("error") \/ NextMessage \/ Goto("owner")
    BY <1>1 DEF AddFaction, NoResponse
  <2>3. HInv'
    BY <1>1, <2>1, <2>2, HandlerRespond, HandlerNext, HandlerGoto
       DEF TInv, HandlerPc
  <2> QED BY <1>1, <2>3, DBSame, TablesAndHandler DEF TInv, AddFaction
<1>2. ASSUME TInv, FactionOwner PROVE TInv'
  <2>1. handlerPc # "client" /\ request.kind = "faction"
    BY <1>2 DEF TInv, HInv, HandlerOK, FactionOwner
  <2>2. HInv'
    <3>1. CASE LoggedInFrom(client.addr)
      <4>1. getUser(client) \in UserData
        BY <1>2, <2>1, <3>1, Current, MappedUser
      <4>2. GotoWith("insertFaction", getUser(client))
        BY <1>2, <3>1 DEF FactionOwner
      <4> QED
        BY <1>2, <2>1, <4>1, <4>2, HandlerGotoWith DEF TInv, HandlerPc
    <3>2. CASE ~LoggedInFrom(client.addr)
      BY <1>2, <2>1, <3>2, HandlerRespond DEF TInv, FactionOwner
    <3> QED BY <3>1, <3>2
  <2> QED BY <1>2, <2>2, DBSame, TablesAndHandler DEF TInv, FactionOwner
<1>3. ASSUME TInv, FactionInsert PROVE TInv'
  <2> DEFINE n == request.name
  <2>1. handlerPc # "client" /\ request.kind = "faction"
    BY <1>3 DEF TInv, HInv, HandlerOK, FactionInsert
  <2>2. n \in FactionName /\ user.user \in User \cup {NullUser}
    BY <1>3, <2>1, Current, RequestFields DEF UserData
  <2>3. /\ UNCHANGED tables \/ InsertFaction(n, user.user)
        /\ dbUp' = FALSE \/ UNCHANGED dbUp
        /\ Respond("success") \/ Respond("error")
        /\ \/ UNCHANGED gameVars
           \/ /\ factions' = factions \cup {n}
              /\ updated' = IF NewFactionUpdated THEN updated \cup {n}
                                                 ELSE updated
              /\ UNCHANGED unloaded
    BY <1>3 DEF FactionInsert, Exec
  <2>4. HInv'
    BY <1>3, <2>1, <2>3, HandlerRespond DEF TInv
  <2>5. DBTypeOK'
    BY <1>3, <2>2, <2>3, ConnectionType, Statements DEF TInv
  <2>6. GameTypeOK'
    BY <1>3, <2>2, <2>3 DEF TInv, GameTypeOK, gameVars
  <2> QED
    BY <1>3, <2>4, <2>5, <2>6, KernelSame, SessionSame, AcceptSame,
       BroadcastSame DEF TInv, FactionInsert, registryVars
<1> QED BY <1>1, <1>2, <1>3

LEMMA OtherMessagesType == TInv /\ (Register \/ ServerInfo \/ Lists) => TInv'
<1>1. ASSUME TInv, Register PROVE TInv'
  <2>1. handlerPc # "client" /\ request.user \in User
    BY <1>1, Current, RequestFields DEF Register
  <2>2. /\ UNCHANGED tables \/ InsertUser(request.user)
        /\ dbUp' = FALSE \/ UNCHANGED dbUp
        /\ Respond("success") \/ Respond("error")
    BY <1>1 DEF Register, Exec
  <2>3. HInv' /\ DBTypeOK'
    BY <1>1, <2>1, <2>2, HandlerRespond, ConnectionType, Statements DEF TInv
  <2> QED BY <1>1, <2>3, TablesAndHandler DEF Register
<1>2. ASSUME TInv, ServerInfo PROVE TInv'
  <2>1. /\ handlerPc # "client"
        /\ UNCHANGED tables
        /\ dbUp' = FALSE \/ UNCHANGED dbUp
        /\ Respond("success") \/ Respond("error")
    BY <1>2 DEF ServerInfo, Exec
  <2>2. HInv' /\ DBTypeOK'
    BY <1>2, <2>1, HandlerRespond, ConnectionType, Statements DEF TInv
  <2> QED BY <1>2, <2>2, TablesAndHandler DEF ServerInfo
<1>3. ASSUME TInv, Lists PROVE TInv'
  BY <1>3, DBSame, HandlerRespond, TablesAndHandler DEF TInv, Lists
<1> QED BY <1>1, <1>2, <1>3

-----------------------------------------------------------------------------
LEMMA NextTInv == TInv /\ [Next]_vars => TInv'
<1> SUFFICES ASSUME TInv, [Next]_vars PROVE TInv'
  OBVIOUS
<1>1. CASE Peers \/ AcceptConnection \/ RegisterConnection \/ Restart
  BY <1>1, PeersType, AcceptType, RegisterConnectionType, RestartType
<1>2. CASE handleClientMessages
  BY <1>2, HandlerLoopType, LoginType, LogoutType, ObserveType, FactionType,
     OtherMessagesType DEF handleClientMessages
<1>3. CASE broadcastWorldState \/ broadcastFactionStates
  BY <1>3, WorldSnapshotType, FactionRoundType, BroadcastStepType
     DEF broadcastWorldState, broadcastFactionStates, Broadcaster
<1>4. CASE UNCHANGED vars
  BY <1>4, DBSame, KernelSame, SessionSame, AcceptSame, HandlerSame, GameSame,
     BroadcastSame DEF TInv, vars, registryVars
<1> QED BY <1>1, <1>2, <1>3, <1>4 DEF Next

(* Every variable keeps its type, and the locals of the threads are set    *)
(* whenever they are used.                                                 *)
THEOREM TypeInvariant == Spec => []TInv
BY InitTInv, NextTInv, PTL DEF Spec

(* The type invariant of the run sessions, for every instance.             *)
THEOREM TypeCorrect == Spec => []TypeOK
<1>1. TInv => TypeOK
  BY DEF TInv, TypeOK, RegistryTypeOK, AInv, HInv, BInv
<1> QED BY <1>1, TypeInvariant, PTL

-----------------------------------------------------------------------------
(***************************************************************************)
(* FactionsAgree lacks one fact to be inductive: a start that gets no rows *)
(* still makes the faction "Neutral", which must be one of the table.      *)
(***************************************************************************)
FactionsInv == FactionsAgree /\ Neutral \in DOMAIN factionOwner

(* Whatever a start gets to know of the table, memory agrees with it. *)
LEMMA StartAgrees ==
  ASSUME NEW s \in SelectFactions, Neutral \in DOMAIN factionOwner
  PROVE  /\ Loaded(s.rows) \subseteq DOMAIN factionOwner
         /\ DOMAIN factionOwner =
              Loaded(s.rows) \cup (DOMAIN factionOwner \ Loaded(s.rows))
BY DEF SelectFactions, Loaded

LEMMA InitFactionsInv == Init => FactionsInv
BY StartAgrees DEF Init, DBInit, LoadFactions, FactionsInv, FactionsAgree

LEMMA RestartFactionsInv == FactionsInv /\ Restart => FactionsInv'
BY StartAgrees DEF Restart, FactionsInv, FactionsAgree, tables

(* A statement that fails in doubt takes the connection down, so no other  *)
(* row gets into the table before the next start.  A row that was not      *)
(* loaded is in the way of another of its name.                            *)
LEMMA FactionInsertAgrees ==
  ASSUME FactionsInv, FactionInsert
  PROVE  FactionsInv'
<1> DEFINE n == request.name
<1>1. \/ /\ dbUp /\ UNCHANGED <<dbUp, unloaded>>
         /\ InsertFaction(n, user.user) /\ factions' = factions \cup {n}
      \/ UNCHANGED <<dbUp, factionOwner, factions, unloaded>>
      \/ /\ dbUp /\ dbUp' = FALSE /\ UNCHANGED <<factions, unloaded>>
         /\ InsertFaction(n, user.user) \/ UNCHANGED factionOwner
  BY DEF FactionInsert, Exec, gameVars, tables
<1>2. InsertFaction(n, user.user) =>
        /\ n \notin DOMAIN factionOwner
        /\ DOMAIN factionOwner' = DOMAIN factionOwner \cup {n}
  BY DEF InsertFaction
<1> QED BY <1>1, <1>2 DEF FactionsInv, FactionsAgree

LEMMA FactionsElsewhere ==
  ASSUME FactionsInv, dbUp' => dbUp,
         UNCHANGED <<factions, unloaded, factionOwner>>
  PROVE  FactionsInv'
BY DEF FactionsInv, FactionsAgree

LEMMA NextFactionsInv == FactionsInv /\ [Next]_vars => FactionsInv'
<1> SUFFICES ASSUME FactionsInv, [Next]_vars PROVE FactionsInv'
  OBVIOUS
<1>1. CASE FactionInsert
  BY <1>1, FactionInsertAgrees
<1>2. CASE handleClientMessages /\ ~FactionInsert
  <2>1. UNCHANGED <<factions, unloaded, factionOwner>> /\ (dbUp' => dbUp)
    BY <1>2
       DEF handleClientMessages, HandlerSnapshot, Read, SendResponse,
           LoginSelect, LoginUpdate, LoginUser, LoginFaction, LogoutGetUser,
           SavePos, LogoutUser, ObserveGetUser, UpdateUserData, AddFaction,
           FactionOwner, Register, ServerInfo, Lists, Exec, SetLoggedIn,
           SaveTile, InsertUser, dbVars, tables, gameVars
  <2> QED BY <2>1, FactionsElsewhere
<1>3. CASE \/ Peers \/ AcceptConnection \/ RegisterConnection
           \/ broadcastWorldState \/ broadcastFactionStates
  <2>1. UNCHANGED <<dbUp, factions, unloaded, factionOwner>>
    BY <1>3
       DEF Peers, AcceptConnection, RegisterConnection, broadcastWorldState,
           broadcastFactionStates, BroadcastStep, WorldSnapshot,
           GetChangedFactions, FactionSnapshot, FactionRoundDone, BNext,
           BSend, BDisconnect, dbVars, tables, gameVars
  <2> QED BY <2>1, FactionsElsewhere
<1>4. CASE Restart
  BY <1>4, RestartFactionsInv
<1>5. CASE UNCHANGED vars
  BY <1>5, FactionsElsewhere DEF vars, dbVars, tables, gameVars
<1> QED BY <1>1, <1>2, <1>3, <1>4, <1>5 DEF Next

(* The factions in memory are rows of the table.  The rows that are not in *)
(* memory are those the start failed to load and, once the connection is   *)
(* gone, one whose insertion was in doubt (Game.cpp:64-79, 199-216).       *)
THEOREM MemoryAgreesWithTable == Spec => []FactionsAgree
<1>1. FactionsInv => FactionsAgree
  BY DEF FactionsInv
<1> QED BY <1>1, InitFactionsInv, NextFactionsInv, PTL DEF Spec
=============================================================================
