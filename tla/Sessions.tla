------------------------------ MODULE Sessions ------------------------------
(***************************************************************************)
(* The server process: the main thread of ClientRegistry, the thread of    *)
(* MessageHandler::handleClientMessages with the message functions it      *)
(* dispatches to (General.cpp, WorldState.cpp, Game::addFaction), the two  *)
(* broadcasting threads, and the crash and restart of the process.         *)
(*                                                                         *)
(* One action is one stretch of a thread between two points where another  *)
(* thread can see or change what it uses: a call into Server, one statement*)
(* of exec_query, one read or send.  Locals that live across such a point  *)
(* are variables.                                                          *)
(***************************************************************************)
EXTENDS ClientRegistry, FiniteSets

CONSTANTS
  NewFactionUpdated,  \* external: is a Faction just constructed `updated'?
  MaxRestarts         \* bound: crashes of the process

(* The messages the process answers, with the fields the model tells apart.*)
Requests ==
  [kind : {"login", "register"}, user : User]
    \cup [kind : {"logout", "info", "lists"}]
    \cup [kind : {"observe"}, tile : Tile]
    \cup [kind : {"faction"}, name : FactionName]

ASSUME SessionsAssumption ==
  /\ Request \subseteq Requests
  /\ NewFactionUpdated \in BOOLEAN
  /\ MaxRestarts \in Nat

VARIABLES
  handlerPc,
  currentClients, client, \* the snapshot still to visit, and its current entry
  batch,                  \* messages left in _pRecvBuf
  sender,                 \* history: the peer they were read from
  user,                   \* the User object on the stack
  saved,                  \* history: did the last position update succeed?
  response,
  factions, updated,      \* Game::_factions, the names with isUpdated()
  unloaded,               \* history: the rows this start did not load
  bPc, bClients, bClient, \* the same for each broadcasting thread
  changed,                \* names in changedFactionsMsg
  restarts

handlerVars == <<handlerPc, currentClients, client, batch, sender, user,
                 saved, response>>
gameVars    == <<factions, updated, unloaded>>
bVars       == <<bPc, bClients, bClient, changed>>
vars == <<dbVars, registryVars, handlerVars, gameVars, bVars, restarts>>

Broadcaster == {"world", "factions"}

HandlerPc == {"client", "message",
              "setLoggedIn", "loginUser", "userFaction",
              "savePos", "logoutUser", "updateUserData",
              "owner", "insertFaction", "send"}

BroadcasterPc == {"wait", "snapshot", "client", "send", "disconnect"}

NoUser == [user |-> NullUser, tile |-> StartTile, faction |-> FALSE]

HandlerTypeOK ==
  /\ handlerPc \in HandlerPc
  /\ currentClients \subseteq Client
  /\ client \in Client \cup {NoClient}
  /\ batch \in Seq(Request)
  /\ sender \in Addr \cup {NoAddr}
  /\ user \in UserData
  /\ saved \in BOOLEAN
  /\ response \in {"none", "success", "error"}

GameTypeOK ==
  /\ factions \subseteq FactionName
  /\ updated \subseteq factions
  /\ unloaded \subseteq FactionName

BroadcastTypeOK ==
  /\ bPc \in [Broadcaster -> BroadcasterPc]
  /\ bClients \in [Broadcaster -> SUBSET Client]
  /\ bClient \in [Broadcaster -> Client \cup {NoClient}]
  /\ changed \subseteq FactionName

TypeOK ==
  /\ DBTypeOK
  /\ RegistryTypeOK
  /\ HandlerTypeOK
  /\ GameTypeOK
  /\ BroadcastTypeOK
  /\ restarts \in 0 .. MaxRestarts

-----------------------------------------------------------------------------
(***************************************************************************)
(* A process that has just started, over the database it finds: Game loads *)
(* the factions, nobody is connected, every thread is at its loop's head.  *)
(***************************************************************************)
AtStart ==
  [b \in Broadcaster |-> IF b = "world" THEN "client" ELSE "wait"]

(***************************************************************************)
(* SELECT * FROM factions, the last statement before the threads run: the  *)
(* rows Game's constructor gets, and whether there is still a connection.  *)
(* Without an answer it runs on with a result of no rows.                  *)
(***************************************************************************)
SelectFactions ==
  [rows : {DOMAIN factionOwner}, up : {TRUE}]
    \cup [rows : {{}}, up : BOOLEAN]

(* operator[] makes the faction "Neutral" if no row was it. *)
Loaded(rows) == rows \cup {Neutral}

UpdatedAtStart(rows) == IF NewFactionUpdated THEN Loaded(rows) ELSE {}

ThreadsStart ==
  /\ handlerPc = "client"
  /\ currentClients = {}
  /\ client = NoClient
  /\ batch = <<>>
  /\ sender = NoAddr
  /\ user = NoUser
  /\ saved = FALSE
  /\ response = "none"
  /\ bPc = AtStart
  /\ bClients = [b \in Broadcaster |-> {}]
  /\ bClient = [b \in Broadcaster |-> NoClient]
  /\ changed = {}

LoadFactions ==
  \E s \in SelectFactions :
    /\ dbUp = s.up
    /\ factions = Loaded(s.rows)
    /\ updated = UpdatedAtStart(s.rows)
    /\ unloaded = DOMAIN factionOwner \ Loaded(s.rows)

Init ==
  /\ DBInit
  /\ RegistryEmpty
  /\ ThreadsStart
  /\ LoadFactions
  /\ restarts = 0

(* The tables keep what was committed; main() connects to the database     *)
(* again, and Game loads the factions again.                               *)
Restart ==
  /\ restarts < MaxRestarts
  /\ restarts' = restarts + 1
  /\ UNCHANGED tables
  /\ RegistryRestart
  /\ handlerPc' = "client"
  /\ currentClients' = {}
  /\ client' = NoClient
  /\ batch' = <<>>
  /\ sender' = NoAddr
  /\ user' = NoUser
  /\ saved' = FALSE
  /\ response' = "none"
  /\ bPc' = AtStart
  /\ bClients' = [b \in Broadcaster |-> {}]
  /\ bClient' = [b \in Broadcaster |-> NoClient]
  /\ changed' = {}
  /\ \E s \in SelectFactions :
       /\ dbUp' = s.up
       /\ factions' = Loaded(s.rows)
       /\ updated' = UpdatedAtStart(s.rows)
       /\ unloaded' = DOMAIN factionOwner \ Loaded(s.rows)

-----------------------------------------------------------------------------
(***************************************************************************)
(* MessageHandler::_mutex.  It is held across two steps only by a          *)
(* broadcasting thread between a failed send and the end of                *)
(* disconnectClient.                                                       *)
(***************************************************************************)
MutexFree == \A b \in Broadcaster : bPc[b] # "disconnect"

(***************************************************************************)
(* handleClientMessages                                                    *)
(***************************************************************************)
request == Head(batch)

(* The stack of one message function is gone when the next one runs. *)
NextMessage ==
  /\ batch' = Tail(batch)
  /\ user' = NoUser
  /\ saved' = FALSE
  /\ response' = "none"
  /\ \/ /\ Tail(batch) # <<>>
        /\ handlerPc' = "message"
        /\ UNCHANGED <<client, sender>>
     \/ /\ Tail(batch) = <<>>
        /\ handlerPc' = "client"
        /\ client' = NoClient
        /\ sender' = NoAddr
  /\ UNCHANGED currentClients

(* A message function that returns NULL_MESSAGE. *)
NoResponse == NextMessage

Respond(r) ==
  /\ response' = r
  /\ handlerPc' = "send"
  /\ UNCHANGED <<currentClients, client, batch, sender, user, saved>>

Goto(pc) ==
  /\ handlerPc' = pc
  /\ UNCHANGED <<currentClients, client, batch, sender, user, saved, response>>

(* The message function goes on with a copy of this User. *)
GotoWith(pc, u) ==
  /\ handlerPc' = pc
  /\ user' = u
  /\ UNCHANGED <<currentClients, client, batch, sender, saved, response>>

(* Mutant: visits only clients with a user. *)
HandlerSnapshot_usersOnly ==
  /\ handlerPc = "client"
  /\ currentClients = {}
  /\ currentClients' = {c \in getClientConnections : LoggedInFrom(c.addr)}
  /\ UNCHANGED <<handlerPc, client, batch, sender, user, saved, response>>
  /\ UNCHANGED <<dbVars, registryVars, gameVars, bVars, restarts>>

HandlerSnapshot ==
  /\ handlerPc = "client"
  /\ currentClients = {}
  /\ currentClients' = getClientConnections
  /\ UNCHANGED <<handlerPc, client, batch, sender, user, saved, response>>
  /\ UNCHANGED <<dbVars, registryVars, gameVars, bVars, restarts>>

(* read() empties the queue of whatever the descriptor is connected to by  *)
(* now; it returns 0 or -1 on a closed, reset or free one and the client   *)
(* is left where it is.                                                    *)
Read ==
  /\ handlerPc = "client"
  /\ \E c \in currentClients :
       /\ currentClients' = currentClients \ {c}
       /\ \/ /\ inbox[c.sd] = <<>>
             /\ UNCHANGED <<inbox, handlerPc, client, batch, sender>>
          \/ /\ inbox[c.sd] # <<>>
             /\ batch' = inbox[c.sd]
             /\ inbox' = [inbox EXCEPT ![c.sd] = <<>>]
             /\ client' = c
             /\ sender' = peer[c.sd]
             /\ handlerPc' = "message"
  /\ UNCHANGED <<user, saved, response>>
  /\ UNCHANGED <<dbVars, peer, link, seen, sessionVars, acceptVars, gameVars,
                 bVars, restarts>>

(* A response that cannot be sent is logged and forgotten. *)
SendResponse ==
  /\ handlerPc = "send"
  /\ MutexFree
  /\ Delivered(client.sd) \/ Undelivered
  /\ NextMessage
  /\ UNCHANGED <<dbVars, peer, inbox, seen, sessionVars, acceptVars, gameVars,
                 bVars, restarts>>

-----------------------------------------------------------------------------
(***************************************************************************)
(* user_login                                                              *)
(***************************************************************************)
(* Mutant: does not look at logged_in. *)
LoginSelect_unchecked ==
  /\ handlerPc = "message"
  /\ request.kind = "login"
  /\ LET u == request.user
         row == [user |-> u, tile |-> savedTile[u], faction |-> FALSE]
     IN  Exec(UNCHANGED tables, UNCHANGED tables,
              \/ u \in registered /\ GotoWith("setLoggedIn", row)
              \/ u \notin registered /\ Respond("error"),
              Respond("error"))
  /\ UNCHANGED <<registryVars, gameVars, bVars, restarts>>

LoginSelect ==
  /\ handlerPc = "message"
  /\ request.kind = "login"
  /\ LET u == request.user
         row == [user |-> u, tile |-> savedTile[u], faction |-> FALSE]
     IN  Exec(UNCHANGED tables, UNCHANGED tables,
              \/ u \in registered /\ ~loggedIn[u] /\ GotoWith("setLoggedIn", row)
              \/ u \notin registered /\ Respond("error")
              \/ u \in registered /\ loggedIn[u] /\ Respond("error"),
              Respond("error"))
  /\ UNCHANGED <<registryVars, gameVars, bVars, restarts>>

LoginUpdate ==
  /\ handlerPc = "setLoggedIn"
  /\ Exec(SetLoggedIn(user.user, TRUE), UNCHANGED tables,
          Goto("loginUser"), Respond("error"))
  /\ UNCHANGED <<registryVars, gameVars, bVars, restarts>>

LoginUser ==
  /\ handlerPc = "loginUser"
  /\ loginUser(client, user)
  /\ Goto("userFaction")
  /\ UNCHANGED <<dbVars, kernelVars, clients, acceptVars, gameVars, bVars,
                 restarts>>

(* setFactionName reaches the object on the stack only.  None of the three *)
(* failures, several factions, one with an empty name (ids are not), and a *)
(* failed statement, takes loginUser back.                                 *)
LoginFaction ==
  /\ handlerPc = "userFaction"
  /\ LET names == FactionsOf(user.user)
         named == Cardinality(names) = 1 /\ EmptyName \notin names
     IN  Exec(UNCHANGED tables, UNCHANGED tables,
              /\ user' = [user EXCEPT !.faction = named]
              /\ response' = IF names = {} \/ named THEN "success" ELSE "error"
              /\ handlerPc' = "send"
              /\ UNCHANGED <<currentClients, client, batch, sender, saved>>,
              Respond("error"))
  /\ UNCHANGED <<registryVars, gameVars, bVars, restarts>>

(***************************************************************************)
(* user_logout                                                             *)
(***************************************************************************)
LogoutGetUser ==
  /\ handlerPc = "message"
  /\ request.kind = "logout"
  /\ \/ LoggedInFrom(client.addr) /\ GotoWith("savePos", getUser(client))
     \/ ~LoggedInFrom(client.addr) /\ NoResponse
  /\ UNCHANGED <<dbVars, registryVars, gameVars, bVars, restarts>>

(* Mutant: writes the position the row has from the start. *)
SavePos_startTile ==
  /\ handlerPc = "savePos"
  /\ Exec(SaveTile(user.user, StartTile), UNCHANGED tables,
          saved' = TRUE, saved' = FALSE)
  /\ handlerPc' = "logoutUser"
  /\ UNCHANGED <<currentClients, client, batch, sender, user, response>>
  /\ UNCHANGED <<registryVars, gameVars, bVars, restarts>>

(* The result of this statement is not looked at. *)
SavePos ==
  /\ handlerPc = "savePos"
  /\ Exec(SaveTile(user.user, user.tile), UNCHANGED tables,
          saved' = TRUE, saved' = FALSE)
  /\ handlerPc' = "logoutUser"
  /\ UNCHANGED <<currentClients, client, batch, sender, user, response>>
  /\ UNCHANGED <<registryVars, gameVars, bVars, restarts>>

(* Mutants: forgets to erase the entry; does not ask for the client. *)
LogoutUser_keepsEntry ==
  /\ handlerPc = "logoutUser"
  /\ Exec(SetLoggedIn(user.user, FALSE), UNCHANGED tables,
          Respond("success"), NoResponse)
  /\ UNCHANGED <<registryVars, gameVars, bVars, restarts>>

LogoutUser_withoutClient ==
  /\ handlerPc = "logoutUser"
  /\ Exec(SetLoggedIn(user.user, FALSE), UNCHANGED tables,
          /\ clientUserMapping' =
               [clientUserMapping EXCEPT ![client.addr] = NoSession]
          /\ Respond("success"),
          UNCHANGED clientUserMapping /\ NoResponse)
  /\ UNCHANGED <<kernelVars, clients, acceptVars, gameVars, bVars, restarts>>

(* Server::logoutUser keeps Server::_mutex over the statement. *)
LogoutUser ==
  /\ handlerPc = "logoutUser"
  /\ \/ /\ clients[client.addr] # NoSD
        /\ clientUserMapping[client.addr] # NoSession
        /\ Exec(SetLoggedIn(user.user, FALSE), UNCHANGED tables,
                /\ clientUserMapping' =
                     [clientUserMapping EXCEPT ![client.addr] = NoSession]
                /\ Respond("success"),
                UNCHANGED clientUserMapping /\ NoResponse)
     \/ /\ \/ clients[client.addr] = NoSD
           \/ clientUserMapping[client.addr] = NoSession
        /\ NoResponse
        /\ UNCHANGED <<dbVars, clientUserMapping>>
  /\ UNCHANGED <<kernelVars, clients, acceptVars, gameVars, bVars, restarts>>

(***************************************************************************)
(* update_observer                                                         *)
(***************************************************************************)
ObserveGetUser ==
  /\ handlerPc = "message"
  /\ request.kind = "observe"
  /\ \/ LoggedInFrom(client.addr) /\ Goto("updateUserData")
     \/ ~LoggedInFrom(client.addr) /\ NoResponse
  /\ UNCHANGED <<dbVars, registryVars, gameVars, bVars, restarts>>

UpdateUserData ==
  /\ handlerPc = "updateUserData"
  /\ updateUserData(client, request.tile)
  /\ NoResponse
  /\ UNCHANGED <<dbVars, kernelVars, clients, acceptVars, gameVars, bVars,
                 restarts>>
-----------------------------------------------------------------------------
(***************************************************************************)
(* create_new_faction: Game::addFaction.  Only this thread inserts into    *)
(* `_factions', so the answer of its find() stays right.  The rows and the *)
(* map change in one step: nobody can see the one without the other, and a *)
(* crash between the two forgets the map anyway.                           *)
(***************************************************************************)
AddFaction ==
  /\ handlerPc = "message"
  /\ request.kind = "faction"
  /\ LET owner == getUser(client)
     IN  \/ /\ request.name \in factions
            /\ Respond("error")
         \/ /\ request.name \notin factions
            /\ ~LoggedInFrom(client.addr)
            /\ NoResponse
         \/ /\ request.name \notin factions
            /\ LoggedInFrom(client.addr)
            /\ IF owner.faction THEN Respond("error") ELSE Goto("owner")
  /\ UNCHANGED <<dbVars, registryVars, gameVars, bVars, restarts>>

(* The second getUser of the function. *)
FactionOwner ==
  /\ handlerPc = "owner"
  /\ \/ LoggedInFrom(client.addr) /\ GotoWith("insertFaction", getUser(client))
     \/ ~LoggedInFrom(client.addr) /\ Respond("error")
  /\ UNCHANGED <<dbVars, registryVars, gameVars, bVars, restarts>>

(* Mutant: puts the faction into the map before it knows the result. *)
FactionInsert_memoryFirst ==
  /\ handlerPc = "insertFaction"
  /\ Exec(InsertFaction(request.name, user.user), UNCHANGED tables,
          Respond("success"), Respond("error"))
  /\ factions' = factions \cup {request.name}
  /\ UNCHANGED <<registryVars, updated, unloaded, bVars, restarts>>

(* updateUserFaction does nothing. *)
FactionInsert ==
  /\ handlerPc = "insertFaction"
  /\ LET n == request.name
     IN  Exec(InsertFaction(n, user.user), UNCHANGED tables,
              /\ factions' = factions \cup {n}
              /\ updated' = IF NewFactionUpdated THEN updated \cup {n}
                                                 ELSE updated
              /\ UNCHANGED unloaded
              /\ Respond("success"),
              UNCHANGED gameVars /\ Respond("error"))
  /\ UNCHANGED <<registryVars, bVars, restarts>>

(***************************************************************************)
(* user_register, get_server_info; fetch_obj_type_lib, get_all_factions.   *)
(***************************************************************************)
Register ==
  /\ handlerPc = "message"
  /\ request.kind = "register"
  /\ Exec(InsertUser(request.user), UNCHANGED tables,
          Respond("success"), Respond("error"))
  /\ UNCHANGED <<registryVars, gameVars, bVars, restarts>>

ServerInfo ==
  /\ handlerPc = "message"
  /\ request.kind = "info"
  /\ Exec(UNCHANGED tables, UNCHANGED tables,
          Respond("success"), Respond("error"))
  /\ UNCHANGED <<registryVars, gameVars, bVars, restarts>>

Lists ==
  /\ handlerPc = "message"
  /\ request.kind = "lists"
  /\ Respond("success")
  /\ UNCHANGED <<dbVars, registryVars, gameVars, bVars, restarts>>

-----------------------------------------------------------------------------
(***************************************************************************)
(* broadcastWorldState and broadcastFactionStates.  One round visits the   *)
(* clients of a snapshot in the map's order.                               *)
(***************************************************************************)
BGoto(b, pc) == bPc' = [bPc EXCEPT ![b] = pc]

(* getChangedFactions returns NULL_MESSAGE when nothing changed. *)
GetChangedFactions ==
  /\ bPc["factions"] = "wait"
  /\ updated # {}
  /\ changed' = updated
  /\ BGoto("factions", "snapshot")
  /\ UNCHANGED <<bClients, bClient>>
  /\ UNCHANGED <<dbVars, registryVars, handlerVars, gameVars, restarts>>

FactionSnapshot ==
  /\ bPc["factions"] = "snapshot"
  /\ bClients' = [bClients EXCEPT !["factions"] = getClientConnections]
  /\ BGoto("factions", "client")
  /\ UNCHANGED <<bClient, changed>>
  /\ UNCHANGED <<dbVars, registryVars, handlerVars, gameVars, restarts>>

WorldSnapshot ==
  /\ bPc["world"] = "client"
  /\ bClients["world"] = {}
  /\ bClients' = [bClients EXCEPT !["world"] = getClientConnections]
  /\ UNCHANGED <<bPc, bClient, changed>>
  /\ UNCHANGED <<dbVars, registryVars, handlerVars, gameVars, restarts>>

(* The world's state is for logged in users, the factions' for everyone. *)
BNext(b) ==
  /\ bPc[b] = "client"
  /\ \E c \in bClients[b] :
       /\ bClients' = [bClients EXCEPT ![b] = @ \ {c}]
       /\ \/ /\ b = "factions" \/ LoggedInFrom(c.addr)
             /\ bClient' = [bClient EXCEPT ![b] = c]
             /\ BGoto(b, "send")
          \/ /\ b = "world" /\ ~LoggedInFrom(c.addr)
             /\ UNCHANGED <<bClient, bPc>>
  /\ UNCHANGED changed
  /\ UNCHANGED <<dbVars, registryVars, handlerVars, gameVars, restarts>>

(* Mutant: leaves the client alone when nothing could be sent. *)
BSend_keepsClient(b) ==
  /\ bPc[b] = "send"
  /\ MutexFree
  /\ Delivered(bClient[b].sd) \/ Undelivered
  /\ BGoto(b, "client")
  /\ bClient' = [bClient EXCEPT ![b] = NoClient]
  /\ UNCHANGED <<bClients, changed>>
  /\ UNCHANGED <<dbVars, peer, inbox, seen, sessionVars, acceptVars,
                 handlerVars, gameVars, restarts>>

BSend(b) ==
  /\ bPc[b] = "send"
  /\ MutexFree
  /\ \/ /\ Delivered(bClient[b].sd)
        /\ BGoto(b, "client")
        /\ bClient' = [bClient EXCEPT ![b] = NoClient]
     \/ /\ Undelivered
        /\ BGoto(b, "disconnect")
        /\ UNCHANGED bClient
  /\ UNCHANGED <<bClients, changed>>
  /\ UNCHANGED <<dbVars, peer, inbox, seen, sessionVars, acceptVars,
                 handlerVars, gameVars, restarts>>

BDisconnect(b) ==
  /\ bPc[b] = "disconnect"
  /\ disconnectClient(bClient[b])
  /\ BGoto(b, "client")
  /\ bClient' = [bClient EXCEPT ![b] = NoClient]
  /\ UNCHANGED <<bClients, changed>>
  /\ UNCHANGED <<dbVars, seen, acceptVars, handlerVars, gameVars, restarts>>

(* resetChangedFactionsStatus clears every flag there is by now. *)
FactionRoundDone ==
  /\ bPc["factions"] = "client"
  /\ bClients["factions"] = {}
  /\ updated' = {}
  /\ changed' = {}
  /\ BGoto("factions", "wait")
  /\ UNCHANGED <<bClients, bClient, factions, unloaded>>
  /\ UNCHANGED <<dbVars, registryVars, handlerVars, restarts>>

-----------------------------------------------------------------------------
Peers ==
  /\ \E f \in FD : \/ \E r \in Request : PeerSend(f, r)
                   \/ \E how \in {"closed", "reset"} : PeerClose(f, how)
  /\ UNCHANGED <<dbVars, handlerVars, gameVars, bVars, restarts>>

(* Server::run, called forever by main(). *)
AcceptConnection ==
  /\ \E a \in Addr : Accept(a)
  /\ UNCHANGED <<dbVars, handlerVars, gameVars, bVars, restarts>>

RegisterConnection ==
  /\ Find \/ Insert
  /\ UNCHANGED <<dbVars, handlerVars, gameVars, bVars, restarts>>

handleClientMessages ==
  \/ HandlerSnapshot \/ Read \/ SendResponse
  \/ LoginSelect \/ LoginUpdate \/ LoginUser \/ LoginFaction
  \/ LogoutGetUser \/ SavePos \/ LogoutUser
  \/ ObserveGetUser \/ UpdateUserData
  \/ AddFaction \/ FactionOwner \/ FactionInsert
  \/ Register \/ ServerInfo \/ Lists

BroadcastStep(b) == BNext(b) \/ BSend(b) \/ BDisconnect(b)

broadcastWorldState == WorldSnapshot \/ BroadcastStep("world")

broadcastFactionStates ==
  \/ GetChangedFactions \/ FactionSnapshot \/ FactionRoundDone
  \/ BroadcastStep("factions")

Next ==
  \/ Peers \/ AcceptConnection \/ RegisterConnection
  \/ handleClientMessages \/ broadcastWorldState \/ broadcastFactionStates
  \/ Restart

Spec == Init /\ [][Next]_vars

(***************************************************************************)
(* Every thread of the process keeps running.  A thread waiting for        *)
(* MessageHandler::_mutex needs no more than that, because each holder     *)
(* drops a client and clients do not come back.  Peers and crashes are     *)
(* under no obligation.                                                    *)
(***************************************************************************)
FairSpec ==
  /\ Spec
  /\ WF_vars(RegisterConnection)
  /\ WF_vars(handleClientMessages)
  /\ WF_vars(broadcastWorldState)
  /\ WF_vars(broadcastFactionStates)

-----------------------------------------------------------------------------
(***************************************************************************)
(* Safety                                                                  *)
(***************************************************************************)

(* No user has sessions at two addresses.  The test of logged_in, the      *)
(* update and loginUser are three steps of user_login with broadcasters    *)
(* dropping clients in between, and the connection can fail at each.       *)
SingleSession ==
  \A a, b \in Addr :
    a # b /\ LoggedInFrom(a) /\ LoggedInFrom(b)
      => clientUserMapping[a].user # clientUserMapping[b].user

(* As long as the database answers, every user in the mapping has          *)
(* logged_in set: otherwise a second login could be admitted.              *)
MappedIsLoggedIn ==
  dbUp => \A a \in Addr :
            LoggedInFrom(a) => loggedIn[clientUserMapping[a].user]

(* Without address reuse every descriptor belongs to exactly the client    *)
(* that connected on it, or is being registered: disconnectClient closes   *)
(* the number a stale copy remembers, and never someone else's.            *)
FdsAccounted ==
  /\ \A f \in FD : Open(f) =>
       \/ clients[peer[f]] = f
       \/ accepted = [addr |-> peer[f], sd |-> f]
  /\ \A a \in Addr : clients[a] # NoSD => peer[clients[a]] = a

(* Without address reuse, what is handled for a client that is still       *)
(* registered was sent by it: reading from a descriptor somebody else has  *)
(* closed and the kernel handed out again happens for dropped clients only.*)
RegisteredSender ==
  handlerPc # "client" /\ clients[client.addr] = client.sd
    => sender = client.addr

(* The factions in memory are rows of the table.  They are all of them but *)
(* those the start could not load, because its SELECT failed, and, once    *)
(* the connection is gone, one whose insertion was in doubt.  What was not *)
(* loaded stays out of memory until the next start: a faction of that name *)
(* gets past the test in memory, and only the table refuses it.            *)
FactionsAgree ==
  /\ factions \subseteq DOMAIN factionOwner
  /\ unloaded \subseteq DOMAIN factionOwner \ factions
  /\ \A m, n \in DOMAIN factionOwner \ (factions \cup unloaded) :
       m = n /\ ~dbUp

(* logged_in without a session that can still be logged out. *)
LockedOut(u) ==
  /\ loggedIn[u]
  /\ ~(handlerPc = "loginUser" /\ user.user = u)
  /\ \A a \in Addr : clients[a] # NoSD /\ LoggedInFrom(a)
                       => clientUserMapping[a].user # u

(* The welcome message's "permanently": nothing the server does gives a    *)
(* lost account back, not even a new start.                                *)
LockedOutForever ==
  [][\A u \in User : LockedOut(u) => LockedOut(u)']_vars

(* An account is released only from the address that has its session, and  *)
(* if the position was saved it is the session's last one.                 *)
SavedOnLogout ==
  [][\A u \in User : loggedIn[u] /\ ~loggedIn'[u] =>
       \E a \in Addr : /\ clients[a] # NoSD
                       /\ LoggedInFrom(a)
                       /\ clientUserMapping[a].user = u
                       /\ saved => savedTile[u] = clientUserMapping[a].tile
    ]_vars

(***************************************************************************)
(* Liveness                                                                *)
(***************************************************************************)

(* The client of a logged in user whose connection has ended is dropped,   *)
(* by whichever broadcaster, unless the user's logout is handled first.    *)
Reaped ==
  \A a \in Addr :
    (/\ clients[a] # NoSD
     /\ link[clients[a]] # "open"
     /\ LoggedInFrom(a))
      ~> (clients[a] = NoSD \/ ~LoggedInFrom(a))

(* What a peer has sent is read, or the connection is closed. *)
RequestsRead == \A f \in FD : inbox[f] # <<>> ~> inbox[f] = <<>>

(***************************************************************************)
(* The accounts the tables and the maps stand for.                         *)
(***************************************************************************)
AccountStatus(u) ==
  CASE ~loggedIn[u] -> "free"
    [] LockedOut(u) -> "locked"
    [] loggedIn[u] /\ handlerPc = "loginUser" /\ user.user = u -> "admitting"
    [] OTHER -> "online"

Account ==
  INSTANCE AccountLifecycle WITH status <- [u \in User |-> AccountStatus(u)]

(* The server implements AccountLifecycle, given that addresses are new. *)
AccountsKept == Account!Spec

(***************************************************************************)
(* Claims of the repository the code does not keep                         *)
(***************************************************************************)

(* General.cpp:102: "Currently user can have only one faction!" *)
OneFactionPerUser == \A u \in User : Cardinality(FactionsOf(u)) <= 1

(* MessageHandler.h:39: "Reads client messages and responds accordingly":  *)
(* a message is handled for the client that sent it.                       *)
HandledAsSender ==
  handlerPc # "client" => sender = client.addr
=============================================================================
