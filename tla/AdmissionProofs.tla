--------------------------- MODULE AdmissionProofs ---------------------------
(***************************************************************************)
(* No user ever has two sessions, for every number of users, addresses and *)
(* descriptors, with addresses used again, a database connection that can  *)
(* break at every statement and a process that can crash; and while no     *)
(* address is used again, the server implements AccountLifecycle.          *)
(*                                                                         *)
(* SingleSession is not inductive: the steps of user_login that follow the *)
(* test of logged_in must be known to have passed it, and the steps of     *)
(* user_logout to release the session they were started for.               *)
(***************************************************************************)
EXTENDS DescriptorProofs

Mapped(u) ==
  \E a \in Addr : LoggedInFrom(a) /\ clientUserMapping[a].user = u

(* user_login, after its SELECT and after its UPDATE. *)
Admitting ==
  /\ handlerPc = "setLoggedIn" => user.user \in User /\ ~loggedIn[user.user]
  /\ handlerPc = "loginUser" =>
       user.user \in User /\ dbUp /\ loggedIn[user.user] /\ ~Mapped(user.user)

(* user_logout: the session, unless it was dropped, is the caller's. *)
Leaving ==
  handlerPc \in {"savePos", "logoutUser"} =>
    \/ clientUserMapping[client.addr] = NoSession
    \/ /\ LoggedInFrom(client.addr)
       /\ clientUserMapping[client.addr].user = user.user

SInv == SingleSession /\ MappedIsLoggedIn /\ Admitting /\ Leaving

-----------------------------------------------------------------------------
LEMMA InitSInv == Init => SInv
BY DEF Init, RegistryEmpty, ThreadsStart, SInv, SingleSession,
   MappedIsLoggedIn, Admitting, Leaving, LoggedInFrom

LEMMA RestartSInv == Restart => SInv'
BY DEF Restart, RegistryRestart, SInv, SingleSession,
   MappedIsLoggedIn, Admitting, Leaving, LoggedInFrom

(* Sessions that end while the handler is elsewhere, or that stay. *)
LEMMA FewerSessions ==
  ASSUME SInv, UNCHANGED <<dbVars, handlerVars>>,
         HInv, NEW gone \in SUBSET Addr,
         clientUserMapping' = [a \in Addr |-> IF a \in gone THEN NoSession
                                              ELSE clientUserMapping[a]]
  PROVE  SInv'
<1>1. ASSUME NEW a \in Addr, LoggedInFrom(a)'
      PROVE  LoggedInFrom(a) /\ clientUserMapping'[a] = clientUserMapping[a]
  BY <1>1 DEF LoggedInFrom
<1>2. UNCHANGED <<dbUp, loggedIn, handlerPc, user, client>>
  BY DEF dbVars, tables, handlerVars
<1>3. SingleSession' /\ MappedIsLoggedIn'
  BY <1>1, <1>2 DEF SInv, SingleSession, MappedIsLoggedIn
<1>4. Admitting'
  BY <1>1, <1>2 DEF SInv, Admitting, Mapped
<1>5. Leaving'
  <2>1. handlerPc # "client" => client.addr \in Addr
    BY DEF HInv, HandlerOK, Client
  <2> SUFFICES ASSUME handlerPc \in {"savePos", "logoutUser"}
               PROVE  \/ clientUserMapping'[client.addr] = NoSession
                      \/ /\ LoggedInFrom(client.addr)'
                         /\ clientUserMapping'[client.addr].user = user.user
    BY <1>2 DEF Leaving, LoggedInFrom
  <2>2. clientUserMapping'[client.addr]
          \in {NoSession, clientUserMapping[client.addr]}
    BY <2>1
  <2> QED BY <1>2, <2>2 DEF SInv, Leaving, LoggedInFrom
<1> QED BY <1>3, <1>4, <1>5 DEF SInv

LEMMA SameSessions ==
  ASSUME SInv, UNCHANGED <<dbVars, handlerVars, clientUserMapping>>
  PROVE  SInv'
BY DEF SInv, SingleSession, MappedIsLoggedIn, Admitting, Leaving,
   LoggedInFrom, Mapped, dbVars, tables, handlerVars

(* Steps of the handler that end outside those of a login or logout. *)
LEMMA Elsewhere ==
  ASSUME SInv, UNCHANGED <<clientUserMapping, loggedIn>>, dbUp' => dbUp,
         handlerPc' \notin {"setLoggedIn", "loginUser", "savePos", "logoutUser"}
  PROVE  SInv'
BY DEF SInv, SingleSession, MappedIsLoggedIn, Admitting, Leaving,
   LoggedInFrom

-----------------------------------------------------------------------------
LEMMA LoginSInv ==
  TInv /\ SInv /\ (LoginSelect \/ LoginUpdate \/ LoginUser \/ LoginFaction)
    => SInv'
<1>1. ASSUME TInv, SInv, LoginSelect PROVE SInv'
  <2>1. request.user \in User
    BY <1>1, Current, RequestFields DEF LoginSelect
  <2>2. UNCHANGED <<loggedIn, clientUserMapping>> /\ (dbUp' => dbUp)
    BY <1>1 DEF LoginSelect, Exec, tables, registryVars, sessionVars
  <2>3. CASE Respond("error")
    BY <1>1, <2>2, <2>3, Elsewhere DEF Respond
  <2>4. CASE ~Respond("error")
    <3>1. /\ ~loggedIn[request.user]
          /\ handlerPc' = "setLoggedIn"
          /\ user'.user = request.user
      BY <1>1, <2>4 DEF LoginSelect, Exec, GotoWith
    <3> QED
      BY <1>1, <2>1, <2>2, <3>1
         DEF SInv, SingleSession, MappedIsLoggedIn, Admitting, Leaving,
             LoggedInFrom
  <2> QED BY <2>3, <2>4
<1>2. ASSUME TInv, SInv, LoginUpdate PROVE SInv'
  <2> DEFINE u == user.user
  <2>1. u \in User /\ ~loggedIn[u] /\ loggedIn \in [User -> BOOLEAN]
    BY <1>2 DEF SInv, Admitting, LoginUpdate, TInv, DBTypeOK
  <2>2. UNCHANGED clientUserMapping
    BY <1>2 DEF LoginUpdate, registryVars, sessionVars
  <2>3. /\ dbUp' => dbUp
        /\ loggedIn' = loggedIn \/ loggedIn' = [loggedIn EXCEPT ![u] = TRUE]
    BY <1>2 DEF LoginUpdate, Exec, SetLoggedIn, tables
  <2>4. MappedIsLoggedIn'
    BY <1>2, <2>1, <2>2, <2>3
       DEF SInv, MappedIsLoggedIn, LoggedInFrom, TInv, SessionTypeOK, UserData
  <2>5. SingleSession'
    BY <1>2, <2>2 DEF SInv, SingleSession, LoggedInFrom
  <2>6. CASE Respond("error")
    BY <2>4, <2>5, <2>6 DEF SInv, Admitting, Leaving, Respond
  <2>7. CASE ~Respond("error")
    <3>1. /\ dbUp /\ dbUp'
          /\ loggedIn' = [loggedIn EXCEPT ![u] = TRUE]
          /\ handlerPc' = "loginUser"
          /\ UNCHANGED user
      BY <1>2, <2>7 DEF LoginUpdate, Exec, SetLoggedIn, Goto
    <3>2. ~Mapped(u)
      BY <1>2, <2>1, <3>1 DEF SInv, MappedIsLoggedIn, Mapped
    <3>3. Admitting' /\ Leaving'
      BY <2>1, <2>2, <3>1, <3>2
         DEF Admitting, Leaving, Mapped, LoggedInFrom
    <3> QED BY <2>4, <2>5, <3>3 DEF SInv
  <2> QED BY <2>6, <2>7
<1>3. ASSUME TInv, SInv, LoginUser PROVE SInv'
  <2>1. /\ user.user \in User /\ dbUp /\ loggedIn[user.user]
        /\ ~Mapped(user.user)
    BY <1>3 DEF SInv, Admitting, LoginUser
  <2>2. client.addr \in Addr
    BY <1>3, Current DEF LoginUser
  <2>3. clientUserMapping' = [clientUserMapping EXCEPT ![client.addr] = user]
    BY <1>3 DEF LoginUser, loginUser
  <2>4. UNCHANGED <<dbUp, loggedIn>> /\ handlerPc' = "userFaction"
    BY <1>3 DEF LoginUser, dbVars, tables, Goto
  <2>5. ASSUME NEW a \in Addr
        PROVE  clientUserMapping'[a] = IF a = client.addr THEN user
                                       ELSE clientUserMapping[a]
    BY <1>3, <2>2, <2>3 DEF TInv, SessionTypeOK
  <2>6. SingleSession'
    BY <1>3, <2>1, <2>5 DEF SInv, SingleSession, Mapped, LoggedInFrom
  <2>7. MappedIsLoggedIn'
    BY <1>3, <2>1, <2>4, <2>5 DEF SInv, MappedIsLoggedIn, LoggedInFrom
  <2> QED BY <2>4, <2>6, <2>7 DEF SInv, Admitting, Leaving
<1>4. ASSUME TInv, SInv, LoginFaction PROVE SInv'
  <2>1. /\ UNCHANGED <<loggedIn, clientUserMapping>> /\ (dbUp' => dbUp)
        /\ handlerPc' = "send"
    BY <1>4 DEF LoginFaction, Exec, tables, registryVars, sessionVars, Respond
  <2> QED BY <1>4, <2>1, Elsewhere
<1> QED BY <1>1, <1>2, <1>3, <1>4

LEMMA LogoutSInv ==
  TInv /\ SInv /\ (LogoutGetUser \/ SavePos \/ LogoutUser) => SInv'
<1>1. ASSUME TInv, SInv, LogoutGetUser PROVE SInv'
  <2>1. UNCHANGED <<dbUp, loggedIn, clientUserMapping>>
    BY <1>1 DEF LogoutGetUser, dbVars, tables, registryVars, sessionVars
  <2>2. CASE NextMessage
    BY <1>1, <2>1, <2>2, Elsewhere DEF NextMessage
  <2>3. CASE ~NextMessage
    <3>1. GotoWith("savePos", getUser(client)) /\ LoggedInFrom(client.addr)
      BY <1>1, <2>3 DEF LogoutGetUser, NoResponse
    <3>2. /\ handlerPc' = "savePos"
          /\ user' = clientUserMapping[client.addr]
          /\ UNCHANGED client
      BY <3>1 DEF GotoWith, getUser
    <3> QED
      BY <1>1, <2>1, <3>1, <3>2
         DEF SInv, SingleSession, MappedIsLoggedIn, Admitting, Leaving,
             LoggedInFrom
  <2> QED BY <2>2, <2>3
<1>2. ASSUME TInv, SInv, SavePos PROVE SInv'
  <2>1. /\ UNCHANGED <<loggedIn, clientUserMapping, user, client>>
        /\ dbUp' => dbUp
        /\ handlerPc = "savePos" /\ handlerPc' = "logoutUser"
    BY <1>2 DEF SavePos, Exec, SaveTile, tables, registryVars, sessionVars
  <2> QED
    BY <1>2, <2>1
       DEF SInv, SingleSession, MappedIsLoggedIn, Admitting, Leaving,
           LoggedInFrom
<1>3. ASSUME TInv, SInv, LogoutUser PROVE SInv'
  <2> DEFINE u == user.user
             released == /\ clientUserMapping[client.addr] # NoSession
                         /\ dbUp' = dbUp
                         /\ loggedIn' = [loggedIn EXCEPT ![u] = FALSE]
                         /\ clientUserMapping' =
                              [clientUserMapping EXCEPT
                                 ![client.addr] = NoSession]
             kept == /\ UNCHANGED clientUserMapping
                     /\ \/ UNCHANGED <<dbUp, loggedIn>>
                        \/ dbUp' = FALSE
  <2>1. /\ client.addr \in Addr
        /\ clientUserMapping \in [Addr -> UserData \cup {NoSession}]
    BY <1>3, Current DEF LogoutUser, SessionTypeOK
  <2>2. released \/ kept
    BY <1>3 DEF LogoutUser, Exec, SetLoggedIn, dbVars, tables
  <2>3. handlerPc' \in {"send", "message", "client"}
    BY <1>3 DEF LogoutUser, Exec, Respond, NoResponse, NextMessage
  <2>4. clientUserMapping[client.addr] # NoSession =>
          LoggedInFrom(client.addr) /\ clientUserMapping[client.addr].user = u
    BY <1>3 DEF SInv, Leaving, LogoutUser
  <2>5. SingleSession' /\ MappedIsLoggedIn'
    <3>1. CASE released
      <4>1. ASSUME NEW a \in Addr, LoggedInFrom(a)'
            PROVE  /\ a # client.addr /\ LoggedInFrom(a)
                   /\ clientUserMapping'[a] = clientUserMapping[a]
        BY <2>1, <3>1, <4>1 DEF LoggedInFrom
      <4>2. SingleSession'
        BY <1>3, <4>1 DEF SInv, SingleSession
      <4>3. MappedIsLoggedIn'
        <5> SUFFICES ASSUME dbUp', NEW a \in Addr, LoggedInFrom(a)'
                     PROVE  loggedIn'[clientUserMapping'[a].user]
          BY DEF MappedIsLoggedIn
        <5> DEFINE v == clientUserMapping[a].user
        <5>1. /\ a # client.addr /\ LoggedInFrom(a)
              /\ clientUserMapping'[a] = clientUserMapping[a]
          BY <4>1
        <5>2. loggedIn[v]
          BY <1>3, <3>1, <5>1 DEF SInv, MappedIsLoggedIn
        <5>3. v \in User
          BY <2>1, <5>1 DEF LoggedInFrom, UserData
        <5>4. v # u
          BY <1>3, <2>1, <2>4, <3>1, <5>1 DEF SInv, SingleSession
        <5> QED
          BY <1>3, <3>1, <5>1, <5>2, <5>3, <5>4 DEF TInv, DBTypeOK
      <4> QED BY <4>2, <4>3
    <3>2. CASE kept
      BY <1>3, <3>2 DEF SInv, SingleSession, MappedIsLoggedIn, LoggedInFrom
    <3> QED BY <2>2, <3>1, <3>2
  <2> QED BY <2>3, <2>5 DEF SInv, Admitting, Leaving
<1> QED BY <1>1, <1>2, <1>3

LEMMA OtherMessagesSInv ==
  TInv /\ SInv /\ (ObserveGetUser \/ UpdateUserData \/ AddFaction
                   \/ FactionOwner \/ FactionInsert
                   \/ Register \/ ServerInfo \/ Lists)
    => SInv'
<1>1. ASSUME TInv, SInv, UpdateUserData PROVE SInv'
  <2>1. /\ client.addr \in Addr
        /\ clientUserMapping \in [Addr -> UserData \cup {NoSession}]
    BY <1>1, Current DEF UpdateUserData, SessionTypeOK
  <2>2. /\ UNCHANGED <<dbUp, loggedIn>>
        /\ handlerPc' \in {"message", "client"}
    BY <1>1 DEF UpdateUserData, dbVars, tables, NoResponse, NextMessage
  <2>3. ASSUME NEW a \in Addr, LoggedInFrom(a)'
        PROVE  /\ LoggedInFrom(a)
               /\ clientUserMapping'[a].user = clientUserMapping[a].user
    BY <1>1, <2>1, <2>3
       DEF LoggedInFrom, UpdateUserData, updateUserData
  <2> QED
    BY <1>1, <2>2, <2>3
       DEF SInv, SingleSession, MappedIsLoggedIn, Admitting, Leaving
<1>2. ASSUME TInv, SInv, ObserveGetUser \/ AddFaction \/ FactionOwner
      PROVE  SInv'
  <2>1. /\ UNCHANGED <<dbUp, loggedIn, clientUserMapping>>
        /\ handlerPc' \notin {"setLoggedIn", "loginUser", "savePos",
                              "logoutUser"}
    BY <1>2 DEF ObserveGetUser, AddFaction, FactionOwner, dbVars, tables,
       registryVars, sessionVars, NoResponse, NextMessage, Goto, GotoWith,
       Respond
  <2> QED BY <1>2, <2>1, Elsewhere
<1>3. ASSUME TInv, SInv, FactionInsert \/ Register \/ ServerInfo \/ Lists
      PROVE  SInv'
  <2>1. /\ UNCHANGED <<loggedIn, clientUserMapping>>
        /\ dbUp' => dbUp
        /\ handlerPc' = "send"
    BY <1>3 DEF FactionInsert, Register, ServerInfo, Lists, Exec,
       InsertFaction, InsertUser, dbVars, tables, registryVars, sessionVars,
       Respond
  <2> QED BY <1>3, <2>1, Elsewhere
<1> QED BY <1>1, <1>2, <1>3

LEMMA HandlerLoopSInv ==
  TInv /\ SInv /\ (HandlerSnapshot \/ Read \/ SendResponse) => SInv'
<1> SUFFICES ASSUME TInv, SInv, HandlerSnapshot \/ Read \/ SendResponse
             PROVE  SInv'
  OBVIOUS
<1>1. UNCHANGED <<dbUp, loggedIn, clientUserMapping>>
  BY DEF HandlerSnapshot, Read, SendResponse, dbVars, tables, registryVars,
     sessionVars
<1>2. handlerPc' \in {"client", "message"}
  BY DEF HandlerSnapshot, Read, SendResponse, NextMessage
<1> QED BY <1>1, <1>2, Elsewhere

(* The threads that can only end sessions. *)
LEMMA OtherThreadsSInv ==
  TInv /\ SInv /\ (\/ Peers \/ AcceptConnection \/ RegisterConnection
                   \/ broadcastWorldState \/ broadcastFactionStates)
    => SInv'
<1>1. ASSUME TInv, SInv, NEW b \in Broadcaster, BDisconnect(b)
      PROVE  SInv'
  <2> DEFINE c == bClient[b]
             gone == IF clients[c.addr] # NoSD THEN {c.addr} ELSE {}
  <2>1. c.addr \in Addr
    BY <1>1 DEF TInv, BInv, BroadcastersOK, BDisconnect, Client
  <2>2. clientUserMapping' = [a \in Addr |-> IF a \in gone THEN NoSession
                                             ELSE clientUserMapping[a]]
    BY <1>1, <2>1 DEF TInv, SessionTypeOK, BDisconnect, disconnectClient,
       sessionVars
  <2>3. UNCHANGED <<dbVars, handlerVars>>
    BY <1>1 DEF BDisconnect
  <2> HIDE DEF gone
  <2>4. gone \in SUBSET Addr
    BY <2>1 DEF gone
  <2> QED BY <1>1, <2>2, <2>3, <2>4, FewerSessions DEF TInv
<1>2. ASSUME TInv, SInv,
             \/ Peers \/ AcceptConnection \/ RegisterConnection
             \/ WorldSnapshot \/ GetChangedFactions \/ FactionSnapshot
             \/ FactionRoundDone
             \/ \E b \in Broadcaster : BNext(b) \/ BSend(b)
      PROVE  SInv'
  <2>1. UNCHANGED <<dbVars, handlerVars, clientUserMapping>>
    BY <1>2 DEF Peers, PeerSend, PeerClose, AcceptConnection, Accept,
       RegisterConnection, Find, Insert, WorldSnapshot, GetChangedFactions,
       FactionSnapshot, FactionRoundDone, BNext, BSend, registryVars,
       sessionVars
  <2> QED BY <1>2, <2>1, SameSessions
<1> QED
  BY <1>1, <1>2 DEF broadcastWorldState, broadcastFactionStates,
     BroadcastStep, Broadcaster

-----------------------------------------------------------------------------
LEMMA NextSInv == TInv /\ SInv /\ [Next]_vars => SInv'
<1> SUFFICES ASSUME TInv, SInv, [Next]_vars PROVE SInv'
  OBVIOUS
<1>1. CASE handleClientMessages
  BY <1>1, HandlerLoopSInv, LoginSInv, LogoutSInv, OtherMessagesSInv
     DEF handleClientMessages
<1>2. CASE \/ Peers \/ AcceptConnection \/ RegisterConnection
           \/ broadcastWorldState \/ broadcastFactionStates
  BY <1>2, OtherThreadsSInv
<1>3. CASE Restart
  BY <1>3, RestartSInv
<1>4. CASE UNCHANGED vars
  BY <1>4, SameSessions DEF vars, registryVars, sessionVars
<1> QED BY <1>1, <1>2, <1>3, <1>4 DEF Next

THEOREM SessionInvariant == Spec => []SInv
BY TypeInvariant, InitSInv, NextSInv, PTL DEF Spec

(* No user has sessions at two addresses (Server.cpp:236, General.cpp:74). *)
THEOREM OneSessionPerUser == Spec => []SingleSession
<1>1. SInv => SingleSession
  BY DEF SInv
<1> QED BY <1>1, SessionInvariant, PTL

(* While the database answers, the users in the mapping are logged in      *)
(* there, so the test of logged_in in user_login sees every session.       *)
THEOREM SessionsAreRecorded == Spec => []MappedIsLoggedIn
<1>1. SInv => MappedIsLoggedIn
  BY DEF SInv
<1> QED BY <1>1, SessionInvariant, PTL

-----------------------------------------------------------------------------
(***************************************************************************)
(* What a logout writes: the caller's session as the mapping has it, and   *)
(* its position if saving it succeeded.                                    *)
(***************************************************************************)
LeavingWith ==
  handlerPc \in {"savePos", "logoutUser"} =>
    /\ user.user \in User
    /\ clientUserMapping[client.addr] \in {NoSession, user}
    /\ handlerPc = "logoutUser" /\ saved => savedTile[user.user] = user.tile

LEMMA LeavingElsewhere ==
  ASSUME handlerPc' \notin {"savePos", "logoutUser"}
  PROVE  LeavingWith'
BY DEF LeavingWith

(* The other threads can only end the session meanwhile. *)
LEMMA LeavingMeanwhile ==
  ASSUME TInv, LeavingWith, UNCHANGED <<savedTile, handlerVars>>,
         \A a \in Addr : clientUserMapping'[a] \in {NoSession, clientUserMapping[a]}
  PROVE  LeavingWith'
<1>1. UNCHANGED <<handlerPc, user, saved, client>>
  BY DEF handlerVars
<1>2. handlerPc # "client" => client.addr \in Addr
  BY Current
<1> QED BY <1>1, <1>2 DEF LeavingWith

LEMMA DisconnectMapping ==
  ASSUME TInv, NEW b \in Broadcaster, BDisconnect(b)
  PROVE  /\ UNCHANGED <<seen, acceptVars, dbVars, handlerVars>>
         /\ \A a \in Addr :
              \/ clients'[a] = clients[a] /\ clientUserMapping'[a] = clientUserMapping[a]
              \/ clients'[a] = NoSD /\ clientUserMapping'[a] = NoSession
<1>1. bClient[b].addr \in Addr
  BY DEF TInv, BInv, BroadcastersOK, BDisconnect, Client
<1> QED
  BY <1>1 DEF TInv, SessionTypeOK, BDisconnect, disconnectClient, sessionVars

LEMMA LeavingNext == TInv /\ LeavingWith /\ [Next]_vars => LeavingWith'
<1> SUFFICES ASSUME TInv, LeavingWith, [Next]_vars PROVE LeavingWith'
  OBVIOUS
<1>1. CASE LogoutGetUser
  <2>1. CASE NextMessage
    BY <2>1, LeavingElsewhere DEF NextMessage
  <2>2. CASE ~NextMessage
    <3>1. GotoWith("savePos", getUser(client)) /\ LoggedInFrom(client.addr)
          /\ UNCHANGED clientUserMapping
      BY <1>1, <2>2 DEF LogoutGetUser, NoResponse, registryVars, sessionVars
    <3>2. /\ handlerPc' = "savePos" /\ UNCHANGED client
          /\ user' = clientUserMapping[client.addr]
      BY <3>1 DEF GotoWith, getUser
    <3>3. clientUserMapping[client.addr].user \in User
      BY <1>1, <3>1, Current
         DEF LogoutGetUser, LoggedInFrom, SessionTypeOK, UserData
    <3> QED BY <3>1, <3>2, <3>3 DEF LeavingWith
  <2> QED BY <2>1, <2>2
<1>2. CASE SavePos
  <2>1. /\ handlerPc = "savePos" /\ handlerPc' = "logoutUser"
        /\ UNCHANGED <<user, client, clientUserMapping>>
        /\ \/ savedTile' = [savedTile EXCEPT ![user.user] = user.tile]
           \/ saved' = FALSE
    BY <1>2 DEF SavePos, Exec, SaveTile, registryVars, sessionVars
  <2>2. savedTile \in [User -> Tile] /\ user.user \in User
    BY <2>1 DEF TInv, DBTypeOK, LeavingWith
  <2> QED BY <2>1, <2>2 DEF LeavingWith
<1>3. CASE handleClientMessages /\ ~LogoutGetUser /\ ~SavePos
  <2>1. handlerPc' \notin {"savePos", "logoutUser"}
    <3>1. CASE HandlerSnapshot \/ Read \/ SendResponse
      BY <3>1 DEF HandlerSnapshot, Read, SendResponse, NextMessage
    <3>2. CASE LoginSelect \/ LoginUpdate \/ LoginUser \/ LoginFaction
      BY <3>2 DEF LoginSelect, LoginUpdate, LoginUser, LoginFaction, Exec,
         Respond, Goto, GotoWith
    <3>3. CASE LogoutUser
      BY <3>3 DEF LogoutUser, Exec, Respond, NoResponse, NextMessage
    <3>4. CASE ObserveGetUser \/ UpdateUserData
      BY <3>4 DEF ObserveGetUser, UpdateUserData, NoResponse, NextMessage, Goto
    <3>5. CASE AddFaction \/ FactionOwner \/ FactionInsert
      BY <3>5 DEF AddFaction, FactionOwner, FactionInsert, Exec, Respond,
         NoResponse, NextMessage, Goto, GotoWith
    <3>6. CASE Register \/ ServerInfo \/ Lists
      BY <3>6 DEF Register, ServerInfo, Lists, Exec, Respond
    <3> QED
      BY <1>3, <3>1, <3>2, <3>3, <3>4, <3>5, <3>6 DEF handleClientMessages
  <2> QED BY <2>1, LeavingElsewhere
<1>4. ASSUME NEW b \in Broadcaster, BDisconnect(b) PROVE LeavingWith'
  <2>1. /\ UNCHANGED <<savedTile, handlerVars>>
        /\ \A a \in Addr : clientUserMapping'[a] \in {NoSession, clientUserMapping[a]}
    BY <1>4, DisconnectMapping DEF dbVars, tables
  <2> QED BY <2>1, LeavingMeanwhile
<1>5. CASE \/ Peers \/ AcceptConnection \/ RegisterConnection
           \/ WorldSnapshot \/ GetChangedFactions \/ FactionSnapshot
           \/ FactionRoundDone
           \/ \E b \in Broadcaster : BNext(b) \/ BSend(b)
  <2>1. UNCHANGED <<savedTile, handlerVars, clientUserMapping>>
    BY <1>5 DEF Peers, PeerSend, PeerClose, AcceptConnection, Accept,
       RegisterConnection, Find, Insert, WorldSnapshot, GetChangedFactions,
       FactionSnapshot, FactionRoundDone, BNext, BSend, registryVars,
       sessionVars, dbVars, tables
  <2> QED BY <2>1, LeavingMeanwhile
<1>6. CASE Restart
  BY <1>6, LeavingElsewhere DEF Restart
<1>7. CASE UNCHANGED vars
  <2>1. UNCHANGED <<savedTile, handlerVars, clientUserMapping>>
    BY <1>7 DEF vars, registryVars, sessionVars, dbVars, tables
  <2> QED BY <2>1, LeavingMeanwhile
<1> QED
  BY <1>1, <1>2, <1>3, <1>4, <1>5, <1>6, <1>7
     DEF Next, broadcastWorldState, broadcastFactionStates, BroadcastStep,
         Broadcaster

LEMMA LeavingInvariant == Spec => []LeavingWith
<1>1. Init => LeavingWith
  BY DEF Init, ThreadsStart, LeavingWith
<1> QED BY <1>1, TypeInvariant, LeavingNext, PTL DEF Spec

(* The steps that write users.logged_in. *)
LEMMA FlagWrites ==
  ASSUME [Next]_vars
  PROVE  UNCHANGED loggedIn \/ LoginUpdate \/ LogoutUser
<1>1. CASE handleClientMessages /\ ~LoginUpdate /\ ~LogoutUser
  BY <1>1
     DEF handleClientMessages, HandlerSnapshot, Read, SendResponse,
         LoginSelect, LoginUser, LoginFaction, LogoutGetUser, SavePos,
         ObserveGetUser, UpdateUserData, AddFaction, FactionOwner,
         FactionInsert, Register, ServerInfo, Lists, Exec, SaveTile,
         InsertFaction, InsertUser, dbVars, tables
<1>2. CASE \/ Peers \/ AcceptConnection \/ RegisterConnection
           \/ broadcastWorldState \/ broadcastFactionStates
  BY <1>2
     DEF Peers, AcceptConnection, RegisterConnection, broadcastWorldState,
         broadcastFactionStates, BroadcastStep, WorldSnapshot,
         GetChangedFactions, FactionSnapshot, FactionRoundDone, BNext, BSend,
         BDisconnect, dbVars, tables
<1>3. CASE Restart \/ UNCHANGED vars
  BY <1>3 DEF Restart, vars, dbVars, tables
<1> QED BY <1>1, <1>2, <1>3 DEF Next

LEMMA Releases ==
  ASSUME TInv, LeavingWith, [Next]_vars,
         NEW u \in User, loggedIn[u], ~loggedIn'[u]
  PROVE  \E a \in Addr : /\ clients[a] # NoSD
                         /\ LoggedInFrom(a)
                         /\ clientUserMapping[a].user = u
                         /\ saved => savedTile[u] = clientUserMapping[a].tile
<1>1. loggedIn \in [User -> BOOLEAN]
  BY DEF TInv, DBTypeOK
<1>2. ~LoginUpdate
  BY <1>1 DEF LoginUpdate, Exec, SetLoggedIn, tables
<1>3. LogoutUser
  BY <1>2, FlagWrites
<1>4. client.addr \in Addr
  BY <1>3, Current DEF LogoutUser
<1>5. /\ clients[client.addr] # NoSD /\ clientUserMapping[client.addr] # NoSession
      /\ SetLoggedIn(user.user, FALSE)
  BY <1>3 DEF LogoutUser, Exec, dbVars, tables
<1>6. user.user = u
  BY <1>1, <1>5 DEF SetLoggedIn
<1>7. /\ clientUserMapping[client.addr] = user
      /\ saved => savedTile[u] = user.tile
  BY <1>3, <1>5, <1>6 DEF LeavingWith, LogoutUser
<1>8. LoggedInFrom(client.addr)
  BY <1>5, <1>6, <1>7, DatabaseAssumption DEF LoggedInFrom
<1> QED BY <1>4, <1>5, <1>6, <1>7, <1>8

(* An account is released only from the address that has its session, and  *)
(* if the position was saved it is the session's last one (General.cpp:201).*)
THEOREM ReleasedWithItsPosition == Spec => SavedOnLogout
<1>1. TInv /\ LeavingWith /\ [Next]_vars =>
        [\A u \in User : loggedIn[u] /\ ~loggedIn'[u] =>
           \E a \in Addr : /\ clients[a] # NoSD
                           /\ LoggedInFrom(a)
                           /\ clientUserMapping[a].user = u
                           /\ saved => savedTile[u] = clientUserMapping[a].tile
        ]_vars
  BY Releases
<1> QED BY <1>1, TypeInvariant, LeavingInvariant, PTL DEF Spec, SavedOnLogout

-----------------------------------------------------------------------------
(***************************************************************************)
(* The server implements AccountLifecycle.                                 *)
(***************************************************************************)
Online(u) ==
  \E a \in Addr : /\ clients[a] # NoSD
                  /\ LoggedInFrom(a)
                  /\ clientUserMapping[a].user = u

Admitted(u) == handlerPc = "loginUser" /\ user.user = u

(* An address that connects has no session left from an earlier client. *)
SessionsSeen ==
  \A a \in Addr : clientUserMapping[a] # NoSession => a \in seen /\ a # accepted.addr

LEMMA SeenInit == Init => SessionsSeen
BY DEF Init, RegistryEmpty, SessionsSeen

(* The steps that give an address a session it did not have. *)
LEMMA MappingWrites ==
  ASSUME TInv, [Next]_vars, ~LoginUser, ~UpdateUserData
  PROVE  \A a \in Addr : clientUserMapping'[a] \in {NoSession, clientUserMapping[a]}
<1>1. CASE LogoutUser
  <2>1. \/ UNCHANGED clientUserMapping
        \/ clientUserMapping' = [clientUserMapping EXCEPT ![client.addr] = NoSession]
    BY <1>1 DEF LogoutUser, Exec
  <2> QED BY <2>1 DEF TInv, SessionTypeOK
<1>2. CASE handleClientMessages /\ ~LogoutUser
  <2>1. UNCHANGED clientUserMapping
    BY <1>2
       DEF handleClientMessages, HandlerSnapshot, Read, SendResponse,
           LoginSelect, LoginUpdate, LoginFaction, LogoutGetUser, SavePos,
           ObserveGetUser, AddFaction, FactionOwner, FactionInsert, Register,
           ServerInfo, Lists, registryVars, sessionVars
  <2> QED BY <2>1
<1>3. ASSUME NEW b \in Broadcaster, BDisconnect(b)
      PROVE  \A a \in Addr : clientUserMapping'[a] \in {NoSession, clientUserMapping[a]}
  BY <1>3, DisconnectMapping
<1>4. CASE \/ Peers \/ AcceptConnection \/ RegisterConnection
           \/ WorldSnapshot \/ GetChangedFactions \/ FactionSnapshot
           \/ FactionRoundDone
           \/ \E b \in Broadcaster : BNext(b) \/ BSend(b)
  <2>1. UNCHANGED clientUserMapping
    BY <1>4 DEF Peers, PeerSend, PeerClose, AcceptConnection, Accept,
       RegisterConnection, Find, Insert, WorldSnapshot, GetChangedFactions,
       FactionSnapshot, FactionRoundDone, BNext, BSend, registryVars,
       sessionVars
  <2> QED BY <2>1
<1>5. CASE Restart
  BY <1>5 DEF Restart, RegistryRestart
<1>6. CASE UNCHANGED vars
  BY <1>6 DEF vars, registryVars, sessionVars
<1> QED
  BY <1>1, <1>2, <1>3, <1>4, <1>5, <1>6
     DEF Next, broadcastWorldState, broadcastFactionStates, BroadcastStep,
         Broadcaster

LEMMA SeenNext ==
  ASSUME ~ReuseAddr
  PROVE  TInv /\ FInv /\ SessionsSeen /\ [Next]_vars => SessionsSeen'
<1> SUFFICES ASSUME TInv, FInv, SessionsSeen, [Next]_vars PROVE SessionsSeen'
  OBVIOUS
<1>1. CASE LoginUser \/ UpdateUserData
  <2>1. client.addr \in Addr /\ Known(client)
    BY <1>1, Current DEF LoginUser, UpdateUserData, FInv, SnapshotsKnown
  <2>2. UNCHANGED <<seen, accepted>>
    BY <1>1 DEF LoginUser, UpdateUserData, kernelVars, acceptVars
  <2>3. \A a \in Addr : a # client.addr => clientUserMapping'[a] = clientUserMapping[a]
    BY <1>1, <2>1
       DEF LoginUser, UpdateUserData, loginUser, updateUserData, TInv,
           SessionTypeOK
  <2> QED BY <2>1, <2>2, <2>3 DEF SessionsSeen, Known
<1>2. CASE ~LoginUser /\ ~UpdateUserData
  <2>1. \A a \in Addr : clientUserMapping'[a] # NoSession =>
          clientUserMapping'[a] = clientUserMapping[a] /\ a \in seen /\ a # accepted.addr
    BY <1>2, MappingWrites DEF SessionsSeen
  <2>2. CASE AcceptConnection
    <3>1. PICK b \in Addr : b \notin seen /\ seen' = seen \cup {b} /\ accepted'.addr = b
      BY <2>2 DEF AcceptConnection, Accept
    <3> QED BY <2>1, <3>1 DEF SessionsSeen
  <2>3. CASE RegisterConnection
    <3>1. UNCHANGED seen /\ accepted' \in {accepted, NoClient}
      BY <2>3 DEF RegisterConnection, Find, Insert, kernelVars
    <3> QED BY <2>1, <3>1, NoClientAddr DEF SessionsSeen
  <2>4. CASE Restart
    BY <2>4 DEF Restart, RegistryRestart, SessionsSeen
  <2>5. CASE handleClientMessages
    <3>1. UNCHANGED <<seen, accepted>>
      BY <2>5
         DEF handleClientMessages, HandlerSnapshot, Read, SendResponse,
             LoginSelect, LoginUpdate, LoginUser, LoginFaction,
             LogoutGetUser, SavePos, LogoutUser, ObserveGetUser,
             UpdateUserData, AddFaction, FactionOwner, FactionInsert,
             Register, ServerInfo, Lists, registryVars, kernelVars, acceptVars
    <3> QED BY <2>1, <3>1 DEF SessionsSeen
  <2>6. CASE Peers \/ broadcastWorldState \/ broadcastFactionStates \/ UNCHANGED vars
    <3>1. UNCHANGED <<seen, accepted>>
      BY <2>6
         DEF Peers, PeerSend, PeerClose, broadcastWorldState,
             broadcastFactionStates, BroadcastStep, WorldSnapshot,
             GetChangedFactions, FactionSnapshot, FactionRoundDone, BNext,
             BSend, BDisconnect, vars, registryVars, kernelVars, acceptVars
    <3> QED BY <2>1, <3>1 DEF SessionsSeen
  <2> QED BY <2>2, <2>3, <2>4, <2>5, <2>6 DEF Next
<1> QED BY <1>1, <1>2

LEMMA SeenInvariant ==
  ASSUME ~ReuseAddr
  PROVE  Spec => []SessionsSeen
BY TypeInvariant, DescriptorInvariant, SeenInit, SeenNext, PTL DEF Spec

-----------------------------------------------------------------------------
(* The status of an account, before and after a step. *)
LEMMA StatusOf ==
  ASSUME NEW u \in User
  PROVE  /\ AccountStatus(u) = IF ~loggedIn[u] THEN "free"
                               ELSE IF Admitted(u) THEN "admitting"
                               ELSE IF Online(u) THEN "online" ELSE "locked"
         /\ AccountStatus(u)' = IF ~loggedIn'[u] THEN "free"
                                ELSE IF Admitted(u)' THEN "admitting"
                                ELSE IF Online(u)' THEN "online" ELSE "locked"
<1>1. /\ LockedOut(u) <=> loggedIn[u] /\ ~Admitted(u) /\ ~Online(u)
      /\ LockedOut(u)' <=> loggedIn'[u] /\ ~Admitted(u)' /\ ~Online(u)'
  BY DEF LockedOut, Admitted, Online
<1>2. AccountStatus(u) = CASE ~loggedIn[u] -> "free"
                           [] LockedOut(u) -> "locked"
                           [] loggedIn[u] /\ Admitted(u) -> "admitting"
                           [] OTHER -> "online"
  BY DEF AccountStatus, Admitted
<1>3. AccountStatus(u)' = CASE ~loggedIn'[u] -> "free"
                            [] LockedOut(u)' -> "locked"
                            [] loggedIn'[u] /\ Admitted(u)' -> "admitting"
                            [] OTHER -> "online"
  BY DEF AccountStatus, Admitted
<1> QED BY <1>1, <1>2, <1>3

(* A user who is being admitted has no session yet. *)
LEMMA AdmittedNotOnline ==
  ASSUME SInv, NEW u \in User, Admitted(u)
  PROVE  ~Online(u)
BY DEF SInv, Admitting, Admitted, Online, Mapped

(* A step that admits nobody and gives nobody a session. *)
NothingGained ==
  /\ UNCHANGED loggedIn
  /\ \A u \in User : /\ Admitted(u)' => Admitted(u)
                     /\ Online(u)' => Online(u)

LEMMA Loses ==
  ASSUME SInv, NothingGained
  PROVE  Account!Next /\ \A u \in User : LockedOut(u) => LockedOut(u)'
<1>1. ASSUME NEW u \in User
      PROVE  \/ AccountStatus(u)' = AccountStatus(u)
             \/ /\ AccountStatus(u) \in {"admitting", "online"}
                /\ AccountStatus(u)' = "locked"
  BY StatusOf, AdmittedNotOnline DEF NothingGained
<1> DEFINE lost == {u \in User : AccountStatus(u) \in {"admitting", "online"}
                                 /\ AccountStatus(u)' = "locked"}
           st == [u \in User |-> AccountStatus(u)]
<1>2. lost \in SUBSET {v \in User : st[v] \in {"admitting", "online"}}
  OBVIOUS
<1>3. [u \in User |-> AccountStatus(u)'] =
        [v \in User |-> IF v \in lost THEN "locked" ELSE st[v]]
  BY <1>1
<1>4. Account!Lose
  BY <1>2, <1>3 DEF Account!Lose
<1>5. \A u \in User : LockedOut(u) => LockedOut(u)'
  BY DEF NothingGained, LockedOut, Admitted, Online
<1> QED BY <1>4, <1>5 DEF Account!Next

LEMMA GainsNothing ==
  ASSUME TInv, SessionsSeen, [Next]_vars, ~LoginUpdate, ~LoginUser, ~LogoutUser
  PROVE  NothingGained
<1>1. CASE handleClientMessages
  <2>1. UNCHANGED <<loggedIn, clients>> /\ handlerPc' # "loginUser"
    <3>1. CASE HandlerSnapshot \/ Read \/ SendResponse
      BY <3>1 DEF HandlerSnapshot, Read, SendResponse, NextMessage, dbVars,
         tables, registryVars, sessionVars
    <3>2. CASE LoginSelect \/ LoginFaction \/ LogoutGetUser \/ SavePos
      BY <3>2 DEF LoginSelect, LoginFaction, LogoutGetUser, SavePos, Exec,
         SaveTile, Respond, NoResponse, NextMessage, GotoWith, dbVars,
         tables, registryVars, sessionVars
    <3>3. CASE ObserveGetUser \/ UpdateUserData
      BY <3>3 DEF ObserveGetUser, UpdateUserData, NoResponse, NextMessage,
         Goto, dbVars, tables, registryVars, sessionVars
    <3>4. CASE AddFaction \/ FactionOwner \/ FactionInsert
      BY <3>4 DEF AddFaction, FactionOwner, FactionInsert, Exec,
         InsertFaction, Respond, NoResponse, NextMessage, Goto, GotoWith,
         dbVars, tables, registryVars, sessionVars
    <3>5. CASE Register \/ ServerInfo \/ Lists
      BY <3>5 DEF Register, ServerInfo, Lists, Exec, InsertUser, Respond,
         dbVars, tables, registryVars, sessionVars
    <3> QED BY <1>1, <3>1, <3>2, <3>3, <3>4, <3>5 DEF handleClientMessages
  <2>2. ASSUME NEW a \in Addr, LoggedInFrom(a)'
        PROVE  /\ LoggedInFrom(a)
               /\ clientUserMapping'[a].user = clientUserMapping[a].user
    <3>1. CASE UpdateUserData
      <4>1. client.addr \in Addr /\ SessionTypeOK
        BY <3>1, Current DEF UpdateUserData
      <4> QED
        BY <2>2, <3>1, <4>1
           DEF LoggedInFrom, UpdateUserData, updateUserData, SessionTypeOK
    <3>2. CASE ~UpdateUserData
      BY <2>2, <3>2, MappingWrites DEF LoggedInFrom
    <3> QED BY <3>1, <3>2
  <2> QED BY <2>1, <2>2 DEF NothingGained, Admitted, Online
<1>2. ASSUME NEW b \in Broadcaster, BDisconnect(b) PROVE NothingGained
  <2>1. UNCHANGED <<loggedIn, handlerPc, user>>
    BY <1>2, DisconnectMapping DEF dbVars, tables, handlerVars
  <2> QED
    BY <1>2, <2>1, DisconnectMapping
       DEF NothingGained, Admitted, Online, LoggedInFrom
<1>3. CASE Insert /\ UNCHANGED <<dbVars, handlerVars>>
  <2>1. clients' = [clients EXCEPT ![accepted.addr] = accepted.sd]
        /\ UNCHANGED <<clientUserMapping, loggedIn, handlerPc, user>>
    BY <1>3 DEF Insert, dbVars, tables, handlerVars
  <2>2. \A a \in Addr : LoggedInFrom(a) => clients'[a] = clients[a]
    BY <2>1 DEF LoggedInFrom, SessionsSeen, TInv, SessionTypeOK
  <2> QED BY <2>1, <2>2 DEF NothingGained, Admitted, Online, LoggedInFrom
<1>4. CASE \/ Peers \/ AcceptConnection
           \/ Find /\ UNCHANGED <<dbVars, handlerVars>>
           \/ WorldSnapshot \/ GetChangedFactions \/ FactionSnapshot
           \/ FactionRoundDone
           \/ \E b \in Broadcaster : BNext(b) \/ BSend(b)
  <2>1. UNCHANGED <<loggedIn, handlerPc, user, clients, clientUserMapping>>
    BY <1>4 DEF Peers, PeerSend, PeerClose, AcceptConnection, Accept, Find,
       WorldSnapshot, GetChangedFactions, FactionSnapshot, FactionRoundDone,
       BNext, BSend, registryVars, sessionVars, dbVars, tables, handlerVars
  <2> QED BY <2>1 DEF NothingGained, Admitted, Online, LoggedInFrom
<1>5. CASE Restart
  BY <1>5 DEF Restart, RegistryRestart, NothingGained, Admitted, Online, tables
<1>6. CASE UNCHANGED vars
  BY <1>6 DEF vars, registryVars, sessionVars, dbVars, tables, handlerVars,
     NothingGained, Admitted, Online, LoggedInFrom
<1> QED
  BY <1>1, <1>2, <1>3, <1>4, <1>5, <1>6
     DEF Next, RegisterConnection, broadcastWorldState,
         broadcastFactionStates, BroadcastStep, Broadcaster

-----------------------------------------------------------------------------
(* The steps of AccountLifecycle in which one account moves. *)
LEMMA Moves ==
  ASSUME NEW u \in User, NEW from, NEW to,
         AccountStatus(u) = from, AccountStatus(u)' = to,
         \A v \in User : v # u => AccountStatus(v)' = AccountStatus(v)
  PROVE  Account!Move(u, from, to)
BY DEF Account!Move

LEMMA UpdateMoves ==
  ASSUME TInv, SInv, LoginUpdate
  PROVE  /\ Account!Next \/ UNCHANGED [u \in User |-> AccountStatus(u)]
         /\ \A u \in User : LockedOut(u) => LockedOut(u)'
<1>0. PICK u \in User : u = user.user
  BY DEF LoginUpdate, SInv, Admitting
<1>1. /\ handlerPc = "setLoggedIn" /\ ~loggedIn[u]
      /\ loggedIn \in [User -> BOOLEAN]
  BY <1>0 DEF LoginUpdate, SInv, Admitting, TInv, DBTypeOK
<1>2. UNCHANGED <<clients, clientUserMapping>>
  BY DEF LoginUpdate, registryVars, sessionVars
<1>3. \A v \in User : Online(v)' <=> Online(v)
  BY <1>2 DEF Online, LoggedInFrom
<1>4. \A v \in User : ~Admitted(v)
  BY <1>1 DEF Admitted
<1>5. CASE UNCHANGED loggedIn
  <2>1. CASE handlerPc' = "send"
    <3>1. NothingGained
      BY <1>3, <1>5, <2>1 DEF NothingGained, Admitted
    <3> QED BY <3>1, Loses
  <2>2. CASE handlerPc' # "send"
    <3>1. loggedIn' = [loggedIn EXCEPT ![u] = TRUE]
      BY <1>0, <2>2 DEF LoginUpdate, Exec, SetLoggedIn, Respond
    <3> QED BY <1>1, <1>5, <3>1
  <2> QED BY <2>1, <2>2
<1>6. CASE loggedIn' # loggedIn
  <2>1. /\ dbUp /\ loggedIn' = [loggedIn EXCEPT ![u] = TRUE]
        /\ \/ handlerPc' = "loginUser" /\ UNCHANGED user
           \/ handlerPc' = "send"
    BY <1>0, <1>6 DEF LoginUpdate, Exec, SetLoggedIn, Goto, Respond, tables
  <2>2. loggedIn'[u] /\ \A v \in User : v # u => loggedIn'[v] = loggedIn[v]
    BY <1>1, <2>1
  <2>3. ~Online(u)
    BY <1>1, <2>1 DEF SInv, MappedIsLoggedIn, Online
  <2>4. \A v \in User : v # u => ~Admitted(v)'
    BY <1>0, <2>1 DEF Admitted
  <2>5. AccountStatus(u) = "free"
    BY <1>1, StatusOf
  <2>6. \A v \in User : v # u => AccountStatus(v)' = AccountStatus(v)
    BY <1>3, <1>4, <2>2, <2>4, StatusOf
  <2>7. AccountStatus(u)' \in {"admitting", "locked"}
    BY <1>1, <1>3, <2>2, <2>3, StatusOf
  <2>8. Account!Admit(u) \/ Account!InDoubt(u)
    BY <1>1, <2>5, <2>6, <2>7, Moves DEF Account!Admit, Account!InDoubt
  <2>9. \A v \in User : LockedOut(v) => LockedOut(v)'
    BY <1>1, <1>3, <2>2, <2>4 DEF LockedOut, Admitted, Online
  <2> QED BY <1>1, <2>8, <2>9 DEF Account!Next
<1> QED BY <1>5, <1>6

LEMMA EnterMoves ==
  ASSUME TInv, SInv, LoginUser
  PROVE  /\ Account!Next
         /\ \A u \in User : LockedOut(u) => LockedOut(u)'
<1> DEFINE st == [v \in User |-> AccountStatus(v)]
<1>0. PICK u \in User : u = user.user
  BY DEF LoginUser, SInv, Admitting
<1>1. /\ handlerPc = "loginUser" /\ loggedIn[u]
      /\ client.addr \in Addr
      /\ clientUserMapping \in [Addr -> UserData \cup {NoSession}]
  BY <1>0, Current DEF LoginUser, SInv, Admitting, TInv, SessionTypeOK
<1>2. /\ UNCHANGED <<clients, loggedIn>> /\ handlerPc' = "userFaction"
      /\ clientUserMapping' = [clientUserMapping EXCEPT ![client.addr] = user]
  BY DEF LoginUser, loginUser, Goto, dbVars, tables
<1>3. \A a \in Addr : clientUserMapping'[a] = IF a = client.addr THEN user
                                              ELSE clientUserMapping[a]
  BY <1>1, <1>2
<1>4. Admitted(u) /\ ~Online(u) /\ \A v \in User : v # u => ~Admitted(v)
  BY <1>0, <1>1, AdmittedNotOnline DEF Admitted
<1>5. \A v \in User : ~Admitted(v)'
  BY <1>2 DEF Admitted
<1>6. \A v \in User : v # u /\ Online(v)' => Online(v)
  BY <1>0, <1>2, <1>3 DEF Online, LoggedInFrom
<1>7. CASE Online(u)'
  <2> DEFINE lost == {v \in User : AccountStatus(v) = "online"
                                   /\ AccountStatus(v)' = "locked"}
  <2>1. AccountStatus(u) = "admitting" /\ AccountStatus(u)' = "online"
    BY <1>1, <1>2, <1>4, <1>5, <1>7, StatusOf
  <2>2. ASSUME NEW v \in User, v # u
        PROVE  \/ AccountStatus(v)' = AccountStatus(v)
               \/ AccountStatus(v) = "online" /\ AccountStatus(v)' = "locked"
    BY <1>2, <1>4, <1>5, <1>6, <2>2, StatusOf
  <2>3. lost \in SUBSET {v \in User : st[v] = "online"}
    OBVIOUS
  <2>4. [v \in User |-> AccountStatus(v)'] =
          [v \in User |-> IF v = u THEN "online"
                          ELSE IF v \in lost THEN "locked" ELSE st[v]]
    BY <2>1, <2>2
  <2>5. Account!Enter(u)
    BY <1>1, <2>1, <2>3, <2>4 DEF Account!Enter
  <2>6. \A v \in User : LockedOut(v) => LockedOut(v)'
    BY <1>2, <1>4, <1>5, <1>6 DEF LockedOut, Admitted, Online
  <2> QED BY <1>1, <2>5, <2>6 DEF Account!Next
<1>8. CASE ~Online(u)'
  <2>1. NothingGained
    BY <1>2, <1>5, <1>6, <1>8 DEF NothingGained
  <2> QED BY <2>1, Loses
<1> QED BY <1>7, <1>8

LEMMA LeaveMoves ==
  ASSUME TInv, SInv, LogoutUser
  PROVE  /\ Account!Next
         /\ \A u \in User : LockedOut(u) => LockedOut(u)'
<1>0. PICK u : u = user.user
  OBVIOUS
<1>1. /\ handlerPc = "logoutUser" /\ client.addr \in Addr
      /\ clientUserMapping \in [Addr -> UserData \cup {NoSession}]
      /\ loggedIn \in [User -> BOOLEAN]
  BY Current DEF LogoutUser, SessionTypeOK, DBTypeOK
<1>2. UNCHANGED clients /\ handlerPc' \in {"send", "message", "client"}
  BY DEF LogoutUser, Exec, Respond, NoResponse, NextMessage
<1>3. \A v \in User : ~Admitted(v) /\ ~Admitted(v)'
  BY <1>1, <1>2 DEF Admitted
<1>4. \/ UNCHANGED clientUserMapping
      \/ /\ clientUserMapping' = [clientUserMapping EXCEPT ![client.addr] = NoSession]
         /\ loggedIn' = [loggedIn EXCEPT ![u] = FALSE]
  BY <1>0 DEF LogoutUser, Exec, SetLoggedIn
<1>5. \A v \in User : Online(v)' => Online(v)
  BY <1>1, <1>2, <1>4 DEF Online, LoggedInFrom
<1>6. CASE UNCHANGED loggedIn
  <2>1. NothingGained
    BY <1>3, <1>5, <1>6 DEF NothingGained
  <2> QED BY <2>1, Loses
<1>7. CASE loggedIn' # loggedIn
  <2>1. /\ dbUp /\ clients[client.addr] # NoSD
        /\ clientUserMapping[client.addr] # NoSession
        /\ loggedIn' = [loggedIn EXCEPT ![u] = FALSE]
    BY <1>0, <1>7 DEF LogoutUser, Exec, SetLoggedIn, dbVars, tables
  <2>2. LoggedInFrom(client.addr) /\ clientUserMapping[client.addr].user = u
    BY <1>0, <1>1, <2>1 DEF SInv, Leaving
  <2>3. u \in User /\ loggedIn[u] /\ Online(u)
    BY <1>1, <2>1, <2>2 DEF SInv, MappedIsLoggedIn, Online, LoggedInFrom, UserData
  <2>4. \A v \in User : v # u => loggedIn'[v] = loggedIn[v] /\ (Online(v)' <=> Online(v))
    BY <1>1, <1>2, <1>4, <2>1, <2>2 DEF Online, LoggedInFrom
  <2>5. AccountStatus(u) = "online" /\ AccountStatus(u)' = "free"
    BY <1>1, <1>3, <2>1, <2>3, StatusOf
  <2>6. \A v \in User : v # u => AccountStatus(v)' = AccountStatus(v)
    BY <1>3, <2>4, StatusOf
  <2>7. Account!Leave(u)
    BY <2>3, <2>5, <2>6, Moves DEF Account!Leave
  <2>8. \A v \in User : LockedOut(v) => LockedOut(v)'
    BY <1>3, <2>3, <2>4 DEF LockedOut, Admitted, Online
  <2> QED BY <2>3, <2>7, <2>8 DEF Account!Next
<1> QED BY <1>6, <1>7

LEMMA AccountStep ==
  ASSUME TInv, SInv, SessionsSeen, [Next]_vars
  PROVE  /\ Account!Next \/ UNCHANGED [u \in User |-> AccountStatus(u)]
         /\ \A u \in User : LockedOut(u) => LockedOut(u)'
<1>1. CASE LoginUpdate
  BY <1>1, UpdateMoves
<1>2. CASE LoginUser
  BY <1>2, EnterMoves
<1>3. CASE LogoutUser
  BY <1>3, LeaveMoves
<1>4. CASE ~LoginUpdate /\ ~LoginUser /\ ~LogoutUser
  BY <1>4, GainsNothing, Loses
<1> QED BY <1>1, <1>2, <1>3, <1>4

LEMMA AccountInit == Init => Account!Init
<1> SUFFICES ASSUME Init PROVE Account!Init
  OBVIOUS
<1>1. \A u \in User : AccountStatus(u) = "free"
  BY StatusOf DEF Init, DBInit
<1> QED BY <1>1 DEF Account!Init

(* While no address is used twice, the server implements AccountLifecycle: *)
(* accounts are admitted one session at a time, and only a logout frees    *)
(* them (General.cpp:74, Server.cpp:236).                                  *)
THEOREM ImplementsAccountLifecycle ==
  ASSUME ~ReuseAddr
  PROVE  Spec => AccountsKept
<1>1. TInv /\ SInv /\ SessionsSeen /\ [Next]_vars =>
        [Account!Next]_([u \in User |-> AccountStatus(u)])
  BY AccountStep
<1> QED
  BY <1>1, AccountInit, TypeInvariant, SessionInvariant, SeenInvariant, PTL
     DEF Spec, AccountsKept, Account!Spec

(* A lost account stays lost, whatever fails and whoever connects          *)
(* (data/init_db_tables.sql:18).                                           *)
THEOREM NeverGivenBack ==
  ASSUME ~ReuseAddr
  PROVE  Spec => LockedOutForever
<1>1. TInv /\ SInv /\ SessionsSeen /\ [Next]_vars =>
        [\A u \in User : LockedOut(u) => LockedOut(u)']_vars
  BY AccountStep
<1> QED
  BY <1>1, TypeInvariant, SessionInvariant, SeenInvariant, PTL
     DEF Spec, LockedOutForever
=============================================================================
