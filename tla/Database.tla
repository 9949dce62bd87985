------------------------------ MODULE Database ------------------------------
(***************************************************************************)
(* The PostgreSQL tables `users' and `factions' as the server reads and    *)
(* writes them, and the one connection of DatabaseManager they are reached *)
(* through.                                                                *)
(*                                                                         *)
(* Every statement of the program goes through DatabaseManager::exec_query,*)
(* which runs it in a transaction of its own under DatabaseManager's mutex *)
(* and turns every exception into a status.  A statement is therefore one  *)
(* atomic step with one of three outcomes (Exec below).  Nothing in the    *)
(* program re-opens the connection: main() connects once, so a connection  *)
(* that broke stays broken until the process is started again.             *)
(***************************************************************************)

CONSTANTS
  User,         \* rows the `users' table may get, name and password together:
                \* a wrong password is a member of User without a row
  NullUser,     \* NULL_USER, the user of a default constructed session
  Tile,         \* world coordinates, as far as the users' rows are concerned
  StartTile,    \* DEFAULT of users.tile_x, users.tile_z
  FactionName,  \* names the `factions' table may get
  EmptyName,    \* the empty string, which may be one of them
  Neutral       \* the faction the initialisation script creates

ASSUME DatabaseAssumption ==
  /\ NullUser \notin User
  /\ StartTile \in Tile
  /\ Neutral \in FactionName

VARIABLES
  dbUp,         \* s_pConnection still has its back end
  registered,   \* users who have a row
  loggedIn,     \* users.logged_in
  savedTile,    \* users.tile_x, users.tile_z
  factionOwner  \* factions.user_id by factions.name; NullUser for SQL NULL

tables == <<registered, loggedIn, savedTile, factionOwner>>
dbVars == <<dbUp, tables>>

DBTypeOK ==
  /\ dbUp \in BOOLEAN
  /\ registered \subseteq User
  /\ loggedIn \in [User -> BOOLEAN]
  /\ savedTile \in [User -> Tile]
  /\ DOMAIN factionOwner \subseteq FactionName
  /\ \A n \in DOMAIN factionOwner : factionOwner[n] \in User \cup {NullUser}

(***************************************************************************)
(* The tables the initialisation script makes, with accounts registered    *)
(* before the server is started.                                           *)
(***************************************************************************)
DBInit ==
  /\ registered \in SUBSET User
  /\ loggedIn = [u \in User |-> FALSE]
  /\ savedTile = [u \in User |-> StartTile]
  /\ factionOwner = [n \in {Neutral} |-> NullUser]

(***************************************************************************)
(* exec_query.  Either the transaction commits (the caller continues with  *)
(* `success'), or it fails without a trace, or the connection is lost      *)
(* during the statement: the caller then sees a failure whether or not the *)
(* back end had committed.  `effect' and `none' are the two things that    *)
(* can happen to the tables.                                               *)
(***************************************************************************)
Exec(effect, none, success, failure) ==
  \/ /\ dbUp
     /\ effect
     /\ success
     /\ UNCHANGED dbUp
  \/ /\ none
     /\ failure
     /\ UNCHANGED dbUp
  \/ /\ dbUp
     /\ dbUp' = FALSE
     /\ effect \/ none
     /\ failure

(***************************************************************************)
(* The statements that write.                                              *)
(***************************************************************************)
SetLoggedIn(u, flag) ==
  /\ loggedIn' = [loggedIn EXCEPT ![u] = flag]
  /\ UNCHANGED <<registered, savedTile, factionOwner>>

SaveTile(u, t) ==
  /\ savedTile' = [savedTile EXCEPT ![u] = t]
  /\ UNCHANGED <<registered, loggedIn, factionOwner>>

InsertFaction(n, u) ==
  /\ n \notin DOMAIN factionOwner      \* name is UNIQUE
  /\ factionOwner' = [m \in DOMAIN factionOwner \cup {n} |->
                        IF m = n THEN u ELSE factionOwner[m]]
  /\ UNCHANGED <<registered, loggedIn, savedTile>>

InsertUser(u) ==
  /\ u \notin registered               \* name is UNIQUE
  /\ registered' = registered \cup {u}
  /\ UNCHANGED <<loggedIn, savedTile, factionOwner>>

(* The rows `SELECT * FROM factions WHERE user_id' returns. *)
FactionsOf(u) == {n \in DOMAIN factionOwner : factionOwner[n] = u}
=============================================================================
