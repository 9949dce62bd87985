-------------------------------- MODULE World --------------------------------
(***************************************************************************)
(* The game world while the server runs: the tiles of Game, the objects of *)
(* ObjectManager, and the three threads that use them.                     *)
(*                                                                         *)
(*   Game::run        queues random moves for the units and runs the       *)
(*                    current action of every object; it takes no lock.    *)
(*   handler thread   runs the admins' spawn and terrain requests, taking  *)
(*                    Game::_mutex_worldState for each tile access of a    *)
(*                    spawn and for the whole of a terrain modification.   *)
(*   world broadcast  getWorldState copies tile by tile, under that mutex  *)
(*                    for each tile.                                       *)
(*                                                                         *)
(* A tile's 64 bits are abstracted to the id of the thing on it, and an    *)
(* object's coordinates to the tile index x + z * _worldWidth: the moves   *)
(* compute and check the index only.  A step of the game thread is the     *)
(* update of one object.  MoveVertical and ClassAction0 are mapped to      *)
(* action ids that nothing queues and are left out.                        *)
(***************************************************************************)
EXTENDS Integers, Sequences, FiniteSets

CONSTANTS
  worldWidth,
  Unit, Tree,     \* thing ids: "Unit Test" (4), and one that never moves
  Empty,          \* 0, "should ALWAYS be empty object"
  speed,          \* progress a Move makes per update, by thing id
  MoveEnd,        \* progress at which a Move ends (1.0f)
  Scenarios,      \* worlds the constructor may leave, and what happens there
  MaxObjects      \* bound: objects, with those spawned later

Thing == {Empty, Unit, Tree}

(* What Move's switch adds to the coordinates. *)
offset ==
  [N |-> <<0, -1>>, NE |-> <<1, -1>>, E |-> <<1, 0>>, SE |-> <<1, 1>>,
   S |-> <<0, 1>>, SW |-> <<-1, 1>>, W |-> <<-1, 0>>, NW |-> <<-1, -1>>]

(* How many units and trees the constructor placed, the messages the       *)
(* admins send, what std::rand() % 8 + 1 returns, and whether the world is *)
(* broadcast to an observer.                                               *)
Scenario ==
  [units : Nat, trees : Nat, admins : SUBSET {"spawn", "terrain"},
   directions : SUBSET DOMAIN offset, observed : BOOLEAN]

Tiles == 0 .. worldWidth * worldWidth - 1

ASSUME WorldAssumption ==
  /\ worldWidth \in Nat \ {0}
  /\ Cardinality(Thing) = 3
  /\ speed \in [Thing -> Nat]
  /\ MoveEnd \in Nat \ {0}
  /\ MaxObjects \in Nat
  /\ Scenarios \subseteq Scenario
  /\ \A s \in Scenarios : s.units + s.trees <= MaxObjects

VARIABLES
  scenario,       \* one of Scenarios; constant
  world,          \* Game::_pWorld, the thing on each tile
  objects,        \* ObjectManager::_allObjects
  gamePc,         \* where Game::run is: "queue", "begin", "update"
  next, last,     \* the range-for over _allObjects in updateFunc
  handlerPc,      \* where the handler thread is: "none", "push", "write",
                  \* "terrain"
  target,         \* the tile and state (thing) it works with
  scanned, view   \* getWorldState: tiles copied so far, and their copies

gameVars == <<gamePc, next, last>>
handlerVars == <<handlerPc, target>>
scanVars == <<scanned, view>>

Units == scenario.units
Trees == scenario.trees
admins == scenario.admins
Directions == scenario.directions

vars == <<scenario, world, objects, gameVars, handlerVars, scanVars>>

NoTarget == [tile |-> 0, thing |-> Empty]

WorldTypeOK ==
  /\ scenario \in Scenarios
  /\ world \in [Tiles -> Thing]
  /\ Len(objects) \in 0 .. MaxObjects
  /\ \A i \in DOMAIN objects :
       /\ objects[i].pos \in Tiles
       /\ objects[i].type \in Thing
       /\ objects[i].progress < MoveEnd + speed[Unit] + speed[Tree] + speed[Empty]
       /\ Len(objects[i].queue) <= 2
       /\ \A k \in DOMAIN objects[i].queue :
            objects[i].queue[k] \in Directions \cup {"idle"}
  /\ gamePc \in {"queue", "begin", "update"}
  /\ next \in 1 .. MaxObjects + 1
  /\ last \in 0 .. MaxObjects
  /\ handlerPc \in {"none", "push", "write", "terrain"}
  /\ target \in [tile : Tiles, thing : Thing]
  /\ scanned \in 0 .. worldWidth * worldWidth
  /\ view \in [0 .. scanned - 1 -> Thing]

NewObject(tile, thing) ==
  [pos |-> tile, type |-> thing, queue |-> <<>>, progress |-> 0]

(***************************************************************************)
(* The constructor: generate_world plants the trees, then units are        *)
(* spawned on random tiles that have nothing on them yet.                  *)
(***************************************************************************)
Init ==
  /\ scenario \in Scenarios
  /\ \E place \in [1 .. Trees + Units -> Tiles] :
       /\ \A i, j \in DOMAIN place : place[i] = place[j] => i = j
       /\ objects = [i \in 1 .. Trees + Units |->
                       NewObject(place[i], IF i <= Trees THEN Tree ELSE Unit)]
       /\ world = [t \in Tiles |->
                     IF \E i \in 1 .. Trees + Units : place[i] = t
                     THEN objects[CHOOSE i \in 1 .. Trees + Units :
                                    place[i] = t].type
                     ELSE Empty]
  /\ gamePc = "queue"
  /\ next = 1
  /\ last = 0
  /\ handlerPc = "none"
  /\ target = NoTarget
  /\ scanned = 0
  /\ view = <<>>

-----------------------------------------------------------------------------
(* Mutant: one action too many. *)
QueueMoves_tooMany ==
  /\ gamePc = "queue"
  /\ \E r \in [DOMAIN objects -> Directions] :
       objects' = [i \in DOMAIN objects |->
         IF objects[i].type = Unit /\ Len(objects[i].queue) <= 2
         THEN [objects[i] EXCEPT !.queue = Append(@, r[i])]
         ELSE objects[i]]
  /\ gamePc' = "begin"
  /\ UNCHANGED <<world, next, last, handlerVars, scanVars>>

(***************************************************************************)
(* Game::run, first loop: units with less than two actions get one more.   *)
(* Only this thread uses types and queues, so the loop is one step.        *)
(***************************************************************************)
QueueMoves ==
  /\ gamePc = "queue"
  /\ \E r \in [DOMAIN objects -> Directions] :
       objects' = [i \in DOMAIN objects |->
         IF objects[i].type = Unit /\ Len(objects[i].queue) < 2
         THEN [objects[i] EXCEPT !.queue = Append(@, r[i])]
         ELSE objects[i]]
  /\ gamePc' = "begin"
  /\ UNCHANGED <<world, next, last, handlerVars, scanVars>>

(* ObjectManager::updateFunc.  The loop ends where the vector ended when   *)
(* it began: an object pushed meanwhile is not visited.  (If the push made *)
(* the vector grow, the loop reads the freed array: it still finds the old *)
(* pointers there, or the process dies, which ends the behaviour.)         *)
BeginUpdate ==
  /\ gamePc = "begin"
  /\ gamePc' = "update"
  /\ next' = 1
  /\ last' = Len(objects)
  /\ UNCHANGED <<world, objects, handlerVars, scanVars>>

EndUpdate ==
  /\ gamePc = "update"
  /\ next > last
  /\ gamePc' = "queue"
  /\ UNCHANGED <<world, objects, next, last, handlerVars, scanVars>>

obj == objects[next]

(* An object without an action gets the idle one. *)
actions == IF obj.queue = <<>> THEN <<"idle">> ELSE obj.queue

Updating(action) ==
  /\ gamePc = "update"
  /\ next <= last
  /\ IF action = "idle" THEN Head(actions) = "idle"
                        ELSE Head(actions) \in Directions

Becomes(o) ==
  /\ objects' = [objects EXCEPT ![next] = o]
  /\ next' = next + 1
  /\ UNCHANGED <<gamePc, last, handlerVars, scanVars>>

(* IdleAction::run puts the object at (0, 0), and nothing on that tile. *)
Idle ==
  /\ Updating("idle")
  /\ Becomes([obj EXCEPT !.pos = 0, !.queue = Tail(actions)])
  /\ UNCHANGED world

(***************************************************************************)
(* Move::run                                                               *)
(***************************************************************************)
destination ==
  obj.pos + offset[Head(actions)][1] + offset[Head(actions)][2] * worldWidth

(* Mutant: any tile will do. *)
validate_move_anyTile(tile) == tile \in Tiles

validate_move(tile) == world[tile] = Empty

Movable == destination \in Tiles /\ validate_move(destination)

(* Mutant: a failed action stays in the queue. *)
MoveFails_kept ==
  /\ Updating("move")
  /\ ~Movable
  /\ Becomes([obj EXCEPT !.progress = 0])
  /\ UNCHANGED world

MoveFails ==
  /\ Updating("move")
  /\ ~Movable
  /\ Becomes([obj EXCEPT !.queue = Tail(actions), !.progress = 0])
  /\ UNCHANGED world

MoveGoesOn ==
  /\ Updating("move")
  /\ Movable
  /\ obj.progress < MoveEnd
  /\ Becomes([obj EXCEPT !.type = world[obj.pos],
                         !.progress = @ + speed[world[obj.pos]]])
  /\ UNCHANGED world

(* Mutant: the start tile is not cleared. *)
MoveEnds_copies ==
  /\ Updating("move")
  /\ Movable
  /\ obj.progress >= MoveEnd
  /\ Becomes([obj EXCEPT !.pos = destination, !.queue = Tail(actions),
                         !.progress = 0])
  /\ world' = [world EXCEPT ![destination] = world[obj.pos]]

(* transfer_obj_to moves whatever is on the start tile. *)
MoveEnds ==
  /\ Updating("move")
  /\ Movable
  /\ obj.progress >= MoveEnd
  /\ Becomes([obj EXCEPT !.pos = destination, !.queue = Tail(actions),
                         !.progress = 0])
  /\ world' = [world EXCEPT ![destination] = world[obj.pos],
                            ![obj.pos] = Empty]

-----------------------------------------------------------------------------
(***************************************************************************)
(* _mutex_worldState is held across steps only by a terrain modification.  *)
(***************************************************************************)
WorldStateFree == handlerPc # "terrain"

(* spawn_object: Game::spawnObject, ObjectManager::spawnObjectRaw.  The    *)
(* tile is read, the object stored and the tile written one after another. *)
SpawnCheck(tile, thing) ==
  /\ "spawn" \in admins
  /\ handlerPc = "none"
  /\ Len(objects) < MaxObjects
  /\ thing # Empty
  /\ world[tile] = Empty
  /\ handlerPc' = "push"
  /\ target' = [tile |-> tile, thing |-> thing]
  /\ UNCHANGED <<world, objects, gameVars, scanVars>>

SpawnPush ==
  /\ handlerPc = "push"
  /\ objects' = Append(objects, NewObject(target.tile, target.thing))
  /\ handlerPc' = "write"
  /\ UNCHANGED <<world, target, gameVars, scanVars>>

SpawnWrite ==
  /\ handlerPc = "write"
  /\ world' = [world EXCEPT ![target.tile] = target.thing]
  /\ handlerPc' = "none"
  /\ target' = NoTarget
  /\ UNCHANGED <<objects, gameVars, scanVars>>

(* terrain_modification: Game::setTileState changes other bits of the tile *)
(* and stores the thing it loaded with them.                               *)
TerrainLoad(tile) ==
  /\ "terrain" \in admins
  /\ handlerPc = "none"
  /\ handlerPc' = "terrain"
  /\ target' = [tile |-> tile, thing |-> world[tile]]
  /\ UNCHANGED <<world, objects, gameVars, scanVars>>

TerrainStore ==
  /\ handlerPc = "terrain"
  /\ world' = [world EXCEPT ![target.tile] = target.thing]
  /\ handlerPc' = "none"
  /\ target' = NoTarget
  /\ UNCHANGED <<objects, gameVars, scanVars>>

(***************************************************************************)
(* Game::getWorldState, for an observer whose radius covers the world.     *)
(***************************************************************************)
CopyTile ==
  /\ scenario.observed
  /\ WorldStateFree
  /\ scanned \in Tiles
  /\ view' = [t \in 0 .. scanned |-> IF t = scanned THEN world[t] ELSE view[t]]
  /\ scanned' = scanned + 1
  /\ UNCHANGED <<world, objects, gameVars, handlerVars>>

NewMessage ==
  /\ scanned \notin Tiles
  /\ scanned' = 0
  /\ view' = <<>>
  /\ UNCHANGED <<world, objects, gameVars, handlerVars>>

-----------------------------------------------------------------------------
run ==
  \/ QueueMoves \/ BeginUpdate \/ EndUpdate
  \/ Idle \/ MoveFails \/ MoveGoesOn \/ MoveEnds

AdminMessages ==
  \/ \E tile \in Tiles : TerrainLoad(tile) \/ \E thing \in Thing : SpawnCheck(tile, thing)
  \/ SpawnPush \/ SpawnWrite \/ TerrainStore

getWorldState == CopyTile \/ NewMessage

Next ==
  /\ run \/ AdminMessages \/ getWorldState
  /\ UNCHANGED scenario

Spec == Init /\ [][Next]_vars

(* The game thread never sleeps and never waits. *)
FairSpec == Spec /\ WF_vars(run /\ UNCHANGED scenario)

-----------------------------------------------------------------------------
UnitObjects == {i \in DOMAIN objects : objects[i].type = Unit}

Occupied == {t \in Tiles : world[t] # Empty}

(* While no admin interferes, every unit stands on a tile of its own that  *)
(* shows it, and nothing else on the map changes: as many tiles are        *)
(* occupied as the constructor filled.                                     *)
UnitsOnTheirTiles ==
  admins = {} =>
    /\ \A i \in UnitObjects : world[objects[i].pos] = Unit
    /\ \A i, j \in UnitObjects : i # j => objects[i].pos # objects[j].pos
    /\ Cardinality(UnitObjects) = Units
    /\ Cardinality({t \in Tiles : world[t] = Tree}) = Trees

(* Spawning races with the moves, but never leaves more things on the map  *)
(* than there are objects.                                                 *)
NoPhantoms == "terrain" \notin admins => Cardinality(Occupied) <= Len(objects)

(* Trees stay where they were planted, whatever a terrain modification     *)
(* writes back over a move.  (A unit spawned between the two loops idles   *)
(* first, so it is put at (0, 0) and its next move takes away what stands  *)
(* there; hence only without spawns.)                                      *)
TreesStay ==
  []["spawn" \notin admins =>
       \A t \in Tiles : world[t] = Tree => world'[t] = Tree]_vars

(* A unit is never stuck: while no admin interferes, its current move      *)
(* always comes to an end and another one is queued.                       *)
MovesEnd ==
  \A i \in 1 .. MaxObjects :
    []<>(admins = {} /\ i \in UnitObjects => Len(objects[i].queue) < 2)

(* Game.cpp:247: "Don't need to lock world state here since object manager *)
(* deals with that by callign funcs only which are thread safe": the tile  *)
(* a spawn found free is still free when it is written.                    *)
SpawnTileStillFree == handlerPc = "write" => world[target.tile] = Empty
=============================================================================
