------------------------------ MODULE GameStart ------------------------------
(***************************************************************************)
(* Game's constructor: the object library and the factions come from the   *)
(* database, the world from the generators in between, and the first       *)
(* objects are put on it.  It runs before any other thread does.           *)
(***************************************************************************)
EXTENDS EnvironmentGenerator, ElevationGenerator

CONSTANTS
  unitAttempts,     \* 1000 in the code
  MaxPlants         \* bound: plants in a world

Neutral == "Neutral"

(* References an object can hold to something that is not in _factions:    *)
(* what accessFaction returns for an unknown name, and the constructor's   *)
(* own copy of the faction.                                                *)
NoFaction == "nullptr"
LocalCopy == "neutralFaction"

Empty == "Empty"
Unit == "Unit Test"
Plants == UNION {Plant(temp) : temp \in Temperatures}

ASSUME StartAssumption == unitAttempts \in Nat /\ MaxPlants \in Nat

VARIABLES
  library,        \* the names in _objectInfo
  factions,       \* the names in _factions
  things,         \* _pWorld: the thing on each tile
  objects,        \* ObjectManager::_allObjects
  attempts        \* units tried so far

gameVars == <<library, factions, things, objects, attempts>>
vars == <<terrainVars, waterVars, cliffVars, temperatureVars, environmentVars, gameVars>>

Init ==
  /\ stage = "library"
  /\ elevation = [t \in Tiles |-> 0]
  /\ terrtype = [t \in Tiles |-> "bare"]
  /\ NoWater /\ NoCliffs /\ NoTemperature /\ NoEnvironment
  /\ library = {}
  /\ factions = {}
  /\ things = [t \in Tiles |-> Empty]
  /\ objects = <<>>
  /\ attempts = 0

(***************************************************************************)
(* Spawning                                                                *)
(***************************************************************************)
accessFaction(name) == IF name \in factions THEN name ELSE NoFaction

(* Mutant: no look at what is on the tile. *)
spawnObject_anywhere(t, thing, faction) ==
  /\ objects' = Append(objects, [tile |-> t, thing |-> thing, faction |-> faction])
  /\ things' = [things EXCEPT ![t] = thing]

spawnObject(t, thing, faction) ==
  \/ /\ things[t] = Empty
     /\ objects' = Append(objects, [tile |-> t, thing |-> thing, faction |-> faction])
     /\ things' = [things EXCEPT ![t] = thing]
  \/ things[t] # Empty /\ UNCHANGED <<objects, things>>

(* getObjInfo falls back on the first entry, which an empty library does   *)
(* not have: the process dies.                                             *)
Dies ==
  /\ library = {}
  /\ stage' = "dead"
  /\ UNCHANGED <<objects, things>>

-----------------------------------------------------------------------------
(* load_obj_info_db: the rows, or nothing if the statement fails. *)
LoadLibrary ==
  /\ stage = "library"
  /\ library' \in {Plants \cup {Empty, Unit}, {}}
  /\ stage' = "elevation"
  /\ UNCHANGED <<elevation, terrtype, waterVars, cliffVars, temperatureVars, environmentVars,
                 factions, things, objects, attempts>>

Elevate ==
  /\ stage = "elevation"
  /\ generate_world_elevation
  /\ stage' = "waters"
  /\ UNCHANGED <<waterVars, cliffVars, temperatureVars, environmentVars, gameVars>>

Waters ==
  /\ \/ generate_world_waters
     \/ /\ stage = "waters"
        /\ ~searching
        /\ pool = poolCount
        /\ stage' = "cliffs"
        /\ UNCHANGED <<elevation, terrtype, waterVars>>
  /\ UNCHANGED <<cliffVars, temperatureVars, environmentVars, gameVars>>

Cliffs ==
  /\ stage = "cliffs"
  /\ \/ Compare /\ UNCHANGED <<stage, temperatureVars>>
     \/ /\ scan \notin Indices
        /\ stage' = "temperature"
        /\ equatorYPos' \in Equators
        /\ UNCHANGED <<elevation, terrtype, cliffVars, temperature, heated>>
  /\ UNCHANGED <<waterVars, environmentVars, gameVars>>

Temperature ==
  /\ stage = "temperature"
  /\ \/ generate_temperature_effect /\ UNCHANGED stage
     \/ /\ heated \notin Indices
        /\ stage' = "environment"
        /\ UNCHANGED <<elevation, terrtype, temperatureVars>>
  /\ UNCHANGED <<waterVars, cliffVars, environmentVars, gameVars>>

Environment ==
  /\ stage = "environment"
  /\ InitialWeights
  /\ stage' = "waves"
  /\ UNCHANGED <<elevation, terrtype, waterVars, cliffVars, temperatureVars, gameVars>>

(* attempt_plant_environment_object, when the dice are for it. *)
Grow(t) ==
  \/ /\ library # {}
     /\ \E plant \in Plant(temperature[t]) : spawnObject(t, plant, accessFaction(Neutral))
     /\ UNCHANGED stage
  \/ Dies

(* Ground that is neither water nor rock gets fertile, and the dice choose *)
(* whether a plant grows on it.                                            *)
VisitTile ==
  /\ \E t \in tilesToCheck \ toRemoveIndices :
       \/ PassOver(t) /\ UNCHANGED <<terrtype, things, objects, stage>>
       \/ /\ Fertilize(t)
          /\ \/ /\ terrtype[t] \in {"water", "rock"}
                /\ UNCHANGED <<terrtype, things, objects, stage>>
             \/ /\ terrtype[t] \notin {"water", "rock"}
                /\ terrtype' = [terrtype EXCEPT ![t] = "fertile"]
                /\ \/ UNCHANGED <<things, objects, stage>>
                   \/ Len(objects) < MaxPlants /\ Grow(t)
  /\ UNCHANGED <<elevation, waterVars, cliffVars, temperatureVars, library, factions, attempts>>

NextWave ==
  /\ toRemoveIndices = tilesToCheck
  /\ WaveDone
  /\ UNCHANGED <<terrainVars, waterVars, cliffVars, temperatureVars, gameVars>>

Waves ==
  /\ stage = "waves"
  /\ tilesToCheck # {}
  /\ VisitTile \/ NextWave

WavesEnd ==
  /\ stage = "waves"
  /\ tilesToCheck = {}
  /\ stage' = "factions"
  /\ UNCHANGED <<elevation, terrtype, waterVars, cliffVars, temperatureVars, environmentVars,
                 gameVars>>

(* The rows, or nothing if the statement fails; operator[] then puts a     *)
(* faction of that name into the map.                                      *)
LoadFactions ==
  /\ stage = "factions"
  /\ factions' = {Neutral}
  /\ stage' = "units"
  /\ UNCHANGED <<elevation, terrtype, waterVars, cliffVars, temperatureVars, environmentVars,
                 library, things, objects, attempts>>

SpawnUnits ==
  /\ stage = "units"
  /\ attempts < unitAttempts
  /\ \E t \in Tiles :
       \/ /\ library # {}
          /\ spawnObject(t, Unit, LocalCopy)
          /\ UNCHANGED stage
       \/ Dies
  /\ attempts' = attempts + 1
  /\ UNCHANGED <<elevation, terrtype, waterVars, cliffVars, temperatureVars, environmentVars,
                 library, factions>>

Started ==
  /\ stage = "units"
  /\ attempts = unitAttempts
  /\ stage' = "running"
  /\ UNCHANGED <<elevation, terrtype, waterVars, cliffVars, temperatureVars, environmentVars,
                 gameVars>>

Next ==
  \/ LoadLibrary \/ Elevate \/ Waters \/ Cliffs \/ Temperature
  \/ Environment \/ Waves \/ WavesEnd \/ LoadFactions \/ SpawnUnits \/ Started

Spec == Init /\ [][Next]_vars

(* A sequential program: the search for a pool goes on while it can. *)
FairSpec == Spec /\ WF_vars(Waters)

-----------------------------------------------------------------------------
StartTypeOK ==
  /\ WaterTypeOK
  /\ scan \in 0 .. worldWidth * worldWidth
  /\ neighbour \in 1 .. 9
  /\ currentElevation \in Heights
  /\ ramps \in 0 .. MaxRamps
  /\ temperature \in [Tiles -> Temperatures]
  /\ heated \in 0 .. worldWidth * worldWidth
  /\ tilesToCheck \cup newWaveTiles \subseteq Tiles
  /\ toRemoveIndices \subseteq tilesToCheck
  /\ DOMAIN fertilityWeights \subseteq Tiles
  /\ \A t \in DOMAIN fertilityWeights : fertilityWeights[t] \in Nat
  /\ things \in [Tiles -> {Empty, Unit} \cup Plants]
  /\ \A i \in DOMAIN objects : objects[i].tile \in Tiles

(* When the environment is generated every tile of water has a pool, or    *)
(* at() would end the process: neither cliffs nor dunes make water, and    *)
(* the mapping keeps the tiles of all pools.                               *)
PoolsKnown ==
  stage \in {"environment", "waves"} => water \subseteq DOMAIN poolSizes

(* Without ramps the rock is where the code finds a cliff, whatever order  *)
(* the tiles are visited in: both tiles of every pair that counts as       *)
(* adjacent and differs by a cliff, and no other.                          *)
RockAtCliffs ==
  stage \in {"temperature", "environment", "waves"} /\ ramps = 0 =>
    \A s \in Tiles :
      terrtype[s] = "rock" <=>
        \E t \in Tiles : /\ IndexAdjacent(s, t) \/ IndexAdjacent(t, s)
                         /\ \/ elevation[t] - elevation[s] >= cliffThreshold
                            \/ elevation[s] - elevation[t] >= cliffThreshold

(* Fertility fades away from the water: land is worth at most as much as   *)
(* some water beside it, or at least a point less than some tile around it.*)
(* So no land is worth more than the best water, and land that is not      *)
(* beside water is poorer than its richest neighbour.  The "inner ring - 1"*)
(* of EnvironmentGenerator.cpp:33-38 holds from the second ring on only:   *)
(* in the first, deg is 0 for the four straight neighbours (243-245).      *)
FertilityFades ==
  \A t \in DOMAIN fertilityWeights \ water :
    \E i \in 1 .. 8 :
      /\ adjacentIndex(t, i) \in Indices
      /\ adjacent(t, i) \in DOMAIN fertilityWeights
      /\ \/ /\ adjacent(t, i) \in water
            /\ fertilityWeights[t] <= fertilityWeights[adjacent(t, i)]
         \/ fertilityWeights[t] <= fertilityWeights[adjacent(t, i)] - 100

(* What the visited tiles of a wave got is what each of them would get if  *)
(* it were visited now: the order of the unordered set makes no difference *)
(* to any weight, nor to the next wave.                                    *)
OrderOfVisitsFree ==
  stage = "waves" =>
    /\ \A t \in toRemoveIndices :
         \/ t \in DOMAIN fertilityWeights /\ thrives(t) /\ fertilityWeights[t] = finalScore(t)
         \/ t \notin DOMAIN fertilityWeights /\ ~thrives(t)
    /\ newWaveTiles = UNION {potentialNewTiles(t) : t \in {s \in toRemoveIndices : thrives(s)}}

(* What World starts from: every object stands on a tile of its own that   *)
(* shows it, and no other tile shows anything.                             *)
ObjectsOnTheirTiles ==
  /\ \A i \in DOMAIN objects : things[objects[i].tile] = objects[i].thing
  /\ Cardinality({t \in Tiles : things[t] # Empty}) = Len(objects)

(* The waves come to an end: within one, each step visits another tile and *)
(* takes no weight away, and after one with another to follow, a tile that *)
(* had no weight when it began has one, and the next is of tiles without.  *)
WavesProgress ==
  [][stage = "waves" /\ stage' = "waves" =>
       \/ /\ tilesToCheck' = tilesToCheck
          /\ \E t \in tilesToCheck \ toRemoveIndices :
               /\ toRemoveIndices' = toRemoveIndices \cup {t}
               /\ DOMAIN fertilityWeights \subseteq DOMAIN fertilityWeights'
       \/ /\ DOMAIN fertilityWeights' = DOMAIN fertilityWeights
          /\ tilesToCheck' \cap DOMAIN fertilityWeights = {}
          /\ tilesToCheck' = {} \/ tilesToCheck \cap DOMAIN fertilityWeights # {}]_vars

(***************************************************************************)
(* A claim of the repository the code does not keep                        *)
(***************************************************************************)

(* EnvironmentGenerator.cpp:74: the plants are spawned "as Neutral         *)
(* faction".  They are spawned before _factions holds one of that name.    *)
PlantsAreNeutral ==
  \A i \in DOMAIN objects : objects[i].thing \in Plants => objects[i].faction = Neutral
=============================================================================
