------------------------- MODULE EnvironmentGenerator -------------------------
(***************************************************************************)
(* Fertile ground and the plants on it.  The water tiles are worth a part  *)
(* of the size of their pool; wave after wave, the tiles around what has a *)
(* weight get the mean of their neighbours' weights, less what distance    *)
(* and heat take, and the wave goes on around those that are above zero.   *)
(*                                                                         *)
(* A step visits one tile of the wave, which is an unordered set: any tile *)
(* can be next.  Weights are floats; here they are in hundredths, and the  *)
(* mean of positive weights is rounded down.                               *)
(***************************************************************************)
EXTENDS Terrain, WaterGenerator, TemperatureGenerator

CONSTANT poolMultiplier   \* in hundredths: 10 in the code

ASSUME EnvironmentAssumption == poolMultiplier \in Nat

VARIABLES
  fertilityWeights,  \* by tile; the water's first
  tilesToCheck,      \* the wave
  toRemoveIndices,   \* its tiles that have been visited
  newWaveTiles,      \* the next wave, so far
  first              \* is it the first wave?

environmentVars == <<fertilityWeights, tilesToCheck, toRemoveIndices, newWaveTiles, first>>

NoEnvironment ==
  /\ fertilityWeights = [t \in {} |-> 0]
  /\ tilesToCheck = {}
  /\ toRemoveIndices = {}
  /\ newWaveTiles = {}
  /\ first = TRUE

(* adjacentTileIndices, clockwise from the north; diagonals are even. *)
offsets == <<-worldWidth, 1 - worldWidth, 1, worldWidth + 1,
             worldWidth, worldWidth - 1, -1, -worldWidth - 1>>

adjacentIndex(t, i) == index(t[1], t[2]) + offsets[i]

(* Mutant: reads the weights the wave has written, too. *)
outside_anywhere(t) == {i \in 1 .. 8 : adjacentIndex(t, i) \in Indices}

(* The directions in which there is a tile outside of the wave. *)
outside(t) ==
  {i \in 1 .. 8 : /\ adjacentIndex(t, i) \in Indices
                  /\ tileAt(adjacentIndex(t, i)) \notin tilesToCheck}

adjacent(t, i) == tileAt(adjacentIndex(t, i))

weighted(t) == {i \in outside(t) : adjacent(t, i) \in DOMAIN fertilityWeights}

deg(i) == IF i % 2 = 0 THEN 2 ELSE IF first THEN 0 ELSE 1

temperatureNegEffectMul(temp) ==
  CASE temp = burning -> 5 [] temp = burning - 1 -> 3 [] OTHER -> 1

term(t, i) ==
  IF i \in weighted(t)
  THEN fertilityWeights[adjacent(t, i)]
         - 100 * deg(i) * temperatureNegEffectMul(temperature[adjacent(t, i)])
  ELSE 0

score(t) ==
  term(t, 1) + term(t, 2) + term(t, 3) + term(t, 4)
    + term(t, 5) + term(t, 6) + term(t, 7) + term(t, 8)

(* Without a neighbour that has a weight the mean is not a number, and     *)
(* that is not above zero.                                                 *)
thrives(t) == weighted(t) # {} /\ score(t) > 0

finalScore(t) == score(t) \div Cardinality(weighted(t))

(* What the next wave gets from t. *)
potentialNewTiles(t) ==
  {adjacent(t, i) : i \in outside(t)} \ (DOMAIN fertilityWeights \cup water)

(* The plant that grows at a temperature: std::rand() can choose between   *)
(* two where it is mild.                                                   *)
Plant(temp) ==
  CASE temp = 3 -> {"Tree", "Spruce Tree"}
    [] temp \in {5, 6} -> {"Palm Tree"}
    [] temp \in {0, 1, 2} -> {"Spruce Tree"}
    [] OTHER -> {"Tree"}

-----------------------------------------------------------------------------
(* at() throws for a tile of water without a pool. *)
InitialWeights ==
  /\ water \subseteq DOMAIN poolSizes
  /\ fertilityWeights' = [t \in water |-> poolSizes[t] * poolMultiplier]
  /\ tilesToCheck' = {s \in Tiles \ water :
                        \E t \in water, i \in 1 .. 8 :
                          adjacentIndex(t, i) = index(s[1], s[2])}
  /\ toRemoveIndices' = {}
  /\ newWaveTiles' = {}
  /\ first' = TRUE

(* The visit of a tile of the wave that does not thrive, and of one that   *)
(* does.                                                                   *)
PassOver(t) ==
  /\ ~thrives(t)
  /\ toRemoveIndices' = toRemoveIndices \cup {t}
  /\ UNCHANGED <<fertilityWeights, tilesToCheck, newWaveTiles, first>>

Fertilize(t) ==
  /\ thrives(t)
  /\ fertilityWeights' = [s \in DOMAIN fertilityWeights \cup {t} |->
                           IF s = t THEN finalScore(t) ELSE fertilityWeights[s]]
  /\ newWaveTiles' = newWaveTiles \cup potentialNewTiles(t)
  /\ toRemoveIndices' = toRemoveIndices \cup {t}
  /\ UNCHANGED <<tilesToCheck, first>>

(* Mutants: tiles that do not thrive stay; `first' is never cleared. *)
WaveDone_keepsTiles ==
  /\ tilesToCheck' = (tilesToCheck \cup newWaveTiles) \ DOMAIN fertilityWeights
  /\ toRemoveIndices' = {}
  /\ newWaveTiles' = {}
  /\ first' = FALSE
  /\ UNCHANGED fertilityWeights

WaveDone_staysFirst ==
  /\ tilesToCheck' = (tilesToCheck \cup newWaveTiles) \ toRemoveIndices
  /\ toRemoveIndices' = {}
  /\ newWaveTiles' = {}
  /\ UNCHANGED <<fertilityWeights, first>>

(* After the last tile of a wave. *)
WaveDone ==
  /\ tilesToCheck' = (tilesToCheck \cup newWaveTiles) \ toRemoveIndices
  /\ toRemoveIndices' = {}
  /\ newWaveTiles' = {}
  /\ first' = FALSE
  /\ UNCHANGED fertilityWeights
=============================================================================
