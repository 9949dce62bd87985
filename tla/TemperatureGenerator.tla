------------------------- MODULE TemperatureGenerator -------------------------
(***************************************************************************)
(* The temperatures of a new world, and the dunes where it burns and there *)
(* is little water around.  A step is one tile.                            *)
(***************************************************************************)
EXTENDS Terrain, FiniteSetsExt

CONSTANT Equators   \* the rows equatorYPos may be

(* tempMapping, from freezing to burning. *)
Temperatures == 0 .. 6
burning == 6

ASSUME TemperatureAssumption == Equators \subseteq Int

VARIABLES
  temperature,      \* pWorld: the temperature of each tile
  equatorYPos,      \* the argument
  heated            \* index of the next tile

temperatureVars == <<temperature, equatorYPos, heated>>

NoTemperature ==
  /\ temperature = [t \in Tiles |-> 0]
  /\ equatorYPos = 0
  /\ heated = 0

distFromEq(t) ==
  IF t[2] >= equatorYPos THEN t[2] - equatorYPos ELSE equatorYPos - t[2]

(* Half of min(distance / 49, 6) + elevation / 6, cut to an integer; the   *)
(* floats are exact where that is a whole number.                          *)
totalTemperatureScore(t) ==
  LET dist == Min({distFromEq(t), 6 * 49})
  IN  Max({burning - (6 * dist + 49 * elevation[t]) \div (2 * 6 * 49), 0})

checkRadius == 3

(* The count goes by indices, so near an edge it goes on in the next row   *)
(* and counts a tile more than once in a narrow world.                     *)
dries(t) ==
  LET around == {c \in (-checkRadius .. checkRadius - 1) \X (-checkRadius .. checkRadius - 1) :
                   LET i == index(t[1] + c[1], t[2] + c[2])
                   IN  i \in Indices /\ terrtype[tileAt(i)] = "water"}
  IN  terrtype[t] # "rock" /\ Cardinality(around) < 3

(* A tile of water that has dried out does not count for the next one. *)
generate_temperature_effect ==
  /\ heated \in Indices
  /\ LET t == tileAt(heated)
     IN  /\ temperature' = [temperature EXCEPT ![t] = totalTemperatureScore(t)]
         /\ terrtype' = IF totalTemperatureScore(t) = burning /\ dries(t)
                        THEN [terrtype EXCEPT ![t] = "dunes"] ELSE terrtype
  /\ heated' = heated + 1
  /\ UNCHANGED <<elevation, equatorYPos>>
=============================================================================
