-------------------------- MODULE ElevationGenerator --------------------------
(***************************************************************************)
(* The heights of a new world, its cliffs and its ramps.                   *)
(*                                                                         *)
(* generate_world_cliffs visits the tiles in the order of their index and  *)
(* compares each with the tiles around it; where one is a cliff higher,    *)
(* both become rock and one time in twenty a ramp is cut from the higher   *)
(* one.  A step is one comparison.                                         *)
(***************************************************************************)
EXTENDS Terrain

CONSTANTS
  Elevated,        \* the worlds generate_world_elevation may leave
  cliffThreshold,
  RampWidths,      \* what rand() % 5 + 1 can return
  MaxRamps         \* bound: ramps in a world

(* The noise is rounded to multiples of elevationMultiplier. *)
Levels == {4 * level : level \in 0 .. 7}

ASSUME ElevationAssumption ==
  /\ Elevated \subseteq [Tiles -> Levels]
  /\ cliffThreshold \in Nat \ {0}
  /\ RampWidths \subseteq Nat \ {0}
  /\ MaxRamps \in Nat

VARIABLES
  scan,              \* currentIndex: the tile being visited
  neighbour,         \* which of those around it is next
  currentElevation,  \* read before the tiles around are
  ramps              \* how many ramps were cut; history

cliffVars == <<scan, neighbour, currentElevation, ramps>>

NoCliffs == scan = 0 /\ neighbour = 1 /\ currentElevation = 0 /\ ramps = 0

(* The positions around x, y in the order of the loops. *)
radius == << <<-1, -1>>, <<0, -1>>, <<1, -1>>,
             <<-1, 0>>, <<0, 0>>, <<1, 0>>,
             <<-1, 1>>, <<0, 1>>, <<1, 1>> >>

-----------------------------------------------------------------------------
(***************************************************************************)
(* create_ramp: the heights after a ramp was cut at posX, posY, which is   *)
(* beyond a row's end if the cliff is.  Directions are 0 (north) to 7      *)
(* (north west), diagonals are odd.                                        *)
(***************************************************************************)
rampBuildThreshold == 2

(* Each tile of the side that is lower adds 1 + the weight so far. *)
sideWeight(heights, begin, side) ==
  <<0, 1, 3, 7>>[1 + Cardinality({p \in side \cap Tiles :
                                    begin - heights[p] >= rampBuildThreshold})]

dirWeights(heights, begin, x, y) ==
  LET N == sideWeight(heights, begin, {<<x + i, y - 1>> : i \in -1 .. 1})
      S == sideWeight(heights, begin, {<<x + i, y + 1>> : i \in -1 .. 1})
      E == sideWeight(heights, begin, {<<x + 1, y + i>> : i \in -1 .. 1})
      W == sideWeight(heights, begin, {<<x - 1, y + i>> : i \in -1 .. 1})
      diagonal(a, b) == LET mean == (a + b) \div 2
                        IN  IF mean > 0 THEN mean + 1 ELSE 0
  IN  <<N, diagonal(N, E), E, diagonal(S, E),
        S, diagonal(S, W), W, diagonal(N, W)>>

(* The first of the directions with the highest weight. *)
highestDir(weights) ==
  CHOOSE d \in 0 .. 7 :
    /\ \A k \in 1 .. 8 : weights[k] <= weights[d + 1]
    /\ \A k \in 1 .. d : weights[k] < weights[d + 1]

(* The height of the tile in that direction.  dirHeights holds the tiles   *)
(* in the order of the loops without those outside of the world, so at an  *)
(* edge swapTarget picks another tile, or none, which counts as 0.         *)
swapTarget == <<1, 2, 4, 7, 6, 5, 3, 0>>

targetHeight(heights, x, y, d) ==
  LET position(k) == <<x + radius[k][1], y + radius[k][2]>>
      around == {k \in (1 .. 9) \ {5} : position(k) \in Tiles}
      target == {k \in around : Cardinality({l \in around : l < k}) = swapTarget[d + 1]}
  IN  IF target = {} THEN 0 ELSE heights[position(CHOOSE k \in target : TRUE)]

(* The tile in row j and column i of a ramp in direction d. *)
rampTile(x, y, d, width, i, j) ==
  CASE d = 0 -> <<x - width \div 2 + i, y - j>>
    [] d = 1 -> <<x + i + j - width \div 2, y - j>>
    [] d = 2 -> <<x + j, y - width \div 2 + i>>
    [] d = 3 -> <<x + i + j - width \div 2, y + j>>
    [] d = 4 -> <<x - width \div 2 + i, y + j>>
    [] d = 5 -> <<x - (width - 1 - i) - j + width \div 2, y + j>>
    [] d = 6 -> <<x - j, y - width \div 2 + i>>
    [] d = 7 -> <<x - (i + j) + width \div 2, y - j>>

steepness(d, width, i, j) ==
  CASE d \in {0, 2, 4, 6} -> 2 * j
    [] d \in {1, 3, 7} -> 2 * j + i
    [] d = 5 -> 2 * j + (width - 1 - i)

(* Mutant: does not stop at the target height. *)
create_ramp_bottomless(heights, x, y, rampWidth) ==
  LET begin == heights[tileAt(index(x, y))]
      d     == highestDir(dirWeights(heights, begin, x, y))
      width == IF d % 2 = 1 THEN rampWidth + 1 ELSE rampWidth
  IN  [t \in Tiles |->
        LET cut == {begin - steepness(d, width, c[1], c[2]) :
                      c \in {c \in (0 .. width - 1) \X (0 .. begin - 1) :
                               rampTile(x, y, d, width, c[1], c[2]) = t}}
        IN  IF cut = {} THEN heights[t] ELSE CHOOSE h \in cut : TRUE]

(* No tile is cut twice. *)
create_ramp(heights, x, y, rampWidth) ==
  LET begin == heights[tileAt(index(x, y))]
      d     == highestDir(dirWeights(heights, begin, x, y))
      width == IF d % 2 = 1 THEN rampWidth + 1 ELSE rampWidth
  IN  [t \in Tiles |->
        LET cut == {h \in {begin - steepness(d, width, c[1], c[2]) :
                             c \in {c \in (0 .. width - 1) \X (0 .. begin - 1) :
                                      rampTile(x, y, d, width, c[1], c[2]) = t}} :
                      h >= targetHeight(heights, x, y, d)}
        IN  IF cut = {} THEN heights[t] ELSE CHOOSE h \in cut : TRUE]

-----------------------------------------------------------------------------
generate_world_elevation == elevation' \in Elevated /\ UNCHANGED terrtype

(* The position compared with, which may be beyond a row's end. *)
x2 == tileAt(scan)[1] + radius[neighbour][1]
y2 == tileAt(scan)[2] + radius[neighbour][2]

current == IF neighbour = 1 THEN elevation[tileAt(scan)] ELSE currentElevation

cliffFound ==
  /\ index(x2, y2) \in Indices
  /\ elevation[tileAt(index(x2, y2))] - current >= cliffThreshold

(* Mutant: only the lower tile gets the type. *)
both_lower(type) == [terrtype EXCEPT ![tileAt(scan)] = type]

both(type) == [terrtype EXCEPT ![tileAt(scan)] = type, ![tileAt(index(x2, y2))] = type]

Rock ==
  /\ cliffFound
  /\ terrtype' = both("rock")
  /\ UNCHANGED <<elevation, ramps>>

Ramp ==
  /\ cliffFound
  /\ ramps < MaxRamps
  /\ \E rampWidth \in RampWidths : elevation' = create_ramp(elevation, x2, y2, rampWidth)
  /\ terrtype' = both("dirt")
  /\ ramps' = ramps + 1

NoCliff ==
  /\ ~cliffFound
  /\ UNCHANGED <<elevation, terrtype, ramps>>

Compare ==
  /\ scan \in Indices
  /\ Rock \/ Ramp \/ NoCliff
  /\ currentElevation' = current
  /\ neighbour' = IF neighbour = 9 THEN 1 ELSE neighbour + 1
  /\ scan' = IF neighbour = 9 THEN scan + 1 ELSE scan

-----------------------------------------------------------------------------
(* Tiles that count as neighbours for the code: their indices are those    *)
(* around a tile's, also across the end of a row.                          *)
IndexAdjacent(s, t) ==
  \E k \in 1 .. 9 : index(s[1] + radius[k][1], s[2] + radius[k][2]) = index(t[1], t[2])
=============================================================================
