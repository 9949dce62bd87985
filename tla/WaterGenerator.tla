---------------------------- MODULE WaterGenerator ----------------------------
(***************************************************************************)
(* The water of a new world.  generate_world_waters drops a number of      *)
(* pools on random tiles; generate_water_area finds the tiles of one by a  *)
(* depth first search over tiles of one height, which starts again at any  *)
(* lower tile it meets; the pool is then filled to one below its lowest    *)
(* shore.  A step is one iteration of the search.                          *)
(*                                                                         *)
(* Tiles are pairs of coordinates.  The code looks a neighbour's index up  *)
(* in `visited` before it tests the range of its coordinates; for one      *)
(* outside of the world either test skips it, so only tiles in range are   *)
(* listed here.                                                            *)
(***************************************************************************)
EXTENDS Terrain, Sequences, SequencesExt, FiniteSetsExt

CONSTANT poolCount

NoLevel == -1

ASSUME WaterAssumption == poolCount \in Nat

VARIABLES
  poolSizes,      \* tilePoolSizeMapping
  pool,           \* the loop counter i of generate_world_waters
  searching,      \* is generate_water_area running?
  searchStack, visited, waterLevel

searchVars == <<searchStack, visited, waterLevel>>
worldVars == <<terrainVars, poolSizes>>
waterVars == <<poolSizes, pool, searching, searchVars>>

NoWater ==
  /\ poolSizes = [t \in {} |-> 0]
  /\ pool = 0
  /\ searching = FALSE
  /\ searchStack = <<>>
  /\ visited = {}
  /\ waterLevel = NoLevel

(* adjacentNodes, in its order. *)
directions == << <<-1, 0>>, <<1, 0>>, <<0, -1>>, <<0, 1>> >>

adjacentNode(t, i) == <<t[1] + directions[i][1], t[2] + directions[i][2]>>

(* The tile being observed, and the directions of its neighbours that are  *)
(* not visited yet.                                                        *)
observe == Last(searchStack)
ahead == {i \in 1 .. 4 : adjacentNode(observe, i) \in Tiles \ visited}

height(i) == elevation[adjacentNode(observe, i)]

(* Mutant: a tile of the same height counts as lower. *)
lower_level(i) == height(i) <= elevation[observe]

lower(i) == height(i) < elevation[observe]

(* Mutant: the highest shore. *)
lowest_highest(level, shores) ==
  LET known == shores \cup ({level} \ {NoLevel})
  IN  IF known = {} THEN NoLevel ELSE Max(known)

(* Mutant: the level that was not found yet counts. *)
lowest_withNone(level, shores) == Min(shores \cup {level})

(* The water level after these shores were seen. *)
lowest(level, shores) ==
  LET known == shores \cup ({level} \ {NoLevel})
  IN  IF known = {} THEN NoLevel ELSE Min(known)

Shores(seen) == {height(i) : i \in {k \in seen : height(k) > elevation[observe]}}

(* What is pushed for direction i. *)
pushed(i) ==
  IF i \in ahead /\ height(i) = elevation[observe]
  THEN <<adjacentNode(observe, i)>> ELSE <<>>

pushes == pushed(1) \o pushed(2) \o pushed(3) \o pushed(4)

-----------------------------------------------------------------------------
(* rand() picks the first tile of the next pool. *)
StartPool ==
  /\ stage = "waters"
  /\ ~searching
  /\ pool < poolCount
  /\ searching' = TRUE
  /\ \E t \in Tiles : searchStack' = <<t>>
  /\ visited' = {}
  /\ waterLevel' = NoLevel
  /\ UNCHANGED <<worldVars, pool>>

Observing == stage = "waters" /\ searching /\ searchStack # <<>>

(* A tile pushed by several of its neighbours is observed once. *)
Revisit ==
  /\ Observing
  /\ observe \in visited
  /\ searchStack' = Front(searchStack)
  /\ UNCHANGED <<worldVars, pool, searching, visited, waterLevel>>

(* Mutant: the tiles visited so far are kept. *)
Leak_keepsVisited ==
  /\ Observing
  /\ observe \notin visited
  /\ \E i \in ahead :
       /\ lower(i)
       /\ \A k \in ahead : k < i => ~lower(k)
       /\ searchStack' = <<adjacentNode(observe, i)>>
       /\ waterLevel' = lowest(waterLevel, Shores({k \in ahead : k < i}))
  /\ UNCHANGED <<worldVars, pool, searching, visited>>

(* The search starts over at the first lower neighbour.  It keeps the      *)
(* water level, a reference, with the shores seen before that neighbour.   *)
Leak ==
  /\ Observing
  /\ observe \notin visited
  /\ \E i \in ahead :
       /\ lower(i)
       /\ \A k \in ahead : k < i => ~lower(k)
       /\ searchStack' = <<adjacentNode(observe, i)>>
       /\ waterLevel' = lowest(waterLevel, Shores({k \in ahead : k < i}))
  /\ visited' = {}
  /\ UNCHANGED <<worldVars, pool, searching>>

Spread ==
  /\ Observing
  /\ observe \notin visited
  /\ \A i \in ahead : ~lower(i)
  /\ searchStack' = Front(searchStack) \o pushes
  /\ waterLevel' = lowest(waterLevel, Shores(ahead))
  /\ visited' = visited \cup {observe}
  /\ UNCHANGED <<worldVars, pool, searching>>

(* The tiles found get the water's type and its surface. *)
Flooded(surface) ==
  /\ elevation' = [t \in Tiles |-> IF t \in visited THEN surface ELSE elevation[t]]
  /\ terrtype' = [t \in Tiles |-> IF t \in visited THEN "water" ELSE terrtype[t]]

PoolDone ==
  /\ pool' = pool + 1
  /\ searching' = FALSE
  /\ UNCHANGED <<stage, searchVars>>

Recorded(sizes) ==
  poolSizes' = [t \in DOMAIN sizes \cup visited |->
                  IF t \in visited THEN Cardinality(visited) ELSE sizes[t]]

(* Mutant: a mapping of the last pool only. *)
FillPool_forgets ==
  /\ stage = "waters"
  /\ searching
  /\ searchStack = <<>>
  /\ Flooded(IF waterLevel > 0 THEN waterLevel - 1 ELSE 0)
  /\ Recorded([t \in {} |-> 0])
  /\ PoolDone

(* A level that was not found counts as 0. *)
FillPool ==
  /\ stage = "waters"
  /\ searching
  /\ searchStack = <<>>
  /\ Flooded(IF waterLevel > 0 THEN waterLevel - 1 ELSE 0)
  /\ Recorded(poolSizes)
  /\ PoolDone

generate_water_area == Revisit \/ Leak \/ Spread

generate_world_waters == StartPool \/ generate_water_area \/ FillPool

-----------------------------------------------------------------------------
WaterTypeOK ==
  /\ elevation \in [Tiles -> Heights]
  /\ terrtype \in [Tiles -> TerrainTypes]
  /\ DOMAIN poolSizes \subseteq Tiles
  /\ \A t \in DOMAIN poolSizes : poolSizes[t] \in 1 .. worldWidth * worldWidth
  /\ pool \in 0 .. poolCount
  /\ searching \in BOOLEAN
  /\ searchStack \in Seq(Tiles)
  /\ visited \subseteq Tiles
  /\ waterLevel \in Heights \cup {NoLevel}

Adjacent(s, t) == \E i \in 1 .. 4 : t = adjacentNode(s, i)

(* While pools are dropped, water never stands above the ground or the     *)
(* water next to it: neither a level carried over a leak nor a later pool  *)
(* can put it there.                                                       *)
WaterHeld ==
  stage = "waters" => \A s \in water, t \in Tiles : Adjacent(s, t) => elevation[s] <= elevation[t]

(* The sets of water tiles with no other water next to them; the body of    *)
(* water a tile belongs to is what all of them around that tile share.     *)
ClosedWater ==
  {part \in SUBSET water : \A t \in part, u \in water : Adjacent(t, u) => u \in part}

Body(parts, s) == {t \in water : \A part \in parts : s \in part => t \in part}

(* EnvironmentGenerator.h:10: the mapping holds "contiguous body of        *)
(* water's tile count for each water tile", also where pools were dropped  *)
(* into or beside earlier ones.                                            *)
PoolSizesRight ==
  stage = "waters" /\ ~searching =>
    /\ DOMAIN poolSizes = water
    /\ LET parts == ClosedWater
       IN  \A s \in water : poolSizes[s] = Cardinality(Body(parts, s))

(* Filling a pool only raises its tiles, unless no shore was found, which  *)
(* is when the pool is the whole world.                                    *)
GroundOnlyRises ==
  [][stage = "waters" => \A t \in Tiles :
       elevation'[t] >= elevation[t] \/ visited = Tiles]_<<terrainVars, waterVars>>

(* The tiles of a pool that were found so far, and their heights. *)
Found == visited \cup Range(searchStack)

heightsFound == {elevation[t] : t \in Found}

(* What makes the search end: starting over at a leak it is on lower       *)
(* ground, and without one it observes a tile for the first time or has    *)
(* fewer left to look at.                                                  *)
SearchAdvances ==
  [][stage = "waters" /\ searching /\ searching' =>
       \/ \A h \in heightsFound', g \in heightsFound : h < g
       \/ /\ heightsFound' \subseteq heightsFound
          /\ \/ visited \subseteq visited' /\ visited' # visited
             \/ visited' = visited /\ Len(searchStack') < Len(searchStack)]_<<terrainVars, waterVars>>

(* Every pool's search ends, though it starts over at each leak. *)
AllPoolsFilled == (stage = "waters") ~> (pool = poolCount)
=============================================================================
