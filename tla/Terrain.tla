------------------------------- MODULE Terrain -------------------------------
(***************************************************************************)
(* The tiles while Game's constructor builds them: what the generators of  *)
(* game/world/ share.  A tile is a pair of coordinates; the generators     *)
(* often compute an index x + y * worldWidth and test the range of that    *)
(* index only, so that what is beyond a row's end is the next row.         *)
(***************************************************************************)
EXTENDS Integers, FiniteSets

CONSTANT worldWidth

Tiles == (0 .. worldWidth - 1) \X (0 .. worldWidth - 1)

Indices == 0 .. worldWidth * worldWidth - 1

index(x, y) == x + y * worldWidth

tileAt(i) == <<i % worldWidth, i \div worldWidth>>

Heights == 0 .. 31   \* the width of the elevation in a tile

(* "bare" is the type 0 a new world is filled with. *)
TerrainTypes == {"bare", "water", "rock", "dirt", "dunes", "fertile"}

ASSUME TerrainAssumption == worldWidth \in Nat \ {0}

VARIABLES
  elevation,      \* pWorld: the elevation of each tile
  terrtype,       \* pWorld: the terrain type of each tile
  stage           \* where Game's constructor is

terrainVars == <<elevation, terrtype, stage>>

water == {t \in Tiles : terrtype[t] = "water"}
=============================================================================
