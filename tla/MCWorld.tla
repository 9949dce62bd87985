------------------------------- MODULE MCWorld -------------------------------
(* Instances of World for TLC. *)
EXTENDS World

Speeds == [t \in Thing |-> IF t = Empty THEN 0 ELSE 1]

(* Two units and a tree among which nobody interferes. *)
Moving ==
  [units |-> 2, trees |-> 1, admins |-> {}, directions |-> {"N", "E", "S", "W"},
   observed |-> FALSE]

(* A unit and a tree on which an admin spawns, or modifies the terrain. *)
Spawning ==
  [units |-> 1, trees |-> 1, admins |-> {"spawn"}, directions |-> {"E", "W"},
   observed |-> FALSE]

Terraforming == [Spawning EXCEPT !.admins = {"terrain"}, !.observed = TRUE]

OneUnit == [Spawning EXCEPT !.trees = 0]

AllScenarios == {Moving, Spawning, Terraforming}

SpawnOnly == {OneUnit}
=============================================================================
