----------------------------- MODULE MCGameStart -----------------------------
(* Small worlds for TLC. *)
EXTENDS GameStart

(* Three heights, the same on both sides of the diagonal, with the lowest  *)
(* ground around the near corner, the highest at the far one and no medium *)
(* height between.                                                         *)
ThreeHeights ==
  {e \in [Tiles -> {0, 4, 8}] :
     /\ e[<<0, 0>>] = 0 /\ e[<<1, 0>>] = 0
     /\ e[<<worldWidth - 1, worldWidth - 1>>] = 8
     /\ \A t \in Tiles : e[t] = e[<<t[2], t[1]>>]
     /\ \A n \in 1 .. worldWidth - 1 : e[<<n, n>>] # 4}
=============================================================================
