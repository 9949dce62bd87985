-------------------------- MODULE EnvironmentProofs --------------------------
(***************************************************************************)
(* What Game's constructor makes of a new world, for worlds of every size: *)
(* the generators stay within the ranges of their data, the objects are on *)
(* tiles of their own, the sizes of the pools stay known, the rock is      *)
(* where the cliffs are, fertility fades away from the water and its waves *)
(* come to an end.                                                         *)
(***************************************************************************)
EXTENDS WaterProofs, FiniteSetTheorems

(***************************************************************************)
(* Tiles and their indices                                                 *)
(***************************************************************************)

(* Quotient and remainder. *)
LEMMA DivMod ==
  ASSUME NEW w \in Nat \ {0}, NEW i \in Int
  PROVE  /\ i \div w \in Int
         /\ i % w \in 0 .. w - 1
         /\ i = ((i \div w) * w) + (i % w)
OBVIOUS

(* A row and a place in it are what its index is made of. *)
LEMMA DivOf ==
  ASSUME NEW w \in Nat \ {0}, NEW x \in 0 .. w - 1, NEW y \in Nat
  PROVE  (x + y * w) \div w = y /\ (x + y * w) % w = x
<1> DEFINE i == x + y * w
<1>1. PICK p \in Int : p = y * w
  OBVIOUS
<1>2. i \in Int
  OBVIOUS
<1> HIDE DEF i
<1>3. PICK q \in Int, r \in 0 .. w - 1 : q = i \div w /\ r = i % w /\ i = q * w + r
  BY <1>2, DivMod
<1>4. (q - y) * w = x - r
  BY <1>3 DEF i
<1>5. q - y = 0
  <2>1. CASE q - y >= 1
    <3>1. (q - y) * w >= w
      BY <2>1
    <3> QED BY <3>1, <1>4
  <2>2. CASE q - y <= -1
    <3>1. (y - q) * w >= w
      BY <2>2
    <3>2. (y - q) * w = r - x
      BY <1>4
    <3> QED BY <3>1, <3>2
  <2> QED BY <2>1, <2>2
<1>6. q = y
  BY <1>5
<1>7. r = x
  BY <1>3, <1>6 DEF i
<1> QED BY <1>3, <1>6, <1>7 DEF i

(* Every tile has an index of its own in the range, and each index a tile. *)
LEMMA TilesAndIndices ==
  /\ \A i \in Indices : tileAt(i) \in Tiles /\ index(tileAt(i)[1], tileAt(i)[2]) = i
  /\ \A t \in Tiles : index(t[1], t[2]) \in Indices /\ tileAt(index(t[1], t[2])) = t
<1> DEFINE w == worldWidth
<1>1. w \in Nat \ {0}
  BY TerrainAssumption
<1> HIDE DEF w
<1>0. w = worldWidth
  BY DEF w
<1>2. ASSUME NEW i \in 0 .. w * w - 1
      PROVE  /\ i % w \in 0 .. w - 1 /\ i \div w \in 0 .. w - 1
             /\ (i % w) + ((i \div w) * w) = i
  <2>1. w * w \in Int /\ i \in Int
    BY <1>1
  <2>2. PICK q \in Int, r \in 0 .. w - 1 : q = i \div w /\ r = i % w /\ i = q * w + r
    BY <1>1, <2>1, DivMod
  <2>3. q >= 0
    <3>1. CASE q <= -1
      <4>1. q * w <= -w
        BY <1>1, <3>1
      <4> QED BY <1>1, <2>2, <4>1
    <3> QED BY <3>1
  <2>4. q <= w - 1
    <3>1. CASE q >= w
      <4>1. q * w >= w * w
        BY <1>1, <3>1
      <4> QED BY <1>1, <2>1, <2>2, <4>1
    <3> QED BY <1>1, <3>1
  <2> QED BY <1>1, <2>2, <2>3, <2>4
<1>3. ASSUME NEW x \in 0 .. w - 1, NEW y \in 0 .. w - 1
      PROVE  /\ x + y * w \in 0 .. w * w - 1
             /\ (x + y * w) % w = x /\ (x + y * w) \div w = y
  <2>1. (w - 1 - y) * w >= 0
    BY <1>1
  <2>2. x + y * w \in 0 .. w * w - 1
    BY <1>1, <2>1
  <2> QED BY <1>1, <2>2, DivOf
<1>4. ASSUME NEW i \in Indices PROVE tileAt(i) \in Tiles /\ index(tileAt(i)[1], tileAt(i)[2]) = i
  BY <1>0, <1>2 DEF tileAt, index, Tiles, Indices
<1>5. ASSUME NEW t \in Tiles PROVE index(t[1], t[2]) \in Indices /\ tileAt(index(t[1], t[2])) = t
  <2>1. PICK x \in 0 .. w - 1, y \in 0 .. w - 1 : t = <<x, y>>
    BY <1>0 DEF Tiles
  <2> QED BY <1>0, <1>3, <2>1 DEF tileAt, index, Indices
<1> QED BY <1>4, <1>5

LEMMA TilesFinite ==
  /\ IsFiniteSet(Tiles)
  /\ Cardinality(Tiles) = worldWidth * worldWidth
<1> DEFINE side == 0 .. worldWidth - 1
<1>1. IsFiniteSet(side) /\ Cardinality(side) = worldWidth
  BY TerrainAssumption, FS_Interval
<1> HIDE DEF side
<1>2. /\ IsFiniteSet(side \X side)
      /\ Cardinality(side \X side) = Cardinality(side) * Cardinality(side)
  BY <1>1, FS_Product
<1> QED BY <1>1, <1>2 DEF Tiles, side

(***************************************************************************)
(* The heights of ramps                                                    *)
(***************************************************************************)

(* What directions weigh: a side has three tiles at most. *)
LEMMA ThreeAtMost ==
  ASSUME NEW a, NEW b, NEW c, NEW S \in SUBSET {a, b, c}
  PROVE  Cardinality(S) \in 0 .. 3
<1>1. IsFiniteSet({a}) /\ Cardinality({a}) = 1
  BY FS_Singleton
<1>2. IsFiniteSet({a} \cup {b}) /\ Cardinality({a} \cup {b}) \in 1 .. 2
  BY <1>1, FS_AddElement
<1>3. {a, b, c} = ({a} \cup {b}) \cup {c}
  OBVIOUS
<1>4. IsFiniteSet({a, b, c}) /\ Cardinality({a, b, c}) \in 1 .. 3
  BY <1>2, <1>3, FS_AddElement
<1>5. IsFiniteSet(S) /\ Cardinality(S) <= Cardinality({a, b, c})
  BY <1>4, FS_Subset
<1>6. Cardinality(S) \in Nat
  BY <1>5, FS_CardinalityType
<1> QED BY <1>4, <1>5, <1>6

LEMMA SideWeights ==
  ASSUME NEW heights, NEW begin, NEW a, NEW b, NEW c
  PROVE  sideWeight(heights, begin, {a, b, c}) \in Nat
<1> DEFINE lowered == {p \in {a, b, c} \cap Tiles : begin - heights[p] >= rampBuildThreshold}
<1>1. Cardinality(lowered) \in 0 .. 3
  BY ThreeAtMost
<1> HIDE DEF lowered
<1>2. <<0, 1, 3, 7>>[1 + Cardinality(lowered)] \in Nat
  BY <1>1
<1> QED BY <1>2 DEF sideWeight, lowered

LEMMA EightNats ==
  ASSUME NEW w1 \in Nat, NEW w2 \in Nat, NEW w3 \in Nat, NEW w4 \in Nat,
         NEW w5 \in Nat, NEW w6 \in Nat, NEW w7 \in Nat, NEW w8 \in Nat
  PROVE  \A k \in 1 .. 8 : <<w1, w2, w3, w4, w5, w6, w7, w8>>[k] \in Nat
OBVIOUS

LEMMA DirWeights ==
  ASSUME NEW heights, NEW begin, NEW x \in Int, NEW y \in Int
  PROVE  \A k \in 1 .. 8 : dirWeights(heights, begin, x, y)[k] \in Nat
<1> DEFINE N == sideWeight(heights, begin, {<<x + i, y - 1>> : i \in -1 .. 1})
           S == sideWeight(heights, begin, {<<x + i, y + 1>> : i \in -1 .. 1})
           E == sideWeight(heights, begin, {<<x + 1, y + i>> : i \in -1 .. 1})
           W == sideWeight(heights, begin, {<<x - 1, y + i>> : i \in -1 .. 1})
           diagonal(a, b) == LET mean == (a + b) \div 2
                             IN  IF mean > 0 THEN mean + 1 ELSE 0
<1>1. -1 .. 1 = {-1, 0, 1}
  OBVIOUS
<1>2. N \in Nat
  <2>1. {<<x + i, y - 1>> : i \in -1 .. 1} = {<<x + -1, y - 1>>, <<x + 0, y - 1>>, <<x + 1, y - 1>>}
    BY <1>1
  <2> QED BY <2>1, SideWeights
<1>3. S \in Nat
  <2>1. {<<x + i, y + 1>> : i \in -1 .. 1} = {<<x + -1, y + 1>>, <<x + 0, y + 1>>, <<x + 1, y + 1>>}
    BY <1>1
  <2> QED BY <2>1, SideWeights
<1>4. E \in Nat
  <2>1. {<<x + 1, y + i>> : i \in -1 .. 1} = {<<x + 1, y + -1>>, <<x + 1, y + 0>>, <<x + 1, y + 1>>}
    BY <1>1
  <2> QED BY <2>1, SideWeights
<1>5. W \in Nat
  <2>1. {<<x - 1, y + i>> : i \in -1 .. 1} = {<<x - 1, y + -1>>, <<x - 1, y + 0>>, <<x - 1, y + 1>>}
    BY <1>1
  <2> QED BY <2>1, SideWeights
<1>6. dirWeights(heights, begin, x, y) =
        <<N, diagonal(N, E), E, diagonal(S, E), S, diagonal(S, W), W, diagonal(N, W)>>
  BY DEF dirWeights
<1>7. \A a, b \in Nat : diagonal(a, b) \in Nat
  OBVIOUS
<1>8. /\ diagonal(N, E) \in Nat /\ diagonal(S, E) \in Nat
      /\ diagonal(S, W) \in Nat /\ diagonal(N, W) \in Nat
  <2> HIDE DEF N, S, E, W, diagonal
  <2> QED BY <1>2, <1>3, <1>4, <1>5, <1>7
<1> HIDE DEF N, S, E, W, diagonal
<1> QED BY <1>2, <1>3, <1>4, <1>5, <1>6, <1>8, EightNats

(* There is a first direction of the highest weight. *)
LEMMA HighestDir ==
  ASSUME NEW weights, \A k \in 1 .. 8 : weights[k] \in Nat
  PROVE  highestDir(weights) \in 0 .. 7
<1> DEFINE above == {n \in Nat : \A k \in 1 .. 8 : weights[k] <= n}
           most == Min(above)
           firsts == {k \in 1 .. 8 : weights[k] = most}
<1>1. above \in SUBSET Nat /\ above # {}
  <2>1. \E n \in Nat : n \in above
    <3>1. /\ weights[1] \in Nat /\ weights[2] \in Nat /\ weights[3] \in Nat
          /\ weights[4] \in Nat /\ weights[5] \in Nat /\ weights[6] \in Nat
          /\ weights[7] \in Nat /\ weights[8] \in Nat
      OBVIOUS
    <3>2. PICK n \in Nat : n = weights[1] + weights[2] + weights[3] + weights[4]
                                   + weights[5] + weights[6] + weights[7] + weights[8]
      BY <3>1
    <3>3. /\ weights[1] <= n /\ weights[2] <= n /\ weights[3] <= n /\ weights[4] <= n
          /\ weights[5] <= n /\ weights[6] <= n /\ weights[7] <= n /\ weights[8] <= n
      BY <3>1, <3>2
    <3>4. \A k \in 1 .. 8 : weights[k] <= n
      BY <3>3
    <3> QED BY <3>4
  <2> QED BY <2>1
<1>2. most \in above /\ \A n \in above : most <= n
  <2> HIDE DEF above
  <2> QED BY <1>1, MinOfNats
<1>3. most \in Nat /\ \A k \in 1 .. 8 : weights[k] <= most
  BY <1>2
<1> HIDE DEF most
<1>4. firsts # {}
  <2> SUFFICES ASSUME \A k \in 1 .. 8 : weights[k] < most PROVE FALSE
    BY <1>3
  <2>1. most - 1 \in above
    BY <1>3
  <2> QED BY <1>2, <1>3, <2>1
<1>5. firsts \in SUBSET Nat
  OBVIOUS
<1>6. Min(firsts) \in firsts /\ \A n \in firsts : Min(firsts) <= n
  <2> HIDE DEF firsts
  <2> QED BY <1>4, <1>5, MinOfNats
<1> DEFINE d == Min(firsts) - 1
<1>7. d \in 0 .. 7 /\ d + 1 \in firsts
  BY <1>6
<1>8. \A k \in 1 .. 8 : weights[k] <= weights[d + 1]
  BY <1>3, <1>7
<1>9. \A k \in 1 .. d : weights[k] < weights[d + 1]
  <2> SUFFICES ASSUME NEW k \in 1 .. d PROVE weights[k] < weights[d + 1]
    OBVIOUS
  <2>1. k \in 1 .. 8 /\ k < d + 1
    BY <1>7
  <2>2. k \notin firsts
    BY <1>6, <1>7, <2>1
  <2> QED BY <1>3, <1>7, <2>1, <2>2
<1> HIDE DEF d, firsts
<1>10. \E e \in 0 .. 7 :
         /\ \A k \in 1 .. 8 : weights[k] <= weights[e + 1]
         /\ \A k \in 1 .. e : weights[k] < weights[e + 1]
  BY <1>7, <1>8, <1>9
<1> QED BY <1>10 DEF highestDir

(* A ramp leads to the height of a tile, or to 0. *)
LEMMA TargetHeight ==
  ASSUME NEW heights \in [Tiles -> Heights], NEW x, NEW y, NEW d
  PROVE  targetHeight(heights, x, y, d) \in Heights
<1> DEFINE position(k) == <<x + radius[k][1], y + radius[k][2]>>
           around == {k \in (1 .. 9) \ {5} : position(k) \in Tiles}
           target == {k \in around : Cardinality({l \in around : l < k}) = swapTarget[d + 1]}
<1>1. targetHeight(heights, x, y, d) =
        IF target = {} THEN 0 ELSE heights[position(CHOOSE k \in target : TRUE)]
  BY DEF targetHeight
<1>2. \A k \in target : position(k) \in Tiles
  OBVIOUS
<1> HIDE DEF target, position
<1>3. CASE target = {}
  BY <1>1, <1>3 DEF Heights
<1>4. CASE target # {}
  <2>1. (CHOOSE k \in target : TRUE) \in target
    BY <1>4
  <2> QED BY <1>1, <1>2, <1>4, <2>1
<1> QED BY <1>3, <1>4

(* A ramp's heights are between the height it leads to and the one it      *)
(* starts at.                                                              *)
LEMMA RampHeights ==
  ASSUME NEW heights \in [Tiles -> Heights], NEW x \in Int, NEW y \in Int,
         tileAt(index(x, y)) \in Tiles, NEW rampWidth \in Nat \ {0}
  PROVE  create_ramp(heights, x, y, rampWidth) \in [Tiles -> Heights]
<1> DEFINE begin == heights[tileAt(index(x, y))]
           d     == highestDir(dirWeights(heights, begin, x, y))
           width == IF d % 2 = 1 THEN rampWidth + 1 ELSE rampWidth
           low   == targetHeight(heights, x, y, d)
           cut(t) == {h \in {begin - steepness(d, width, c[1], c[2]) :
                               c \in {c \in (0 .. width - 1) \X (0 .. begin - 1) :
                                        rampTile(x, y, d, width, c[1], c[2]) = t}} :
                        h >= low}
<1>1. begin \in 0 .. 31
  BY DEF Heights
<1>2. d \in 0 .. 7
  BY DirWeights, HighestDir
<1>3. width \in Nat \ {0}
  OBVIOUS
<1>4. low \in 0 .. 31
  BY TargetHeight DEF Heights
<1>5. create_ramp(heights, x, y, rampWidth) =
        [t \in Tiles |-> IF cut(t) = {} THEN heights[t] ELSE CHOOSE h \in cut(t) : TRUE]
  BY DEF create_ramp
<1> HIDE DEF begin, d, width, low
<1>6. \A i \in 0 .. width - 1, j \in 0 .. begin - 1 : steepness(d, width, i, j) \in Nat
  <2> SUFFICES ASSUME NEW i \in 0 .. width - 1, NEW j \in 0 .. begin - 1
               PROVE  steepness(d, width, i, j) \in Nat
    OBVIOUS
  <2>1. i \in Nat /\ j \in Nat /\ width - 1 - i \in Nat
    BY <1>1, <1>3
  <2>2. CASE d \in {0, 2, 4, 6}
    BY <2>1, <2>2 DEF steepness
  <2>3. CASE d \in {1, 3, 7}
    BY <2>1, <2>3 DEF steepness
  <2>4. CASE d = 5
    BY <2>1, <2>4 DEF steepness
  <2> QED BY <1>2, <2>2, <2>3, <2>4
<1>7. ASSUME NEW t \in Tiles, NEW h \in cut(t) PROVE h \in Heights
  <2>1. PICK i \in 0 .. width - 1, j \in 0 .. begin - 1 : h = begin - steepness(d, width, i, j)
    OBVIOUS
  <2>2. h >= low
    OBVIOUS
  <2>3. steepness(d, width, i, j) \in Nat
    BY <1>6
  <2> HIDE DEF cut
  <2> QED BY <1>1, <1>4, <2>1, <2>2, <2>3 DEF Heights
<1> HIDE DEF cut
<1> QED BY <1>5, <1>7

(***************************************************************************)
(* Objects                                                                 *)
(***************************************************************************)

(* What an object can be; no tile shows the empty one when it is taken. *)
Things == {Unit} \cup Plants

LEMMA PlantNames == Plants \subseteq {"Tree", "Spruce Tree", "Palm Tree"} /\ Empty \notin Things
<1>1. \A temp \in Temperatures : Plant(temp) \subseteq {"Tree", "Spruce Tree", "Palm Tree"}
  BY DEF Temperatures, Plant
<1>2. Plants \subseteq {"Tree", "Spruce Tree", "Palm Tree"}
  BY <1>1 DEF Plants
<1> QED BY <1>2 DEF Things, Unit, Empty

(* The tiles that show something, and what an object is. *)
Placed == {t \in Tiles : things[t] # Empty}

Records == [tile : Tiles, thing : Things, faction : {Neutral, NoFaction, LocalCopy}]

(* Objects are things on tiles that show them. *)
ObjectsInv ==
  /\ things \in [Tiles -> {Empty} \cup Things]
  /\ objects \in Seq(Records)
  /\ \A i \in DOMAIN objects : things[objects[i].tile] = objects[i].thing
  /\ Cardinality(Placed) = Len(objects)

(* Objects and the tiles that show them change together or not at all. *)
LEMMA KeepsObjects == ObjectsInv /\ UNCHANGED <<objects, things>> => ObjectsInv'
BY DEF ObjectsInv, Placed

(* What spawnObject puts on a free tile. *)
LEMMA SpawnedObjects ==
  ASSUME ObjectsInv, NEW t \in Tiles, NEW thing \in Things,
         NEW faction \in {Neutral, NoFaction, LocalCopy},
         spawnObject(t, thing, faction)
  PROVE  ObjectsInv'
<1>1. CASE things[t] # Empty
  BY <1>1, KeepsObjects DEF spawnObject
<1>2. CASE things[t] = Empty
  <2> DEFINE r == [tile |-> t, thing |-> thing, faction |-> faction]
  <2>1. /\ objects' = Append(objects, r)
        /\ things' = [things EXCEPT ![t] = thing]
    BY <1>2 DEF spawnObject
  <2>2. r \in Records
    BY DEF Records
  <2>3. objects \in Seq(Records) /\ things \in [Tiles -> {Empty} \cup Things]
    BY DEF ObjectsInv
  <2>4. thing # Empty
    BY PlantNames
  <2>5. r.tile = t /\ r.thing = thing
    OBVIOUS
  <2> HIDE DEF r
  <2>6. /\ objects' \in Seq(Records)
        /\ Len(objects') = Len(objects) + 1
        /\ DOMAIN objects' = 1 .. Len(objects) + 1
        /\ objects'[Len(objects) + 1] = r
        /\ \A i \in 1 .. Len(objects) : objects'[i] = objects[i]
    BY <2>1, <2>2, <2>3
  <2>7. things' \in [Tiles -> {Empty} \cup Things]
    BY <2>1, <2>3
  <2>8. ASSUME NEW i \in DOMAIN objects' PROVE things'[objects'[i].tile] = objects'[i].thing
    <3>1. CASE i \in 1 .. Len(objects)
      <4>1. objects'[i] = objects[i] /\ objects[i] \in Records
        BY <2>3, <2>6, <3>1
      <4>2. things[objects[i].tile] = objects[i].thing
        BY <2>3, <3>1 DEF ObjectsInv
      <4>3. objects[i].tile \in Tiles /\ objects[i].thing # Empty
        BY <4>1, PlantNames DEF Records
      <4> QED BY <1>2, <2>1, <2>3, <4>1, <4>2, <4>3
    <3>2. CASE i = Len(objects) + 1
      BY <2>1, <2>3, <2>5, <2>6, <3>2
    <3> QED BY <2>3, <2>6, <3>1, <3>2
  <2>9. Cardinality(Placed') = Len(objects')
    <3>1. Placed' = Placed \cup {t} /\ t \notin Placed
      BY <1>2, <2>1, <2>3, <2>4 DEF Placed
    <3>2. IsFiniteSet(Placed)
      BY TilesFinite, FS_Subset DEF Placed
    <3>3. Cardinality(Placed \cup {t}) = Cardinality(Placed) + 1
      BY <3>1, <3>2, FS_AddElement
    <3> QED BY <2>6, <3>1, <3>3 DEF ObjectsInv
  <2> QED BY <2>6, <2>7, <2>8, <2>9 DEF ObjectsInv, Placed
<1> QED BY <1>1, <1>2

(***************************************************************************)
(* Weights: the mean is no more than the best                              *)
(***************************************************************************)

(* A direction with an index in the range leads to a tile. *)
LEMMA AdjacentInWorld ==
  ASSUME NEW t, NEW i \in outside(t)
  PROVE  adjacent(t, i) \in Tiles
BY TilesAndIndices DEF outside, adjacent

(* How many of eight directions are in a set, up to one of them. *)
LEMMA UpTo ==
  ASSUME NEW S \in SUBSET (1 .. 8), NEW k \in 1 .. 8
  PROVE  /\ IsFiniteSet(S)
         /\ Cardinality(S \cap (1 .. k)) \in Nat
         /\ Cardinality(S \cap (1 .. k - 1)) \in Nat
         /\ Cardinality(S \cap (1 .. k)) =
              Cardinality(S \cap (1 .. k - 1)) + (IF k \in S THEN 1 ELSE 0)
<1>0. IsFiniteSet(1 .. 8)
  <2>1. 1 \in Int /\ 8 \in Int
    OBVIOUS
  <2> QED BY <2>1, FS_Interval
<1>1. IsFiniteSet(S)
  BY <1>0, FS_Subset
<1>2. \A T \in SUBSET S : IsFiniteSet(T) /\ Cardinality(T) \in Nat
  BY <1>1, FS_Subset, FS_CardinalityType
<1>3. 1 .. k = (1 .. k - 1) \cup {k} /\ k \notin 1 .. k - 1
  OBVIOUS
<1>4. CASE k \in S
  <2>1. S \cap (1 .. k) = (S \cap (1 .. k - 1)) \cup {k}
    BY <1>3, <1>4
  <2> QED BY <1>1, <1>2, <1>3, <1>4, <2>1, FS_AddElement
<1>5. CASE k \notin S
  <2>1. S \cap (1 .. k) = S \cap (1 .. k - 1)
    BY <1>3, <1>5
  <2> QED BY <1>1, <1>2, <1>5, <2>1
<1> QED BY <1>4, <1>5

(* A sum over the directions of a set in which no term is more than g is    *)
(* at most g times their number.                                            *)
LEMMA SumBound ==
  ASSUME NEW S \in SUBSET (1 .. 8), NEW g \in Int, NEW a,
         \A k \in 1 .. 8 : a[k] \in Int,
         \A k \in 1 .. 8 : IF k \in S THEN a[k] <= g ELSE a[k] = 0
  PROVE  a[1] + a[2] + a[3] + a[4] + a[5] + a[6] + a[7] + a[8] <= Cardinality(S) * g
<1> DEFINE c(k) == Cardinality(S \cap (1 .. k))
<1>1. ASSUME NEW k \in 1 .. 8, NEW p \in Int, p <= c(k - 1) * g
      PROVE  p + a[k] \in Int /\ p + a[k] <= c(k) * g
  <2>1. /\ c(k) \in Nat /\ c(k - 1) \in Nat
        /\ c(k) = c(k - 1) + (IF k \in S THEN 1 ELSE 0)
    BY UpTo
  <2> HIDE DEF c
  <2>2. CASE k \in S
    <3>1. c(k) * g = c(k - 1) * g + g
      BY <2>1, <2>2
    <3>2. PICK q \in Int : q = c(k - 1) * g
      BY <2>1
    <3> QED BY <1>1, <2>2, <3>1, <3>2
  <2>3. CASE k \notin S
    <3>1. a[k] = 0 /\ c(k) = c(k - 1)
      BY <2>1, <2>3
    <3> QED BY <1>1, <3>1
  <2> QED BY <2>2, <2>3
<1>2. c(0) = 0 /\ c(8) = Cardinality(S)
  <2>1. S \cap (1 .. 8) = S
    OBVIOUS
  <2>2. 1 .. 0 = {}
    OBVIOUS
  <2>3. S \cap (1 .. 0) = {}
    BY <2>2
  <2> QED BY <2>1, <2>3, FS_EmptySet
<1> HIDE DEF c
<1>3. 0 <= c(0) * g
  BY <1>2
<1> DEFINE P1 == 0 + a[1]  P2 == P1 + a[2]  P3 == P2 + a[3]  P4 == P3 + a[4]
           P5 == P4 + a[5]  P6 == P5 + a[6]  P7 == P6 + a[7]  P8 == P7 + a[8]
<1>4. P1 \in Int /\ P1 <= c(1) * g
  BY <1>1, <1>3
<1>5. P2 \in Int /\ P2 <= c(2) * g
  <2> HIDE DEF P1
  <2> QED BY <1>1, <1>4
<1>6. P3 \in Int /\ P3 <= c(3) * g
  <2> HIDE DEF P2
  <2> QED BY <1>1, <1>5
<1>7. P4 \in Int /\ P4 <= c(4) * g
  <2> HIDE DEF P3
  <2> QED BY <1>1, <1>6
<1>8. P5 \in Int /\ P5 <= c(5) * g
  <2> HIDE DEF P4
  <2> QED BY <1>1, <1>7
<1>9. P6 \in Int /\ P6 <= c(6) * g
  <2> HIDE DEF P5
  <2> QED BY <1>1, <1>8
<1>10. P7 \in Int /\ P7 <= c(7) * g
  <2> HIDE DEF P6
  <2> QED BY <1>1, <1>9
<1>11. P8 \in Int /\ P8 <= c(8) * g
  <2> HIDE DEF P7
  <2> QED BY <1>1, <1>10
<1>12. a[1] + a[2] + a[3] + a[4] + a[5] + a[6] + a[7] + a[8] = P8
  OBVIOUS
<1> HIDE DEF P8
<1> QED BY <1>2, <1>11, <1>12

(* Weights are of tiles and above zero. *)
WeightTypes ==
  /\ DOMAIN fertilityWeights \subseteq Tiles
  /\ \A t \in DOMAIN fertilityWeights : fertilityWeights[t] \in Nat

(* What a neighbour adds to a score is at most its own weight, and a point   *)
(* less after the first wave.                                               *)
LEMMA Terms ==
  ASSUME WeightTypes, NEW t, NEW i \in 1 .. 8
  PROVE  /\ weighted(t) \in SUBSET (1 .. 8)
         /\ term(t, i) \in Int
         /\ i \in weighted(t) => /\ fertilityWeights[adjacent(t, i)] \in Nat
                                 /\ term(t, i) <= fertilityWeights[adjacent(t, i)]
                                 /\ ~first => term(t, i) <=
                                                fertilityWeights[adjacent(t, i)] - 100
         /\ i \notin weighted(t) => term(t, i) = 0
<1>1. weighted(t) \in SUBSET (1 .. 8)
  BY DEF weighted, outside
<1>2. CASE i \in weighted(t)
  <2> DEFINE m == temperatureNegEffectMul(temperature[adjacent(t, i)])
             a == fertilityWeights[adjacent(t, i)]
  <2>1. a \in Nat
    BY <1>2 DEF weighted, WeightTypes
  <2>2. deg(i) \in {0, 1, 2} /\ (~first => deg(i) \in {1, 2})
    BY DEF deg
  <2>3. m \in {1, 3, 5}
    <3> DEFINE temp == temperature[adjacent(t, i)]
    <3>1. m = CASE temp = burning -> 5 [] temp = burning - 1 -> 3 [] OTHER -> 1
      BY DEF temperatureNegEffectMul
    <3> HIDE DEF temp
    <3>2. 6 # 6 - 1
      OBVIOUS
    <3> QED BY <3>1, <3>2 DEF burning
  <2>4. term(t, i) = a - 100 * deg(i) * m
    BY <1>2 DEF term
  <2> HIDE DEF a, m
  <2>5. 100 * deg(i) * m \in Nat /\ (~first => 100 * deg(i) * m >= 100)
    BY <2>2, <2>3
  <2> QED BY <1>1, <1>2, <2>1, <2>4, <2>5 DEF a
<1>3. CASE i \notin weighted(t)
  BY <1>1, <1>3 DEF term
<1> QED BY <1>2, <1>3

(* The mean of what the neighbours add is no more than the most one adds.    *)
LEMMA MeanScore ==
  ASSUME WeightTypes, NEW t, thrives(t)
  PROVE  /\ finalScore(t) \in Nat
         /\ \E i \in weighted(t) : finalScore(t) <= term(t, i)
<1> DEFINE S == weighted(t)
           n == Cardinality(S)
           a == [k \in 1 .. 8 |-> term(t, k)]
           f == finalScore(t)
<1>1. S \in SUBSET (1 .. 8) /\ \A k \in 1 .. 8 : a[k] \in Int
  BY Terms
<1>2. n \in Nat \ {0}
  <2>2. S # {}
    BY DEF thrives
  <2> HIDE DEF S
  <2>1. IsFiniteSet(S)
    <3>1. 1 \in 1 .. 8
      OBVIOUS
    <3> QED BY <1>1, <3>1, UpTo
  <2>3. Cardinality(S) \in Nat /\ Cardinality(S) # 0
    BY <2>1, <2>2, FS_CardinalityType, FS_EmptySet
  <2> QED BY <2>3
<1>3. score(t) = a[1] + a[2] + a[3] + a[4] + a[5] + a[6] + a[7] + a[8]
  BY DEF score
<1>4. score(t) \in Int /\ score(t) > 0
  <2>1. score(t) \in Int
    BY <1>1, <1>3
  <2> QED BY <2>1 DEF thrives
<1>5. f = score(t) \div n
  BY DEF finalScore
<1> HIDE DEF n, f, a
<1>6. PICK r \in 0 .. n - 1 : f \in Int /\ score(t) = f * n + r
  BY <1>2, <1>4, <1>5, DivMod
<1>7. f \in Nat
  <2>1. CASE f <= -1
    <3>1. f * n <= -n
      BY <1>2, <1>6, <2>1
    <3>2. PICK q \in Int : q = f * n
      BY <1>2, <1>6
    <3> QED BY <1>2, <1>4, <1>6, <3>1, <3>2
  <2> QED BY <1>6, <2>1
<1>8. ASSUME \A i \in S : ~(f <= term(t, i)) PROVE FALSE
  <2>1. PICK g \in Int : g = f - 1
    BY <1>6
  <2>2. \A k \in 1 .. 8 : IF k \in S THEN a[k] <= g ELSE a[k] = 0
    <3> SUFFICES ASSUME NEW k \in 1 .. 8 PROVE IF k \in S THEN a[k] <= g ELSE a[k] = 0
      OBVIOUS
    <3>1. a[k] = term(t, k)
      BY DEF a
    <3>2. term(t, k) \in Int
      BY Terms
    <3>3. CASE k \in S
      <4>1. ~(f <= term(t, k))
        BY <1>8, <3>3
      <4> QED BY <1>7, <2>1, <3>1, <3>2, <3>3, <4>1
    <3>4. CASE k \notin S
      BY <3>1, <3>4, Terms
    <3> QED BY <3>3, <3>4
  <2>3. score(t) <= n * g
    <3> HIDE DEF S
    <3> QED BY <1>1, <1>3, <2>1, <2>2, SumBound DEF n
  <2>4. n * g = f * n - n
    BY <1>2, <1>6, <2>1
  <2>5. PICK q \in Int : q = f * n
    BY <1>2, <1>6
  <2> QED BY <1>2, <1>4, <1>6, <2>3, <2>4, <2>5
<1> QED BY <1>7, <1>8 DEF f

(***************************************************************************)
(* Types                                                                   *)
(***************************************************************************)

USE DEF vars, terrainVars, worldVars, searchVars, waterVars, cliffVars, temperatureVars,
        environmentVars, gameVars

(* The ground every generator works on. *)
GroundTypes ==
  /\ elevation \in [Tiles -> Heights]
  /\ terrtype \in [Tiles -> TerrainTypes]

(* A pool that is searched for is one of poolCount. *)
PoolTypes ==
  /\ DOMAIN poolSizes \subseteq Tiles
  /\ \A t \in DOMAIN poolSizes : poolSizes[t] \in 1 .. worldWidth * worldWidth
  /\ pool \in 0 .. poolCount
  /\ searching \in BOOLEAN
  /\ searching => pool < poolCount
  /\ searchStack \in Seq(Tiles)
  /\ visited \subseteq Tiles
  /\ waterLevel \in Heights \cup {NoLevel}

(* The scan may be one past the last tile. *)
CliffTypes ==
  /\ scan \in 0 .. worldWidth * worldWidth
  /\ neighbour \in 1 .. 9
  /\ currentElevation \in Heights
  /\ ramps \in 0 .. MaxRamps

HeatTypes ==
  /\ temperature \in [Tiles -> Temperatures]
  /\ heated \in 0 .. worldWidth * worldWidth
  /\ equatorYPos \in Int

WaveTypes ==
  /\ WeightTypes
  /\ tilesToCheck \cup newWaveTiles \subseteq Tiles
  /\ toRemoveIndices \subseteq tilesToCheck

TypeInv ==
  GroundTypes /\ PoolTypes /\ CliffTypes /\ HeatTypes /\ WaveTypes /\ ObjectsInv

(* There is a tile. *)
LEMMA Area == worldWidth * worldWidth \in Nat \ {0}
<1>1. \A n \in Nat \ {0} : n * n \in Nat \ {0}
  OBVIOUS
<1> QED BY <1>1, TerrainAssumption

(* The world before anything is generated. *)
LEMMA InitTypes == Init => TypeInv
<1> SUFFICES ASSUME Init PROVE TypeInv
  OBVIOUS
<1>1. worldWidth * worldWidth \in Nat
  BY Area
<1>2. GroundTypes
  BY DEF Init, GroundTypes, Heights, TerrainTypes
<1>3. PoolTypes
  <2>1. NoWater
    BY DEF Init
  <2>2. searching \in BOOLEAN /\ (searching => pool < poolCount)
    BY <2>1, Zenon DEF NoWater
  <2>3. pool \in 0 .. poolCount /\ searchStack \in Seq(Tiles) /\ waterLevel \in {NoLevel}
    BY <2>1, WaterAssumption DEF NoWater
  <2>4. DOMAIN poolSizes = {} /\ visited = {}
    BY <2>1 DEF NoWater
  <2> QED BY <2>2, <2>3, <2>4 DEF PoolTypes
<1>4. CliffTypes
  BY <1>1, ElevationAssumption DEF Init, NoCliffs, CliffTypes, Heights
<1>5. HeatTypes
  BY <1>1 DEF Init, NoTemperature, HeatTypes, Temperatures
<1>6. WaveTypes
  BY DEF Init, NoEnvironment, WaveTypes, WeightTypes
<1>7. ObjectsInv
  <2>1. objects = <<>> /\ things = [t \in Tiles |-> Empty]
    BY DEF Init
  <2>2. Placed = {}
    BY <2>1 DEF Placed
  <2>3. Cardinality(Placed) = Len(objects)
    BY <2>1, <2>2, FS_EmptySet
  <2> QED BY <2>1, <2>3 DEF ObjectsInv
<1> QED BY <1>2, <1>3, <1>4, <1>5, <1>6, <1>7 DEF TypeInv

(* The steps of generate_world_waters. *)
LEMMA WatersTypes ==
  ASSUME TypeInv, StartInv, SizesInv, Waters
  PROVE  GroundTypes' /\ PoolTypes'
<1>1. stage = "waters"
  <2>1. CASE generate_world_waters
    BY <2>1 DEF generate_world_waters, generate_water_area, StartPool, Revisit, Leak,
                Spread, FillPool, Observing
  <2> QED BY <2>1 DEF Waters
<1>2. StartInv' /\ SearchTypes
  <2>1. SearchTypes
    BY <1>1 DEF StartInv, WaterInv
  <2> QED BY <2>1, WatersWater
<1>3. CASE stage' # "waters"
  <2>1. UNCHANGED <<elevation, terrtype, waterVars>>
    BY <1>1, <1>3 DEF Waters, generate_world_waters, generate_water_area, StartPool, Revisit,
                      Leak, Spread, FillPool, PoolDone
  <2> QED BY <2>1 DEF TypeInv, GroundTypes, PoolTypes
<1>4. CASE stage' = "waters"
  <2>1. SearchTypes' /\ generate_world_waters
    BY <1>2, <1>4 DEF StartInv, WaterInv, Waters
  <2>2. CASE FillPool
    <3>1. /\ poolSizes' = [t \in DOMAIN poolSizes \cup visited |->
                             IF t \in visited THEN Cardinality(visited) ELSE poolSizes[t]]
          /\ searching /\ searchStack = <<>>
          /\ pool' = pool + 1 /\ searching' = FALSE
      BY <2>2 DEF FillPool, Recorded, PoolDone
    <3>2. Found = visited
      <4>1. Range(searchStack) = {}
        BY <3>1 DEF Range
      <4> QED BY <4>1 DEF Found
    <3>3. visited # {} /\ visited \subseteq Tiles
      BY <1>1, <1>2, <3>1, <3>2 DEF SizesInv, Connected, SearchTypes
    <3>4. Cardinality(visited) \in 1 .. worldWidth * worldWidth
      <4>1. IsFiniteSet(visited) /\ Cardinality(visited) <= worldWidth * worldWidth
        BY <3>3, TilesFinite, FS_Subset
      <4>2. Cardinality(visited) \in Nat /\ Cardinality(visited) # 0
        BY <3>3, <4>1, FS_CardinalityType, FS_EmptySet
      <4>3. worldWidth * worldWidth \in Nat
        BY Area
      <4> QED BY <4>1, <4>2, <4>3
    <3>5. pool \in 0 .. poolCount /\ pool < poolCount
      BY <3>1 DEF TypeInv, PoolTypes
    <3>6. pool' \in 0 .. poolCount
      BY <3>1, <3>5, WaterAssumption
    <3>7. searching' \in BOOLEAN /\ ~searching'
      BY <3>1, Zenon
    <3>8. /\ DOMAIN poolSizes' \subseteq Tiles
          /\ \A t \in DOMAIN poolSizes' : poolSizes'[t] \in 1 .. worldWidth * worldWidth
      BY <3>1, <3>3, <3>4 DEF TypeInv, PoolTypes
    <3> QED BY <2>1, <3>6, <3>7, <3>8 DEF PoolTypes, SearchTypes, GroundTypes
  <2>3. CASE ~FillPool
    <3>1. UNCHANGED <<poolSizes, pool>>
      BY <2>1, <2>3 DEF generate_world_waters, generate_water_area, StartPool, Revisit, Leak,
                        Spread
    <3>2. searching' \in BOOLEAN /\ (searching' => pool' < poolCount)
      <4>1. CASE StartPool
        <5>1. searching' = TRUE /\ pool' < poolCount
          BY <4>1 DEF StartPool
        <5> QED BY <5>1, Zenon
      <4>2. CASE generate_water_area
        <5>1. searching' = searching
          BY <4>2 DEF generate_water_area, Revisit, Leak, Spread
        <5> QED BY <3>1, <5>1, Zenon DEF TypeInv, PoolTypes
      <4> QED BY <2>1, <2>3, <4>1, <4>2 DEF generate_world_waters
    <3> QED BY <2>1, <3>1, <3>2 DEF TypeInv, PoolTypes, SearchTypes, GroundTypes
  <2> QED BY <2>2, <2>3
<1> QED BY <1>3, <1>4

(* The tiles around are one step away. *)
LEMMA Offsets == \A k \in 1 .. 9 : radius[k][1] \in -1 .. 1 /\ radius[k][2] \in -1 .. 1
BY DEF radius

(* The two tiles of a comparison. *)
LEMMA TwoTiles ==
  ASSUME TypeInv, scan \in Indices
  PROVE  /\ tileAt(scan) \in Tiles
         /\ x2 \in Int /\ y2 \in Int
         /\ current \in Heights
         /\ cliffFound => /\ tileAt(index(x2, y2)) \in Tiles
                          /\ index(x2, y2) \in Indices
<1>1. tileAt(scan) \in Tiles
  BY TilesAndIndices
<1>2. tileAt(scan)[1] \in Int /\ tileAt(scan)[2] \in Int
  BY <1>1, TerrainAssumption DEF Tiles
<1>3. radius[neighbour][1] \in Int /\ radius[neighbour][2] \in Int
  BY Offsets DEF TypeInv, CliffTypes
<1>4. x2 \in Int /\ y2 \in Int
  BY <1>2, <1>3 DEF x2, y2
<1>5. current \in Heights
  BY <1>1 DEF current, TypeInv, CliffTypes, GroundTypes
<1> QED BY <1>1, <1>4, <1>5, TilesAndIndices DEF cliffFound

(* One comparison makes rock or dirt of two tiles, or nothing. *)
LEMMA CompareGround ==
  ASSUME TypeInv, Compare
  PROVE  /\ GroundTypes' /\ CliffTypes'
         /\ \A t \in Tiles : terrtype'[t] \in {terrtype[t], "rock", "dirt"}
<1>1. scan \in Indices
  BY DEF Compare
<1>2. /\ tileAt(scan) \in Tiles
      /\ x2 \in Int /\ y2 \in Int
      /\ current \in Heights
      /\ cliffFound => tileAt(index(x2, y2)) \in Tiles
  BY <1>1, TwoTiles
<1>3. GroundTypes
  BY DEF TypeInv
<1>4. ASSUME cliffFound, NEW type \in {"rock", "dirt"}
      PROVE  /\ both(type) \in [Tiles -> TerrainTypes]
             /\ \A t \in Tiles : both(type)[t] \in {terrtype[t], "rock", "dirt"}
  <2>1. both(type) \in [Tiles -> TerrainTypes]
    BY <1>3, <1>4 DEF both, GroundTypes, TerrainTypes
  <2>2. \A t \in Tiles : both(type)[t] = terrtype[t] \/ both(type)[t] = type
    BY <1>2, <1>3, <1>4 DEF both, GroundTypes
  <2> QED BY <2>1, <2>2
<1>5. GroundTypes' /\ \A t \in Tiles : terrtype'[t] \in {terrtype[t], "rock", "dirt"}
  <2>1. CASE Rock
    BY <1>3, <1>4, <2>1 DEF Rock, GroundTypes
  <2>2. CASE Ramp
    <3>1. cliffFound /\ terrtype' = both("dirt")
      BY <2>2 DEF Ramp
    <3>2. PICK rampWidth \in RampWidths : elevation' = create_ramp(elevation, x2, y2, rampWidth)
      BY <2>2 DEF Ramp
    <3>3. rampWidth \in Nat \ {0}
      BY ElevationAssumption
    <3>4. elevation' \in [Tiles -> Heights]
      BY <1>2, <1>3, <3>1, <3>2, <3>3, RampHeights DEF GroundTypes
    <3> QED BY <1>4, <3>1, <3>4 DEF GroundTypes
  <2>3. CASE NoCliff
    BY <1>3, <2>3 DEF NoCliff, GroundTypes
  <2> QED BY <2>1, <2>2, <2>3 DEF Compare
<1>6. CliffTypes'
  <2>1. neighbour' \in 1 .. 9
    BY DEF Compare, TypeInv, CliffTypes
  <2>2. scan' \in 0 .. worldWidth * worldWidth
    <3>1. PICK area \in Nat : area = worldWidth * worldWidth
      BY Area
    <3>2. scan \in 0 .. area - 1
      BY <1>1, <3>1 DEF Indices
    <3> QED BY <3>1, <3>2 DEF Compare
  <2>3. ramps' \in 0 .. MaxRamps
    BY ElevationAssumption DEF Compare, Rock, Ramp, NoCliff, TypeInv, CliffTypes
  <2> QED BY <1>2, <2>1, <2>2, <2>3 DEF CliffTypes, Compare
<1> QED BY <1>5, <1>6

LEMMA CliffsTypes ==
  ASSUME TypeInv, Cliffs
  PROVE  TypeInv'
<1>1. UNCHANGED <<waterVars, environmentVars, gameVars>>
  BY DEF Cliffs
<1>2. PoolTypes' /\ WaveTypes' /\ ObjectsInv'
  BY <1>1, KeepsObjects DEF TypeInv, PoolTypes, WaveTypes, WeightTypes
<1>3. CASE Compare /\ UNCHANGED <<stage, temperatureVars>>
  <2>1. HeatTypes'
    BY <1>3 DEF TypeInv, HeatTypes
  <2> QED BY <1>2, <1>3, <2>1, CompareGround DEF TypeInv
<1>4. CASE /\ equatorYPos' \in Equators
           /\ UNCHANGED <<elevation, terrtype, cliffVars, temperature, heated>>
  <2>2. HeatTypes'
    BY <1>4, TemperatureAssumption DEF TypeInv, HeatTypes
  <2>3. GroundTypes' /\ CliffTypes'
    BY <1>4 DEF TypeInv, GroundTypes, CliffTypes
  <2> QED BY <1>2, <2>2, <2>3 DEF TypeInv
<1> QED BY <1>3, <1>4 DEF Cliffs

(* Temperatures are on the scale. *)
LEMMA TemperatureScale ==
  ASSUME TypeInv, NEW t \in Tiles
  PROVE  totalTemperatureScore(t) \in Temperatures
<1>1. distFromEq(t) \in Nat
  <2>1. t[2] \in Int
    BY TerrainAssumption DEF Tiles
  <2> QED BY <2>1 DEF distFromEq, TypeInv, HeatTypes
<1> DEFINE dist == Min({distFromEq(t), 6 * 49})
           heat == burning - (6 * dist + 49 * elevation[t]) \div (2 * 6 * 49)
<1>2. dist \in Nat
  <2>1. {distFromEq(t), 6 * 49} \in SUBSET Nat /\ {distFromEq(t), 6 * 49} # {}
    BY <1>1
  <2> QED BY <2>1, MinOfNats
<1>3. elevation[t] \in Nat
  BY DEF TypeInv, GroundTypes, Heights
<1>4. heat \in Int /\ heat <= 6
  <2> HIDE DEF dist
  <2>1. 6 * dist + 49 * elevation[t] \in Nat
    BY <1>2, <1>3
  <2> QED BY <2>1 DEF burning
<1>5. totalTemperatureScore(t) = Max({heat, 0})
  BY DEF totalTemperatureScore
<1> HIDE DEF heat
<1>6. Max({heat, 0}) \in {heat, 0} /\ Max({heat, 0}) >= 0
  <2>1. \E h \in {heat, 0} : \A k \in {heat, 0} : h >= k
    BY <1>4
  <2> QED BY <2>1 DEF Max
<1> QED BY <1>4, <1>5, <1>6 DEF Temperatures

(* One tile's temperature; what burns may become a dune. *)
LEMMA HeatGround ==
  ASSUME TypeInv, generate_temperature_effect
  PROVE  /\ GroundTypes' /\ HeatTypes' /\ elevation' = elevation
         /\ \A t \in Tiles : \/ terrtype'[t] = terrtype[t]
                             \/ terrtype'[t] = "dunes" /\ terrtype[t] # "rock"
<1> DEFINE t == tileAt(heated)
<1>1. t \in Tiles
  BY TilesAndIndices DEF generate_temperature_effect
<1>2. /\ heated \in Indices /\ heated' = heated + 1
      /\ UNCHANGED <<elevation, equatorYPos>>
      /\ temperature' = [temperature EXCEPT ![t] = totalTemperatureScore(t)]
      /\ terrtype' = IF totalTemperatureScore(t) = burning /\ dries(t)
                     THEN [terrtype EXCEPT ![t] = "dunes"] ELSE terrtype
  BY DEF generate_temperature_effect
<1>3. totalTemperatureScore(t) \in Temperatures
  BY <1>1, TemperatureScale
<1>4. dries(t) => terrtype[t] # "rock"
  BY DEF dries
<1> HIDE DEF t
<1>5. HeatTypes'
  <2>1. heated' \in 0 .. worldWidth * worldWidth
    <3>1. PICK area \in Nat : area = worldWidth * worldWidth
      BY Area
    <3> QED BY <1>2, <3>1 DEF Indices
  <2>2. temperature' \in [Tiles -> Temperatures]
    BY <1>2, <1>3 DEF TypeInv, HeatTypes
  <2> QED BY <1>2, <2>1, <2>2 DEF TypeInv, HeatTypes
<1> QED BY <1>1, <1>2, <1>4, <1>5 DEF TypeInv, GroundTypes, TerrainTypes

LEMMA TemperatureTypes ==
  ASSUME TypeInv, Temperature
  PROVE  TypeInv'
<1>1. UNCHANGED <<waterVars, cliffVars, environmentVars, gameVars>>
  BY DEF Temperature
<1>2. PoolTypes' /\ CliffTypes' /\ WaveTypes' /\ ObjectsInv'
  BY <1>1, KeepsObjects DEF TypeInv, PoolTypes, CliffTypes, WaveTypes, WeightTypes
<1>3. CASE generate_temperature_effect
  BY <1>2, <1>3, HeatGround DEF TypeInv
<1>4. CASE ~generate_temperature_effect
  <2>1. UNCHANGED <<elevation, terrtype, temperatureVars>>
    BY <1>4 DEF Temperature
  <2> QED BY <1>2, <2>1 DEF TypeInv, GroundTypes, HeatTypes
<1> QED BY <1>3, <1>4

LEMMA EnvironmentTypes ==
  ASSUME TypeInv, Environment
  PROVE  TypeInv'
<1>1. /\ InitialWeights
      /\ UNCHANGED <<elevation, terrtype, waterVars, cliffVars, temperatureVars, gameVars>>
  BY DEF Environment
<1>2. GroundTypes' /\ PoolTypes' /\ CliffTypes' /\ HeatTypes' /\ ObjectsInv'
  BY <1>1, KeepsObjects DEF TypeInv, GroundTypes, PoolTypes, CliffTypes, HeatTypes
<1>3. WaveTypes'
  <2>1. /\ water \subseteq DOMAIN poolSizes /\ water \subseteq Tiles
        /\ fertilityWeights' = [t \in water |-> poolSizes[t] * poolMultiplier]
        /\ tilesToCheck' \subseteq Tiles /\ toRemoveIndices' = {} /\ newWaveTiles' = {}
    BY <1>1 DEF InitialWeights, water
  <2>2. ASSUME NEW t \in water PROVE poolSizes[t] * poolMultiplier \in Nat
    <3>1. poolSizes[t] \in Nat
      BY <2>1, Area DEF TypeInv, PoolTypes
    <3> QED BY <3>1, EnvironmentAssumption
  <2> QED BY <2>1, <2>2 DEF WaveTypes, WeightTypes
<1> QED BY <1>2, <1>3 DEF TypeInv

(* What the visit of a tile does: one that thrives gets its mean, ground    *)
(* turns fertile, and a plant may grow on it.                               *)
LEMMA VisitTypes ==
  ASSUME TypeInv, VisitTile
  PROVE  /\ WaveTypes' /\ ObjectsInv' /\ elevation' = elevation
         /\ \/ terrtype' = terrtype
            \/ \E t \in Tiles : /\ terrtype[t] \notin {"water", "rock"}
                               /\ terrtype' = [terrtype EXCEPT ![t] = "fertile"]
<1>1. PICK t \in tilesToCheck \ toRemoveIndices :
        \/ PassOver(t) /\ UNCHANGED <<terrtype, things, objects>>
        \/ /\ Fertilize(t)
           /\ \/ UNCHANGED <<terrtype, things, objects>>
              \/ /\ terrtype[t] \notin {"water", "rock"}
                 /\ terrtype' = [terrtype EXCEPT ![t] = "fertile"]
                 /\ UNCHANGED <<things, objects>> \/ Grow(t)
  BY DEF VisitTile
<1>2. t \in Tiles /\ WeightTypes /\ WaveTypes
  BY DEF TypeInv, WaveTypes
<1>3. WaveTypes'
  <2>1. CASE PassOver(t)
    BY <1>2, <2>1 DEF PassOver, WaveTypes, WeightTypes
  <2>2. CASE Fertilize(t)
    <3>1. finalScore(t) \in Nat
      BY <1>2, <2>2, MeanScore DEF Fertilize
    <3>2. potentialNewTiles(t) \subseteq Tiles
      BY AdjacentInWorld DEF potentialNewTiles
    <3>3. WeightTypes'
      BY <1>2, <2>2, <3>1 DEF Fertilize, WeightTypes
    <3>4. /\ tilesToCheck' = tilesToCheck
          /\ newWaveTiles' = newWaveTiles \cup potentialNewTiles(t)
          /\ toRemoveIndices' = toRemoveIndices \cup {t}
      BY <2>2 DEF Fertilize
    <3> QED BY <1>2, <3>2, <3>3, <3>4 DEF WaveTypes
  <2> QED BY <1>1, <2>1, <2>2
<1>4. ObjectsInv'
  <2>1. CASE UNCHANGED <<things, objects>>
    BY <2>1, KeepsObjects DEF TypeInv
  <2>2. CASE Grow(t)
    <3>1. CASE \E plant \in Plant(temperature[t]) : spawnObject(t, plant, accessFaction(Neutral))
      <4>1. PICK plant \in Plant(temperature[t]) : spawnObject(t, plant, accessFaction(Neutral))
        BY <3>1
      <4>2. temperature[t] \in Temperatures
        BY <1>2 DEF TypeInv, HeatTypes
      <4>3. plant \in Things
        BY <4>2 DEF Things, Plants
      <4>4. accessFaction(Neutral) \in {Neutral, NoFaction, LocalCopy}
        BY DEF accessFaction
      <4> QED BY <1>2, <4>1, <4>3, <4>4, SpawnedObjects DEF TypeInv
    <3>2. CASE Dies
      BY <3>2, KeepsObjects DEF Dies, TypeInv
    <3> QED BY <2>2, <3>1, <3>2 DEF Grow
  <2> QED BY <1>1, <2>1, <2>2
<1> QED BY <1>1, <1>2, <1>3, <1>4 DEF VisitTile

LEMMA OneWaveTypes ==
  ASSUME TypeInv, Waves
  PROVE  /\ WaveTypes' /\ GroundTypes' /\ ObjectsInv' /\ elevation' = elevation
         /\ \A t \in Tiles : \/ terrtype'[t] = terrtype[t]
                             \/ terrtype'[t] = "fertile" /\ terrtype[t] \notin {"water", "rock"}
<1>1. CASE VisitTile
  <2>1. /\ WaveTypes' /\ ObjectsInv' /\ elevation' = elevation
        /\ \/ terrtype' = terrtype
           \/ \E t \in Tiles : /\ terrtype[t] \notin {"water", "rock"}
                              /\ terrtype' = [terrtype EXCEPT ![t] = "fertile"]
    BY <1>1, VisitTypes
  <2>2. terrtype \in [Tiles -> TerrainTypes] /\ elevation \in [Tiles -> Heights]
    BY DEF TypeInv, GroundTypes
  <2>3. terrtype' \in [Tiles -> TerrainTypes]
    BY <2>1, <2>2 DEF TerrainTypes
  <2> QED BY <2>1, <2>2, <2>3 DEF GroundTypes
<1>2. CASE NextWave
  <2>1. /\ WaveDone
        /\ UNCHANGED <<elevation, terrtype, things, objects>>
    BY <1>2 DEF NextWave
  <2>2. WaveTypes'
    BY <2>1 DEF WaveDone, TypeInv, WaveTypes, WeightTypes
  <2> QED BY <2>1, <2>2, KeepsObjects DEF TypeInv, GroundTypes
<1> QED BY <1>1, <1>2 DEF Waves

LEMMA WavesTypes ==
  ASSUME TypeInv, Waves
  PROVE  TypeInv'
<1>1. UNCHANGED <<elevation, waterVars, cliffVars, temperatureVars, library, factions, attempts>>
  BY DEF Waves, VisitTile, NextWave
<1>2. PoolTypes' /\ CliffTypes' /\ HeatTypes'
  BY <1>1 DEF TypeInv, PoolTypes, CliffTypes, HeatTypes
<1> QED BY <1>2, OneWaveTypes DEF TypeInv

LEMMA SpawnUnitsTypes ==
  ASSUME TypeInv, SpawnUnits
  PROVE  TypeInv'
<1>1. UNCHANGED <<elevation, terrtype, waterVars, cliffVars, temperatureVars, environmentVars>>
  BY DEF SpawnUnits
<1>2. GroundTypes' /\ PoolTypes' /\ CliffTypes' /\ HeatTypes' /\ WaveTypes'
  BY <1>1 DEF TypeInv, GroundTypes, PoolTypes, CliffTypes, HeatTypes, WaveTypes, WeightTypes
<1>3. PICK t \in Tiles : spawnObject(t, Unit, LocalCopy) \/ Dies
  BY DEF SpawnUnits
<1>4. CASE spawnObject(t, Unit, LocalCopy)
  <2>1. Unit \in Things
    BY DEF Things
  <2>2. ObjectsInv'
    BY <1>4, <2>1, SpawnedObjects DEF TypeInv
  <2> QED BY <1>2, <2>2 DEF TypeInv
<1>5. CASE Dies
  BY <1>2, <1>5, KeepsObjects DEF TypeInv, Dies
<1> QED BY <1>3, <1>4, <1>5

LEMMA TypesStep ==
  ASSUME TypeInv, StartInv, SizesInv, [Next]_vars
  PROVE  TypeInv'
<1>1. CASE Elevate
  <2>1. /\ elevation' \in [Tiles -> Levels]
        /\ UNCHANGED <<terrtype, waterVars, cliffVars, temperatureVars, environmentVars, gameVars>>
    BY <1>1, ElevationAssumption DEF Elevate, generate_world_elevation
  <2>2. Levels \subseteq Heights
    BY DEF Levels, Heights
  <2> QED BY <2>1, <2>2, KeepsObjects DEF TypeInv, GroundTypes, PoolTypes, CliffTypes,
                                          HeatTypes, WaveTypes, WeightTypes
<1>2. CASE Waters
  <2>1. UNCHANGED <<cliffVars, temperatureVars, environmentVars, gameVars>>
    BY <1>2 DEF Waters
  <2>2. CliffTypes' /\ HeatTypes' /\ WaveTypes' /\ ObjectsInv'
    BY <2>1, KeepsObjects DEF TypeInv, CliffTypes, HeatTypes, WaveTypes, WeightTypes
  <2> QED BY <1>2, <2>2, WatersTypes DEF TypeInv
<1>3. CASE LoadLibrary \/ WavesEnd \/ LoadFactions \/ Started \/ UNCHANGED vars
  <2>1. /\ UNCHANGED <<elevation, terrtype, waterVars, cliffVars, temperatureVars, environmentVars>>
        /\ UNCHANGED <<objects, things>>
    BY <1>3 DEF LoadLibrary, WavesEnd, LoadFactions, Started, vars
  <2> QED BY <2>1, KeepsObjects DEF TypeInv, GroundTypes, PoolTypes, CliffTypes,
                                    HeatTypes, WaveTypes, WeightTypes
<1> QED BY <1>1, <1>2, <1>3, CliffsTypes, TemperatureTypes, EnvironmentTypes, WavesTypes,
           SpawnUnitsTypes DEF Next

LEMMA TypeInvariant == Spec => []TypeInv
<1>1. TypeInv /\ StartInv /\ SizesInv /\ [Next]_vars => TypeInv'
  BY TypesStep
<1> QED BY <1>1, InitTypes, StartInvariant, SizesInvariant, PTL DEF Spec

(* No generator leaves the ranges of its data: a ramp's heights are unsigned *)
(* and never wrap, wherever it is cut and whatever is around it.             *)
THEOREM StartTyped == Spec => []StartTypeOK
<1>1. TypeInv => StartTypeOK
  <2> SUFFICES ASSUME TypeInv PROVE StartTypeOK
    OBVIOUS
  <2>1. WaterTypeOK
    BY DEF TypeInv, GroundTypes, PoolTypes, WaterTypeOK
  <2>2. things \in [Tiles -> {Empty, Unit} \cup Plants]
    BY DEF TypeInv, ObjectsInv, Things
  <2>3. \A i \in DOMAIN objects : objects[i].tile \in Tiles
    <3> SUFFICES ASSUME NEW i \in DOMAIN objects PROVE objects[i].tile \in Tiles
      OBVIOUS
    <3>1. objects \in Seq(Records)
      BY DEF TypeInv, ObjectsInv
    <3>2. objects[i] \in Records
      BY <3>1
    <3> QED BY <3>2 DEF Records
  <2> QED BY <2>1, <2>2, <2>3 DEF TypeInv, CliffTypes, HeatTypes, WaveTypes, WeightTypes,
                                  StartTypeOK
<1> QED BY <1>1, TypeInvariant, PTL

(* Every object the world starts with stands on a tile of its own that shows *)
(* it, and no other tile shows anything: neither plants nor units are put on *)
(* what is taken.                                                            *)
THEOREM ObjectsHaveTiles == Spec => []ObjectsOnTheirTiles
<1>1. TypeInv => ObjectsOnTheirTiles
  BY DEF TypeInv, ObjectsInv, Placed, ObjectsOnTheirTiles
<1> QED BY <1>1, TypeInvariant, PTL

(***************************************************************************)
(* The sizes of pools                                                      *)
(***************************************************************************)

Pooled ==
  stage \in {"cliffs", "temperature", "environment", "waves"} => water \subseteq DOMAIN poolSizes

(* No water comes from what makes something else of the ground. *)
LEMMA KeepsPooled ==
  ASSUME water \subseteq DOMAIN poolSizes, poolSizes' = poolSizes,
         \A t \in Tiles : terrtype'[t] = "water" => terrtype[t] = "water"
  PROVE  (water \subseteq DOMAIN poolSizes)'
BY DEF water

LEMMA PooledStep ==
  ASSUME TypeInv, SizesInv, Pooled, [Next]_vars
  PROVE  Pooled'
<1>1. CASE Waters
  <2>1. CASE generate_world_waters
    <3>1. stage' = "waters"
      BY <2>1 DEF generate_world_waters, generate_water_area, StartPool, Revisit, Leak,
                  Spread, FillPool, Observing, PoolDone
    <3> QED BY <3>1 DEF Pooled
  <2>2. CASE stage = "waters" /\ UNCHANGED <<elevation, terrtype, waterVars>>
    <3>1. water \subseteq DOMAIN poolSizes
      BY <2>2 DEF SizesInv, Sized
    <3> QED BY <2>2, <3>1, KeepsPooled DEF Pooled
  <2> QED BY <1>1, <2>1, <2>2 DEF Waters
<1>2. CASE Cliffs
  <2>1. stage = "cliffs" /\ poolSizes' = poolSizes
    BY <1>2 DEF Cliffs
  <2>2. \A t \in Tiles : terrtype'[t] \in {terrtype[t], "rock", "dirt"}
    BY <1>2, CompareGround DEF Cliffs
  <2> QED BY <2>1, <2>2, KeepsPooled DEF Pooled
<1>3. CASE Temperature
  <2>1. stage = "temperature" /\ poolSizes' = poolSizes
    BY <1>3 DEF Temperature
  <2>2. \A t \in Tiles : terrtype'[t] \in {terrtype[t], "dunes"}
    BY <1>3, HeatGround DEF Temperature
  <2> QED BY <2>1, <2>2, KeepsPooled DEF Pooled
<1>4. CASE Environment
  <2>1. stage = "environment" /\ UNCHANGED <<terrtype, poolSizes>>
    BY <1>4 DEF Environment
  <2> QED BY <2>1, KeepsPooled DEF Pooled
<1>5. CASE Waves
  <2>1. stage = "waves" /\ poolSizes' = poolSizes
    BY <1>5 DEF Waves, VisitTile, NextWave
  <2>2. \A t \in Tiles : terrtype'[t] \in {terrtype[t], "fertile"}
    BY <1>5, OneWaveTypes
  <2> QED BY <2>1, <2>2, KeepsPooled DEF Pooled
<1>6. CASE LoadLibrary \/ Elevate \/ WavesEnd \/ LoadFactions \/ SpawnUnits \/ Started
  <2>1. stage' \notin {"cliffs", "temperature", "environment", "waves"}
    BY <1>6 DEF LoadLibrary, Elevate, WavesEnd, LoadFactions, SpawnUnits, Dies, Started
  <2> QED BY <2>1 DEF Pooled
<1>7. CASE UNCHANGED vars
  BY <1>7, KeepsPooled DEF vars, Pooled
<1> QED BY <1>1, <1>2, <1>3, <1>4, <1>5, <1>6, <1>7 DEF Next

(* at() never throws: when the environment is generated every tile of water  *)
(* has the size of a pool, whatever cliffs and dunes made of the ground.     *)
THEOREM PoolsStayKnown == Spec => []PoolsKnown
<1>1. Init => Pooled
  BY DEF Init, Pooled
<1>2. TypeInv /\ SizesInv /\ Pooled /\ [Next]_vars => Pooled'
  BY PooledStep
<1>3. Pooled => PoolsKnown
  BY DEF Pooled, PoolsKnown
<1> QED BY <1>1, <1>2, <1>3, TypeInvariant, SizesInvariant, PTL DEF Spec

(***************************************************************************)
(* Rock                                                                    *)
(***************************************************************************)

(* The tile compared with t in the k-th place, and what the comparison       *)
(* finds.                                                                    *)
placeIndex(t, k) == index(t[1] + radius[k][1], t[2] + radius[k][2])
place(t, k) == tileAt(placeIndex(t, k))

Cliff(t, k) ==
  placeIndex(t, k) \in Indices /\ elevation[place(t, k)] - elevation[t] >= cliffThreshold

Compared(t, k) ==
  index(t[1], t[2]) < scan \/ (index(t[1], t[2]) = scan /\ k < neighbour)

(* The rock there is comes from the comparisons made so far. *)
RockSoFar ==
  \A s \in Tiles :
    terrtype[s] = "rock" <=>
      \E t \in Tiles, k \in 1 .. 9 : Compared(t, k) /\ Cliff(t, k) /\ s \in {t, place(t, k)}

(* Rock is where RockAtCliffs says. *)
RockThere ==
  \A s \in Tiles :
    terrtype[s] = "rock" <=>
      \E t \in Tiles : /\ IndexAdjacent(s, t) \/ IndexAdjacent(t, s)
                       /\ \/ elevation[t] - elevation[s] >= cliffThreshold
                          \/ elevation[s] - elevation[t] >= cliffThreshold

NoRock ==
  /\ \A s \in Tiles : terrtype[s] # "rock"
  /\ scan = 0 /\ neighbour = 1

(* Read before the first comparison of a visit, which may be lowered since   *)
(* by a ramp only.                                                           *)
CurrentKnown == neighbour > 1 => currentElevation = elevation[tileAt(scan)]

RockInv ==
  /\ stage \in {"library", "elevation", "waters"} => NoRock
  /\ stage = "cliffs" /\ ramps = 0 => CurrentKnown /\ RockSoFar
  /\ stage \in {"temperature", "environment", "waves"} /\ ramps = 0 => RockThere

(* Each offset has its opposite, so being adjacent by index is mutual. *)
LEMMA IndexAdjacentSymmetric ==
  ASSUME NEW s \in Tiles, NEW t \in Tiles, IndexAdjacent(s, t)
  PROVE  IndexAdjacent(t, s)
<1>1. PICK k \in 1 .. 9 : index(s[1] + radius[k][1], s[2] + radius[k][2]) = index(t[1], t[2])
  BY DEF IndexAdjacent
<1>2. /\ 10 - k \in 1 .. 9
      /\ radius[k][1] \in Int /\ radius[k][2] \in Int
      /\ radius[10 - k][1] = -radius[k][1] /\ radius[10 - k][2] = -radius[k][2]
  BY DEF radius
<1>3. PICK p \in Int, q \in Int : p = radius[k][1] /\ q = radius[k][2]
  BY <1>2
<1>4. PICK a \in Int, b \in Int, c \in Int, d \in Int : s = <<a, b>> /\ t = <<c, d>>
  BY TerrainAssumption DEF Tiles
<1>5. \A m, n, w \in Int : (m + n) * w = m * w + n * w /\ (m - n) * w = m * w - n * w
  OBVIOUS
<1>6. worldWidth \in Int
  BY TerrainAssumption
<1>7. a + p + (b + q) * worldWidth = c + d * worldWidth
  BY <1>1, <1>3, <1>4 DEF index
<1>8. PICK bw \in Int, qw \in Int, dw \in Int :
        bw = b * worldWidth /\ qw = q * worldWidth /\ dw = d * worldWidth
  BY <1>6
<1>9. (b + q) * worldWidth = bw + qw /\ (d - q) * worldWidth = dw - qw
  BY <1>5, <1>6, <1>8
<1>10. (c - p) + (d - q) * worldWidth = a + b * worldWidth
  BY <1>7, <1>8, <1>9
<1>11. index(t[1] + radius[10 - k][1], t[2] + radius[10 - k][2]) = index(s[1], s[2])
  <2>1. c + radius[10 - k][1] = c - p /\ d + radius[10 - k][2] = d - q
    BY <1>2, <1>3
  <2> QED BY <1>4, <1>10, <2>1 DEF index
<1> QED BY <1>2, <1>11 DEF IndexAdjacent

(* One comparison without a ramp makes rock of the two tiles of a cliff.     *)
LEMMA CompareRock ==
  ASSUME TypeInv, CurrentKnown, RockSoFar, Compare, ramps' = 0
  PROVE  CurrentKnown' /\ RockSoFar'
<1> DEFINE v == tileAt(scan)
<1>1. /\ scan \in Indices /\ v \in Tiles /\ index(v[1], v[2]) = scan
      /\ scan \in Int /\ neighbour \in 1 .. 9
  BY TilesAndIndices, Area DEF Compare, TypeInv, CliffTypes, Indices
<1>2. ~Ramp
  BY DEF Ramp, TypeInv, CliffTypes
<1>3. /\ elevation' = elevation
      /\ Rock \/ NoCliff
  BY <1>2 DEF Compare, Rock, NoCliff
<1>4. current = elevation[v]
  BY <1>1 DEF current, CurrentKnown
<1>5. index(x2, y2) = placeIndex(v, neighbour) /\ tileAt(index(x2, y2)) = place(v, neighbour)
  BY DEF x2, y2, placeIndex, place
<1>6. cliffFound <=> Cliff(v, neighbour)
  BY <1>4, <1>5 DEF cliffFound, Cliff
<1>7. CurrentKnown'
  BY <1>1, <1>3, <1>4 DEF Compare, CurrentKnown
<1>8. ASSUME NEW t \in Tiles, NEW k \in 1 .. 9
      PROVE  Cliff(t, k)' <=> Cliff(t, k)
  BY <1>3 DEF Cliff, place, placeIndex
<1>9. ASSUME NEW t \in Tiles, NEW k \in 1 .. 9
      PROVE  Compared(t, k)' <=> Compared(t, k) \/ (t = v /\ k = neighbour)
  <2>1. PICK i \in Int : i = index(t[1], t[2])
    BY TilesAndIndices, Area DEF Indices
  <2>2. i = scan <=> t = v
    BY <1>1, <2>1, TilesAndIndices
  <2>3. scan' = (IF neighbour = 9 THEN scan + 1 ELSE scan)
        /\ neighbour' = (IF neighbour = 9 THEN 1 ELSE neighbour + 1)
    BY DEF Compare
  <2>4. Compared(t, k) <=> i < scan \/ (i = scan /\ k < neighbour)
    BY <2>1 DEF Compared
  <2>5. Compared(t, k)' <=> i < scan' \/ (i = scan' /\ k < neighbour')
    BY <2>1 DEF Compared
  <2> HIDE DEF v
  <2> QED BY <1>1, <2>1, <2>2, <2>3, <2>4, <2>5
<1>10. ASSUME NEW s \in Tiles
       PROVE  terrtype'[s] = "rock" <=>
                terrtype[s] = "rock" \/ (Cliff(v, neighbour) /\ s \in {v, place(v, neighbour)})
  <2>1. CASE Rock
    <3>1. Cliff(v, neighbour) /\ place(v, neighbour) \in Tiles
      BY <1>1, <1>5, <1>6, <2>1, TwoTiles DEF Rock
    <3>2. terrtype' = [terrtype EXCEPT ![v] = "rock", ![place(v, neighbour)] = "rock"]
      BY <1>5, <2>1 DEF Rock, both
    <3>3. terrtype \in [Tiles -> TerrainTypes]
      BY DEF TypeInv, GroundTypes
    <3> HIDE DEF v
    <3> QED BY <1>1, <3>1, <3>2, <3>3
  <2>2. CASE NoCliff
    BY <1>6, <2>2 DEF NoCliff
  <2> QED BY <1>3, <2>1, <2>2
<1> HIDE DEF v
<1>11. RockSoFar'
  <2> SUFFICES ASSUME NEW s \in Tiles
               PROVE  terrtype'[s] = "rock" <=>
                        \E t \in Tiles, k \in 1 .. 9 :
                          Compared(t, k)' /\ Cliff(t, k)' /\ s \in {t, place(t, k)}
    BY DEF RockSoFar, place, placeIndex
  <2>1. terrtype[s] = "rock" <=>
          \E t \in Tiles, k \in 1 .. 9 : Compared(t, k) /\ Cliff(t, k) /\ s \in {t, place(t, k)}
    BY DEF RockSoFar
  <2> QED BY <1>1, <1>8, <1>9, <1>10, <2>1
<1> QED BY <1>7, <1>11

(* When every tile has been compared with all around it, the rock is there.  *)
LEMMA RockAtLast ==
  ASSUME TypeInv, RockSoFar, scan \notin Indices
  PROVE  RockThere
<1>1. ASSUME NEW t \in Tiles, NEW k \in 1 .. 9
      PROVE  Compared(t, k)
  <2>1. PICK area \in Nat : area = worldWidth * worldWidth
    BY Area
  <2>2. index(t[1], t[2]) \in 0 .. area - 1 /\ scan \in 0 .. area /\ scan \notin 0 .. area - 1
    BY <2>1, TilesAndIndices DEF Indices, TypeInv, CliffTypes
  <2> QED BY <2>1, <2>2 DEF Compared
<1>2. ASSUME NEW s \in Tiles, NEW t \in Tiles
      PROVE  IndexAdjacent(s, t) <=> \E k \in 1 .. 9 : placeIndex(s, k) \in Indices /\ place(s, k) = t
  BY TilesAndIndices DEF IndexAdjacent, place, placeIndex
<1>3. ASSUME NEW s \in Tiles, NEW t \in Tiles
      PROVE  IndexAdjacent(s, t) /\ elevation[t] - elevation[s] >= cliffThreshold
               <=> \E k \in 1 .. 9 : Cliff(s, k) /\ place(s, k) = t
  BY <1>2 DEF Cliff
<1>4. \A t \in Tiles, k \in 1 .. 9 : Cliff(t, k) => place(t, k) \in Tiles
  BY TilesAndIndices DEF Cliff, place
<1> SUFFICES ASSUME NEW s \in Tiles
             PROVE  terrtype[s] = "rock" <=>
                      \E t \in Tiles : /\ IndexAdjacent(s, t) \/ IndexAdjacent(t, s)
                                       /\ \/ elevation[t] - elevation[s] >= cliffThreshold
                                          \/ elevation[s] - elevation[t] >= cliffThreshold
  BY DEF RockThere
<1>5. terrtype[s] = "rock" <=>
        \E t \in Tiles : \/ \E k \in 1 .. 9 : Cliff(s, k) /\ place(s, k) = t
                         \/ \E k \in 1 .. 9 : Cliff(t, k) /\ place(t, k) = s
  BY <1>1, <1>4 DEF RockSoFar
<1> QED BY <1>3, <1>5, IndexAdjacentSymmetric

(* What keeps the heights and the rock keeps the rock where it belongs.      *)
LEMMA KeepsRock ==
  ASSUME RockThere, elevation' = elevation,
         \A s \in Tiles : terrtype'[s] = "rock" <=> terrtype[s] = "rock"
  PROVE  RockThere'
BY DEF RockThere, IndexAdjacent

LEMMA RockStep ==
  ASSUME TypeInv, RockInv, [Next]_vars
  PROVE  RockInv'
<1>1. CASE LoadLibrary \/ Elevate
  BY <1>1 DEF LoadLibrary, Elevate, generate_world_elevation, RockInv, NoRock
<1>2. CASE Waters
  <2>1. stage = "waters" /\ UNCHANGED cliffVars
    BY <1>2 DEF Waters, generate_world_waters, generate_water_area, StartPool, Revisit, Leak,
                Spread, FillPool, Observing
  <2>2. \A s \in Tiles : terrtype'[s] \in {terrtype[s], "water"}
    BY <1>2 DEF Waters, generate_world_waters, generate_water_area, StartPool, Revisit, Leak,
                Spread, FillPool, Flooded
  <2>3. stage' \in {"waters", "cliffs"}
    BY <1>2, <2>1 DEF Waters, generate_world_waters, generate_water_area, StartPool, Revisit, Leak,
                Spread, FillPool, PoolDone
  <2>4. NoRock'
    BY <2>1, <2>2 DEF RockInv, NoRock
  <2>5. NoRock' => CurrentKnown' /\ RockSoFar'
    <3> SUFFICES ASSUME NoRock' PROVE \A t \in Tiles, k \in 1 .. 9 : ~Compared(t, k)'
      BY DEF NoRock, CurrentKnown, RockSoFar
    <3> SUFFICES ASSUME NEW t \in Tiles, NEW k \in 1 .. 9 PROVE ~Compared(t, k)'
      OBVIOUS
    <3>1. index(t[1], t[2]) \in Nat
      BY TilesAndIndices DEF Indices
    <3> QED BY <3>1 DEF NoRock, Compared
  <2> QED BY <2>3, <2>4, <2>5 DEF RockInv
<1>3. CASE Cliffs
  <2>1. stage = "cliffs"
    BY <1>3 DEF Cliffs
  <2>2. CASE Compare /\ stage' = stage
    <3>1. ramps' = 0 => ramps = 0
      BY <2>2 DEF Compare, Rock, Ramp, NoCliff, TypeInv, CliffTypes
    <3> QED BY <2>1, <2>2, <3>1, CompareRock DEF RockInv
  <2>3. CASE scan \notin Indices /\ stage' = "temperature" /\ UNCHANGED <<elevation, terrtype, cliffVars>>
    <3>1. ramps = 0 => RockThere
      BY <2>1, <2>3, RockAtLast DEF RockInv
    <3> QED BY <2>3, <3>1, KeepsRock DEF RockInv
  <2> QED BY <1>3, <2>2, <2>3 DEF Cliffs
<1>4. CASE Temperature
  <2>1. /\ stage = "temperature" /\ stage' \in {"temperature", "environment"}
        /\ ramps' = ramps
    BY <1>4 DEF Temperature
  <2>2. elevation' = elevation /\ \A s \in Tiles : terrtype'[s] = "rock" <=> terrtype[s] = "rock"
    <3>1. CASE generate_temperature_effect
      BY <3>1, HeatGround
    <3> QED BY <1>4, <3>1 DEF Temperature
  <2> QED BY <2>1, <2>2, KeepsRock DEF RockInv
<1>5. CASE Environment
  <2>1. /\ stage = "environment" /\ stage' = "waves"
        /\ UNCHANGED <<elevation, terrtype, ramps>>
    BY <1>5 DEF Environment
  <2> QED BY <2>1, KeepsRock DEF RockInv
<1>6. CASE Waves
  <2>1. stage = "waves" /\ stage' \in {"waves", "dead"} /\ ramps' = ramps
    BY <1>6 DEF Waves, VisitTile, Grow, NextWave, Dies
  <2>2. elevation' = elevation /\ \A s \in Tiles : terrtype'[s] = "rock" <=> terrtype[s] = "rock"
    BY <1>6, OneWaveTypes
  <2> QED BY <2>1, <2>2, KeepsRock DEF RockInv
<1>7. CASE WavesEnd \/ LoadFactions \/ SpawnUnits \/ Started
  <2>1. stage' \in {"factions", "units", "running", "dead"}
    BY <1>7 DEF WavesEnd, LoadFactions, SpawnUnits, Started, Dies
  <2> QED BY <2>1 DEF RockInv
<1>8. CASE UNCHANGED vars
  BY <1>8 DEF vars, RockInv, NoRock, CurrentKnown, RockSoFar, Compared, Cliff, place, placeIndex,
              RockThere, IndexAdjacent
<1> QED BY <1>1, <1>2, <1>3, <1>4, <1>5, <1>6, <1>7, <1>8 DEF Next

(* Without ramps the rock is at the cliffs and nowhere else, for worlds of   *)
(* every size and heights of every kind: comparing in one direction only and *)
(* turning tiles one by one leaves out no pair, and dunes and fertile ground *)
(* do not cover it.                                                          *)
THEOREM RockWhereCliffs == Spec => []RockAtCliffs
<1>1. Init => RockInv
  BY DEF Init, NoCliffs, RockInv, NoRock
<1>2. TypeInv /\ RockInv /\ [Next]_vars => RockInv'
  BY RockStep
<1>3. RockInv => RockAtCliffs
  BY DEF RockInv, RockThere, RockAtCliffs
<1> QED BY <1>1, <1>2, <1>3, TypeInvariant, PTL DEF Spec

(***************************************************************************)
(* Waves                                                                   *)
(***************************************************************************)

(* The tiles of a wave still to visit have no weight, nor have those of the *)
(* next, which are outside of this one and found by a tile that thrived.    *)
WaveInv ==
  stage = "waves" =>
    /\ (tilesToCheck \ toRemoveIndices) \cap DOMAIN fertilityWeights = {}
    /\ newWaveTiles \cap tilesToCheck = {}
    /\ newWaveTiles \cap DOMAIN fertilityWeights = {}
    /\ newWaveTiles # {} => tilesToCheck \cap DOMAIN fertilityWeights # {}

(* What a visit does to the wave and the weights. *)
LEMMA OneVisit ==
  ASSUME stage = "waves", WaveInv, VisitTile
  PROVE  \E t \in tilesToCheck \ toRemoveIndices :
           /\ toRemoveIndices' = toRemoveIndices \cup {t}
           /\ t \notin DOMAIN fertilityWeights
           /\ \A s \in DOMAIN fertilityWeights : fertilityWeights'[s] = fertilityWeights[s]
           /\ UNCHANGED <<tilesToCheck, first, temperature>>
           /\ \/ /\ ~thrives(t)
                 /\ UNCHANGED <<fertilityWeights, newWaveTiles>>
              \/ /\ thrives(t)
                 /\ DOMAIN fertilityWeights' = DOMAIN fertilityWeights \cup {t}
                 /\ fertilityWeights'[t] = finalScore(t)
                 /\ newWaveTiles' = newWaveTiles \cup potentialNewTiles(t)
<1>1. PICK t \in tilesToCheck \ toRemoveIndices : PassOver(t) \/ Fertilize(t)
  BY DEF VisitTile
<1>2. t \notin DOMAIN fertilityWeights
  BY DEF WaveInv
<1>3. temperature' = temperature
  BY DEF VisitTile
<1>4. CASE PassOver(t)
  BY <1>2, <1>3, <1>4 DEF PassOver
<1>5. CASE Fertilize(t)
  BY <1>2, <1>3, <1>5 DEF Fertilize
<1> QED BY <1>1, <1>4, <1>5

(* What a wave finds for the next is outside of it and has no weight. *)
LEMMA NewTiles ==
  ASSUME NEW t
  PROVE  /\ potentialNewTiles(t) \cap tilesToCheck = {}
         /\ potentialNewTiles(t) \cap DOMAIN fertilityWeights = {}
BY DEF potentialNewTiles, outside, adjacent

LEMMA VisitWave ==
  ASSUME stage = "waves", WaveInv, VisitTile
  PROVE  WaveInv'
<1>1. PICK t \in tilesToCheck \ toRemoveIndices :
        /\ toRemoveIndices' = toRemoveIndices \cup {t}
        /\ t \notin DOMAIN fertilityWeights
        /\ UNCHANGED tilesToCheck
        /\ \/ UNCHANGED <<fertilityWeights, newWaveTiles>>
           \/ /\ DOMAIN fertilityWeights' = DOMAIN fertilityWeights \cup {t}
              /\ newWaveTiles' = newWaveTiles \cup potentialNewTiles(t)
  BY OneVisit
<1>2. /\ (tilesToCheck \ toRemoveIndices) \cap DOMAIN fertilityWeights = {}
      /\ newWaveTiles \cap tilesToCheck = {}
      /\ newWaveTiles \cap DOMAIN fertilityWeights = {}
      /\ newWaveTiles # {} => tilesToCheck \cap DOMAIN fertilityWeights # {}
  BY DEF WaveInv
<1>3. CASE UNCHANGED <<fertilityWeights, newWaveTiles>>
  BY <1>1, <1>2, <1>3 DEF WaveInv
<1>4. CASE /\ DOMAIN fertilityWeights' = DOMAIN fertilityWeights \cup {t}
           /\ newWaveTiles' = newWaveTiles \cup potentialNewTiles(t)
  <2>1. t \notin newWaveTiles /\ t \notin potentialNewTiles(t)
    BY <1>2, NewTiles
  <2> QED BY <1>1, <1>2, <1>4, <2>1, NewTiles DEF WaveInv
<1> QED BY <1>1, <1>3, <1>4

(* A wave that ends: the next one is what it found. *)
LEMMA WaveEnds ==
  ASSUME stage = "waves", WaveInv, NextWave
  PROVE  /\ WaveInv'
         /\ tilesToCheck' = newWaveTiles
         /\ fertilityWeights' = fertilityWeights
<1>1. /\ toRemoveIndices = tilesToCheck
      /\ tilesToCheck' = (tilesToCheck \cup newWaveTiles) \ toRemoveIndices
      /\ toRemoveIndices' = {} /\ newWaveTiles' = {}
      /\ fertilityWeights' = fertilityWeights
  BY DEF NextWave, WaveDone
<1>2. /\ newWaveTiles \cap tilesToCheck = {}
      /\ newWaveTiles \cap DOMAIN fertilityWeights = {}
  BY DEF WaveInv
<1> QED BY <1>1, <1>2 DEF WaveInv

(* The first wave is around the water, and only water has a weight. *)
LEMMA FirstWave ==
  ASSUME Environment
  PROVE  WaveInv'
<1>1. /\ DOMAIN fertilityWeights' = water
      /\ tilesToCheck' \subseteq Tiles \ water
      /\ newWaveTiles' = {}
  BY DEF Environment, InitialWeights
<1> QED BY <1>1 DEF WaveInv

LEMMA OtherSteps ==
  ASSUME \/ LoadLibrary \/ Elevate \/ Waters \/ Cliffs \/ Temperature
         \/ WavesEnd \/ LoadFactions \/ SpawnUnits \/ Started
  PROVE  stage' # "waves"
BY DEF LoadLibrary, Elevate, Waters, generate_world_waters, generate_water_area, StartPool,
       Revisit, Leak, Spread, FillPool, Observing, PoolDone, worldVars, Cliffs,
       Temperature, WavesEnd, LoadFactions, SpawnUnits, Dies, Started

LEMMA WaveInvStep ==
  ASSUME WaveInv, [Next]_vars
  PROVE  WaveInv'
<1>1. CASE Waves
  BY <1>1, VisitWave, WaveEnds DEF Waves
<1>2. CASE Environment
  BY <1>2, FirstWave
<1>3. CASE UNCHANGED vars
  BY <1>3 DEF WaveInv
<1>4. CASE ~(Waves \/ Environment \/ UNCHANGED vars)
  BY <1>4, OtherSteps DEF Next, WaveInv
<1> QED BY <1>1, <1>2, <1>3, <1>4

LEMMA WaveInvariant == Spec => []WaveInv
<1>1. Init => WaveInv
  BY DEF Init, WaveInv
<1> QED BY <1>1, WaveInvStep, PTL DEF Spec

(* Each visit is of another tile of the wave, and each wave but the last     *)
(* gives a weight to a tile that had none, so there are at most as many      *)
(* waves as tiles: the loop of generate_environment ends.                    *)
THEOREM WavesEndAtLast == Spec => WavesProgress
<1>1. ASSUME WaveInv, Next, stage = "waves", stage' = "waves"
      PROVE  \/ /\ tilesToCheck' = tilesToCheck
                /\ \E t \in tilesToCheck \ toRemoveIndices :
                     /\ toRemoveIndices' = toRemoveIndices \cup {t}
                     /\ DOMAIN fertilityWeights \subseteq DOMAIN fertilityWeights'
             \/ /\ DOMAIN fertilityWeights' = DOMAIN fertilityWeights
                /\ tilesToCheck' \cap DOMAIN fertilityWeights = {}
                /\ tilesToCheck' = {} \/ tilesToCheck \cap DOMAIN fertilityWeights # {}
  <2>1. VisitTile \/ NextWave
    BY <1>1, OtherSteps DEF Next, Environment, Waves
  <2>2. CASE VisitTile
    <3>1. \E t \in tilesToCheck \ toRemoveIndices :
            /\ toRemoveIndices' = toRemoveIndices \cup {t}
            /\ tilesToCheck' = tilesToCheck
            /\ \/ fertilityWeights' = fertilityWeights
               \/ DOMAIN fertilityWeights' = DOMAIN fertilityWeights \cup {t}
      BY <1>1, <2>2, OneVisit
    <3> QED BY <3>1
  <2>3. CASE NextWave
    <3>1. tilesToCheck' = newWaveTiles /\ fertilityWeights' = fertilityWeights
      BY <1>1, <2>3, WaveEnds
    <3>2. /\ newWaveTiles \cap DOMAIN fertilityWeights = {}
          /\ newWaveTiles # {} => tilesToCheck \cap DOMAIN fertilityWeights # {}
      BY <1>1 DEF WaveInv
    <3> QED BY <3>1, <3>2
  <2> QED BY <2>1, <2>2, <2>3
<1>2. WaveInv /\ [Next]_vars =>
        [stage = "waves" /\ stage' = "waves" =>
           \/ /\ tilesToCheck' = tilesToCheck
              /\ \E t \in tilesToCheck \ toRemoveIndices :
                   /\ toRemoveIndices' = toRemoveIndices \cup {t}
                   /\ DOMAIN fertilityWeights \subseteq DOMAIN fertilityWeights'
           \/ /\ DOMAIN fertilityWeights' = DOMAIN fertilityWeights
              /\ tilesToCheck' \cap DOMAIN fertilityWeights = {}
              /\ tilesToCheck' = {} \/ tilesToCheck \cap DOMAIN fertilityWeights # {}]_vars
  BY <1>1
<1> QED BY <1>2, WaveInvariant, PTL DEF Spec, WavesProgress

(***************************************************************************)
(* The order of visits                                                     *)
(***************************************************************************)

(* A tile reads nothing a visit of the same wave writes: what it would get   *)
(* before the visit of t is what it would get after it.                      *)
LEMMA SameScore ==
  ASSUME NEW t \in tilesToCheck, NEW s,
         UNCHANGED <<tilesToCheck, first, temperature, water>>,
         DOMAIN fertilityWeights' = DOMAIN fertilityWeights
           \/ DOMAIN fertilityWeights' = DOMAIN fertilityWeights \cup {t},
         t \notin DOMAIN fertilityWeights,
         \A r \in DOMAIN fertilityWeights : fertilityWeights'[r] = fertilityWeights[r]
  PROVE  /\ thrives(s)' <=> thrives(s)
         /\ finalScore(s)' = finalScore(s)
         /\ potentialNewTiles(s)' = potentialNewTiles(s)
<1>1. outside(s)' = outside(s) /\ \A i : adjacent(s, i)' = adjacent(s, i)
  BY DEF outside, adjacent, adjacentIndex
<1>2. \A i \in outside(s) : adjacent(s, i) # t
  BY DEF outside, adjacent
<1>3. weighted(s)' = weighted(s)
  BY <1>1, <1>2 DEF weighted
<1>4. ASSUME NEW i PROVE term(s, i)' = term(s, i)
  <2>1. CASE i \in weighted(s)
    <3>1. adjacent(s, i) \in DOMAIN fertilityWeights
      BY <2>1 DEF weighted
    <3>2. fertilityWeights'[adjacent(s, i)] = fertilityWeights[adjacent(s, i)]
      BY <3>1
    <3>3. deg(i)' = deg(i)
      BY DEF deg
    <3>4. temperatureNegEffectMul(temperature[adjacent(s, i)])'
            = temperatureNegEffectMul(temperature[adjacent(s, i)])
      BY <1>1 DEF temperatureNegEffectMul, adjacent, adjacentIndex
    <3> QED BY <1>1, <1>3, <2>1, <3>2, <3>3, <3>4 DEF term
  <2>2. CASE i \notin weighted(s)
    BY <1>3, <2>2 DEF term
  <2> QED BY <2>1, <2>2
<1>5. score(s)' = score(s)
  BY <1>4 DEF score
<1>6. potentialNewTiles(s)' = potentialNewTiles(s)
  BY <1>1, <1>2 DEF potentialNewTiles
<1> QED BY <1>3, <1>5, <1>6 DEF thrives, finalScore

(* Fertile ground is not water. *)
LEMMA SameWater == TypeInv /\ Waves => water' = water
BY OneWaveTypes DEF water

LEMMA VisitOrder ==
  ASSUME TypeInv, WaveInv, OrderOfVisitsFree, stage = "waves", VisitTile, water' = water
  PROVE  OrderOfVisitsFree'
<1>1. PICK t \in tilesToCheck \ toRemoveIndices :
        /\ toRemoveIndices' = toRemoveIndices \cup {t}
        /\ t \notin DOMAIN fertilityWeights
        /\ \A s \in DOMAIN fertilityWeights : fertilityWeights'[s] = fertilityWeights[s]
        /\ UNCHANGED <<tilesToCheck, first, temperature>>
        /\ \/ /\ ~thrives(t)
              /\ UNCHANGED <<fertilityWeights, newWaveTiles>>
           \/ /\ thrives(t)
              /\ DOMAIN fertilityWeights' = DOMAIN fertilityWeights \cup {t}
              /\ fertilityWeights'[t] = finalScore(t)
              /\ newWaveTiles' = newWaveTiles \cup potentialNewTiles(t)
  BY OneVisit
<1>2. ASSUME NEW s
      PROVE  /\ thrives(s)' <=> thrives(s)
             /\ finalScore(s)' = finalScore(s)
             /\ potentialNewTiles(s)' = potentialNewTiles(s)
  <2>1. \/ DOMAIN fertilityWeights' = DOMAIN fertilityWeights
        \/ DOMAIN fertilityWeights' = DOMAIN fertilityWeights \cup {t}
    BY <1>1
  <2>2. UNCHANGED <<tilesToCheck, first, temperature, water>>
    BY <1>1
  <2> QED BY <1>1, <2>1, <2>2, SameScore
<1>3. /\ \A s \in toRemoveIndices :
           \/ s \in DOMAIN fertilityWeights /\ thrives(s) /\ fertilityWeights[s] = finalScore(s)
           \/ s \notin DOMAIN fertilityWeights /\ ~thrives(s)
      /\ newWaveTiles = UNION {potentialNewTiles(s) : s \in {r \in toRemoveIndices : thrives(r)}}
  BY DEF OrderOfVisitsFree
<1>4. ASSUME NEW s \in toRemoveIndices'
      PROVE  \/ /\ s \in DOMAIN fertilityWeights' /\ thrives(s)'
                /\ fertilityWeights'[s] = finalScore(s)'
             \/ s \notin DOMAIN fertilityWeights' /\ ~thrives(s)'
  <2>1. CASE s = t
    BY <1>1, <1>2, <2>1
  <2>2. CASE s # t
    <3>1. s \in toRemoveIndices
      BY <1>1, <2>2
    <3>2. s \in DOMAIN fertilityWeights' <=> s \in DOMAIN fertilityWeights
      BY <1>1, <2>2
    <3> QED BY <1>1, <1>2, <1>3, <3>1, <3>2
  <2> QED BY <2>1, <2>2
<1>5. newWaveTiles' =
        UNION {potentialNewTiles(s)' : s \in {r \in toRemoveIndices' : thrives(r)'}}
  <2>1. ASSUME NEW n
        PROVE  n \in newWaveTiles' <=>
                 \E s \in toRemoveIndices' : thrives(s)' /\ n \in potentialNewTiles(s)'
    <3>1. n \in newWaveTiles <=>
            \E s \in toRemoveIndices : thrives(s) /\ n \in potentialNewTiles(s)
      BY <1>3
    <3>2. n \in newWaveTiles' <=> n \in newWaveTiles \/ (thrives(t) /\ n \in potentialNewTiles(t))
      BY <1>1
    <3> QED BY <1>1, <1>2, <3>1, <3>2
  <2> QED BY <2>1
<1> QED BY <1>4, <1>5 DEF OrderOfVisitsFree

LEMMA OrderStep ==
  ASSUME TypeInv, WaveInv, OrderOfVisitsFree, [Next]_vars
  PROVE  OrderOfVisitsFree'
<1>1. CASE Waves /\ VisitTile
  BY <1>1, VisitOrder, SameWater DEF Waves
<1>2. CASE NextWave \/ Environment
  <2>1. toRemoveIndices' = {} /\ newWaveTiles' = {}
    BY <1>2 DEF NextWave, WaveDone, Environment, InitialWeights
  <2> QED BY <2>1 DEF OrderOfVisitsFree
<1>3. CASE UNCHANGED vars
  <2>1. \A t : /\ thrives(t)' <=> thrives(t)
               /\ finalScore(t)' = finalScore(t)
               /\ potentialNewTiles(t)' = potentialNewTiles(t)
    BY <1>3 DEF thrives, finalScore, score, term, weighted, potentialNewTiles, outside, adjacent,
                adjacentIndex, deg, temperatureNegEffectMul, water
  <2> QED BY <1>3, <2>1 DEF OrderOfVisitsFree
<1>4. CASE Next /\ ~Waves /\ ~Environment
  BY <1>4, OtherSteps DEF Next, OrderOfVisitsFree
<1> QED BY <1>1, <1>2, <1>3, <1>4 DEF Waves

(* Whatever order the unordered set gives its tiles in, a wave ends with the *)
(* same weights and finds the same next wave.                                *)
THEOREM AnyOrderOfVisits == Spec => []OrderOfVisitsFree
<1>1. Init => OrderOfVisitsFree
  BY DEF Init, OrderOfVisitsFree
<1> QED BY <1>1, OrderStep, TypeInvariant, WaveInvariant, PTL DEF Spec

(***************************************************************************)
(* Fertility                                                               *)
(***************************************************************************)

(* Nothing has a weight before the environment is generated, and in the     *)
(* first wave nothing but the water and tiles of the wave.                  *)
FadeInv ==
  /\ stage \in {"library", "elevation", "waters", "cliffs", "temperature", "environment"} =>
       DOMAIN fertilityWeights = {}
  /\ stage = "waves" /\ first => DOMAIN fertilityWeights \subseteq water \cup tilesToCheck
  /\ FertilityFades

(* The weight w fades from t: FertilityFades for one tile. *)
Fades(t, w) ==
  \E i \in 1 .. 8 :
    /\ adjacentIndex(t, i) \in Indices
    /\ adjacent(t, i) \in DOMAIN fertilityWeights
    /\ \/ adjacent(t, i) \in water /\ w <= fertilityWeights[adjacent(t, i)]
       \/ w <= fertilityWeights[adjacent(t, i)] - 100

(* A tile that thrives gets the mean of its neighbours' weights or less:     *)
(* those of water in the first wave, and a point less in the others.         *)
LEMMA ScoreFades ==
  ASSUME TypeInv, FadeInv, stage = "waves", NEW t, thrives(t)
  PROVE  Fades(t, finalScore(t))
<1>1. WeightTypes
  BY DEF TypeInv, WaveTypes
<1>2. PICK i \in weighted(t) : finalScore(t) <= term(t, i) /\ finalScore(t) \in Nat
  BY <1>1, MeanScore
<1>3. /\ i \in 1 .. 8 /\ adjacentIndex(t, i) \in Indices
      /\ adjacent(t, i) \in DOMAIN fertilityWeights \ tilesToCheck
  BY <1>2 DEF weighted, outside, adjacent
<1>4. /\ fertilityWeights[adjacent(t, i)] \in Nat /\ term(t, i) \in Int
      /\ term(t, i) <= fertilityWeights[adjacent(t, i)]
      /\ ~first => term(t, i) <= fertilityWeights[adjacent(t, i)] - 100
  BY <1>1, <1>2, <1>3, Terms
<1>5. first => adjacent(t, i) \in water
  BY <1>3 DEF FadeInv
<1>6. CASE first
  <2>1. finalScore(t) <= fertilityWeights[adjacent(t, i)]
    BY <1>2, <1>4
  <2> QED BY <1>3, <1>5, <1>6, <2>1 DEF Fades
<1>7. CASE ~first
  <2>1. finalScore(t) <= fertilityWeights[adjacent(t, i)] - 100
    BY <1>2, <1>4, <1>7
  <2> QED BY <1>3, <2>1 DEF Fades
<1> QED BY <1>6, <1>7

(* A tile keeps its weight once it has one, and so do its neighbours. *)
LEMMA VisitFades ==
  ASSUME TypeInv, WaveInv, FadeInv, stage = "waves", VisitTile, water' = water
  PROVE  FertilityFades' /\ (first' => DOMAIN fertilityWeights' \subseteq water' \cup tilesToCheck')
<1>1. PICK t \in tilesToCheck \ toRemoveIndices :
        /\ \A s \in DOMAIN fertilityWeights : fertilityWeights'[s] = fertilityWeights[s]
        /\ UNCHANGED <<tilesToCheck, first>>
        /\ \/ fertilityWeights' = fertilityWeights
           \/ /\ thrives(t)
              /\ DOMAIN fertilityWeights' = DOMAIN fertilityWeights \cup {t}
              /\ fertilityWeights'[t] = finalScore(t)
  BY OneVisit
<1>2. ASSUME NEW s \in DOMAIN fertilityWeights' \ water
      PROVE  Fades(s, fertilityWeights'[s])
  <2>1. CASE s \in DOMAIN fertilityWeights
    <3>1. Fades(s, fertilityWeights[s])
      BY <1>2, <2>1 DEF FadeInv, FertilityFades, Fades
    <3> QED BY <1>1, <2>1, <3>1
  <2>2. CASE s \notin DOMAIN fertilityWeights
    <3>1. s = t /\ thrives(t) /\ fertilityWeights'[t] = finalScore(t)
      BY <1>1, <1>2, <2>2
    <3>2. Fades(t, finalScore(t))
      BY <3>1, ScoreFades
    <3> QED BY <3>1, <3>2
  <2> QED BY <2>1, <2>2
<1>3. ASSUME NEW s \in DOMAIN fertilityWeights' \ water
      PROVE  \E i \in 1 .. 8 :
               /\ adjacentIndex(s, i) \in Indices
               /\ adjacent(s, i) \in DOMAIN fertilityWeights'
               /\ \/ /\ adjacent(s, i) \in water
                     /\ fertilityWeights'[s] <= fertilityWeights'[adjacent(s, i)]
                  \/ fertilityWeights'[s] <= fertilityWeights'[adjacent(s, i)] - 100
  <2>1. PICK i \in 1 .. 8 :
          /\ adjacentIndex(s, i) \in Indices
          /\ adjacent(s, i) \in DOMAIN fertilityWeights
          /\ \/ /\ adjacent(s, i) \in water
                /\ fertilityWeights'[s] <= fertilityWeights[adjacent(s, i)]
             \/ fertilityWeights'[s] <= fertilityWeights[adjacent(s, i)] - 100
    BY <1>2, <1>3 DEF Fades
  <2>2. /\ adjacent(s, i) \in DOMAIN fertilityWeights'
        /\ fertilityWeights'[adjacent(s, i)] = fertilityWeights[adjacent(s, i)]
    BY <1>1, <2>1
  <2> QED BY <2>1, <2>2
<1>4. FertilityFades'
  BY <1>3 DEF FertilityFades, adjacent, adjacentIndex
<1>5. first' => DOMAIN fertilityWeights' \subseteq water' \cup tilesToCheck'
  BY <1>1 DEF FadeInv
<1> QED BY <1>4, <1>5

LEMMA FadeStep ==
  ASSUME TypeInv, WaveInv, FadeInv, [Next]_vars
  PROVE  FadeInv'
<1>1. CASE Environment
  <2>1. stage' = "waves" /\ DOMAIN fertilityWeights' = water /\ water' = water
    BY <1>1 DEF Environment, InitialWeights, water
  <2> QED BY <2>1 DEF FadeInv, FertilityFades
<1>2. CASE Waves /\ VisitTile
  <2>1. stage = "waves" /\ stage' \in {"waves", "dead"}
    BY <1>2 DEF Waves, VisitTile, Grow, Dies
  <2> QED BY <1>2, <2>1, VisitFades, SameWater DEF FadeInv
<1>3. CASE Waves /\ NextWave
  <2>1. /\ stage' = "waves" /\ ~first'
        /\ UNCHANGED <<terrtype, fertilityWeights>>
    BY <1>3 DEF Waves, NextWave, WaveDone
  <2> QED BY <2>1 DEF FadeInv, FertilityFades, water, adjacent, adjacentIndex
<1>4. CASE LoadLibrary \/ Elevate \/ Waters \/ Cliffs \/ Temperature
  <2>1. /\ stage \in {"library", "elevation", "waters", "cliffs", "temperature"}
        /\ stage' \in {"elevation", "waters", "cliffs", "temperature", "environment"}
        /\ fertilityWeights' = fertilityWeights
    BY <1>4 DEF LoadLibrary, Elevate, Waters, generate_world_waters, generate_water_area,
                StartPool, Revisit, Leak, Spread, FillPool, Observing, PoolDone, Cliffs,
                Temperature
  <2> QED BY <2>1 DEF FadeInv, FertilityFades
<1>5. CASE WavesEnd \/ LoadFactions \/ SpawnUnits \/ Started
  <2>1. /\ stage' \in {"factions", "units", "running", "dead"}
        /\ UNCHANGED <<terrtype, fertilityWeights>>
    BY <1>5 DEF WavesEnd, LoadFactions, SpawnUnits, Started, Dies
  <2> QED BY <2>1 DEF FadeInv, FertilityFades, water, adjacent, adjacentIndex
<1>6. CASE UNCHANGED vars
  BY <1>6 DEF vars, FadeInv, FertilityFades, water, adjacent, adjacentIndex
<1> QED BY <1>1, <1>2, <1>3, <1>4, <1>5, <1>6 DEF Next, Waves

(* Away from the water the ground gets poorer, whatever the heat and the     *)
(* pools: land is worth at most what some water beside it is, or at least a  *)
(* point less than some tile around it.                                      *)
THEOREM FertilityFadesOutwards == Spec => []FertilityFades
<1>1. Init => FadeInv
  BY DEF Init, NoEnvironment, FadeInv, FertilityFades
<1>2. TypeInv /\ WaveInv /\ FadeInv /\ [Next]_vars => FadeInv'
  BY FadeStep
<1>3. FadeInv => FertilityFades
  BY DEF FadeInv
<1> QED BY <1>1, <1>2, <1>3, TypeInvariant, WaveInvariant, PTL DEF Spec
=============================================================================
