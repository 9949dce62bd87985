----------------------------- MODULE WaterProofs -----------------------------
(***************************************************************************)
(* While pools are dropped, for worlds of every size and elevation: water  *)
(* never stands above its surroundings, the ground only rises, every       *)
(* search comes to an end, and the sizes recorded are those of the bodies  *)
(* of water.                                                               *)
(***************************************************************************)
EXTENDS GameStart, SequenceTheorems, WellFoundedInduction, TLAPS

(***************************************************************************)
(* Operators                                                               *)
(***************************************************************************)

(* A non-empty set of naturals has a least element, which Min returns. *)
LEMMA MinOfNats ==
  ASSUME NEW S \in SUBSET Nat, S # {}
  PROVE  /\ Min(S) \in S
         /\ \A n \in S : Min(S) <= n
<1>1. \E m \in S : \A n \in S : m <= n
  <2> DEFINE less == {ss \in Nat \X Nat : ss[1] < ss[2]}
  <2>1. IsWellFoundedOn(less, Nat)
    BY NatLessThanWellFounded DEF OpToRel
  <2>2. \E m \in S : \A n \in S : <<n, m>> \notin less
    <3> HIDE DEF less
    <3> QED BY <2>1, WFMin
  <2>3. PICK m \in S : \A n \in S : <<n, m>> \notin less
    BY <2>2
  <2>4. \A n \in S : ~(n < m)
    BY <2>3
  <2> QED BY <2>4
<1> QED BY <1>1 DEF Min

(* The order of the four directions makes adjacency symmetric. *)
LEMMA AdjacentSymmetric ==
  ASSUME NEW s \in Tiles, NEW t \in Tiles, Adjacent(s, t)
  PROVE  Adjacent(t, s)
<1>1. PICK i \in 1 .. 4 : t = adjacentNode(s, i)
  BY DEF Adjacent
<1>2. /\ s[1] \in Int /\ s[2] \in Int
      /\ s = <<s[1], s[2]>>
  BY WaterAssumption DEF Tiles
<1>3. CASE i = 1
  <2>1. s = adjacentNode(t, 2) BY <1>1, <1>2, <1>3 DEF adjacentNode, directions
  <2> QED BY <2>1 DEF Adjacent
<1>4. CASE i = 2
  <2>1. s = adjacentNode(t, 1) BY <1>1, <1>2, <1>4 DEF adjacentNode, directions
  <2> QED BY <2>1 DEF Adjacent
<1>5. CASE i = 3
  <2>1. s = adjacentNode(t, 4) BY <1>1, <1>2, <1>5 DEF adjacentNode, directions
  <2> QED BY <2>1 DEF Adjacent
<1>6. CASE i = 4
  <2>1. s = adjacentNode(t, 3) BY <1>1, <1>2, <1>6 DEF adjacentNode, directions
  <2> QED BY <2>1 DEF Adjacent
<1> QED BY <1>3, <1>4, <1>5, <1>6

(* Taking the last element of a sequence off. *)
LEMMA FrontLast ==
  ASSUME NEW S, NEW s \in Seq(S), s # <<>>
  PROVE  /\ Front(s) \in Seq(S)
         /\ Last(s) \in S
         /\ Range(s) = Range(Front(s)) \cup {Last(s)}
         /\ Len(Front(s)) < Len(s)
<1>1. /\ Len(s) \in Nat \ {0}
      /\ \A k \in 1 .. Len(s) : s[k] \in S
  OBVIOUS
<1>2. /\ Front(s) \in Seq(S)
      /\ Len(Front(s)) = Len(s) - 1
      /\ \A k \in 1 .. Len(s) - 1 : Front(s)[k] = s[k]
  <2>1. Len(s) - 1 \in Nat /\ 1 .. Len(s) - 1 \subseteq 1 .. Len(s)
    BY <1>1
  <2>2. Front(s) = [k \in 1 .. Len(s) - 1 |-> s[k]]
    BY <1>1 DEF Front
  <2> HIDE DEF Front
  <2> QED BY <1>1, <2>1, <2>2
<1>3. Range(s) = {s[k] : k \in 1 .. Len(s)}
  BY RangeEquality
<1>4. Range(Front(s)) = {s[k] : k \in 1 .. Len(s) - 1}
  BY <1>2, RangeEquality
<1>5. 1 .. Len(s) = (1 .. Len(s) - 1) \cup {Len(s)}
  BY <1>1
<1> QED BY <1>1, <1>2, <1>3, <1>4, <1>5 DEF Last

(* The level after some shores is the least of what is known. *)
LEMMA LowestLevel ==
  ASSUME NEW level \in Heights \cup {NoLevel}, NEW shores \in SUBSET Heights
  PROVE  /\ lowest(level, shores) \in Heights \cup {NoLevel}
         /\ \A h \in shores : /\ lowest(level, shores) # NoLevel
                              /\ lowest(level, shores) <= h
         /\ level # NoLevel => /\ lowest(level, shores) # NoLevel
                               /\ lowest(level, shores) <= level
         /\ lowest(level, shores) \in shores \cup {level}
<1> DEFINE known == shores \cup ({level} \ {NoLevel})
<1>1. known \in SUBSET Nat /\ NoLevel \notin Nat
  BY DEF Heights, NoLevel
<1>2. CASE known = {}
  BY <1>2 DEF lowest
<1>3. CASE known # {}
  <2>1. lowest(level, shores) = Min(known)
    BY <1>3 DEF lowest
  <2>2. /\ Min(known) \in known
        /\ \A n \in known : Min(known) <= n
    BY <1>1, <1>3, MinOfNats
  <2> QED BY <1>1, <2>1, <2>2 DEF Heights, NoLevel
<1> QED BY <1>2, <1>3

(***************************************************************************)
(* The inductive invariant                                                 *)
(***************************************************************************)

(* What the proof needs of the variables' types. *)
SearchTypes ==
  /\ elevation \in [Tiles -> Heights]
  /\ terrtype \in [Tiles -> TerrainTypes]
  /\ visited \subseteq Tiles
  /\ searchStack \in Seq(Tiles)
  /\ waterLevel \in Heights \cup {NoLevel}

(* What the search found is level and below the water level; a neighbour   *)
(* of a visited tile was found too, or is a shore the level knows.         *)
FoundLevel == \A s, t \in Found : elevation[s] = elevation[t]

FoundBelow == waterLevel # NoLevel => \A t \in Found : elevation[t] < waterLevel

ShoresKnown ==
  \A s \in visited, t \in Tiles : Adjacent(s, t) /\ t \notin Found =>
    /\ waterLevel # NoLevel
    /\ waterLevel <= elevation[t]
    /\ elevation[s] < elevation[t]

Searched == searching => FoundLevel /\ FoundBelow /\ ShoresKnown

WaterInv == SearchTypes /\ Searched /\ WaterHeld

(* Before the first pool there is no water and no search. *)
Dry == SearchTypes /\ water = {} /\ ~searching

StartInv ==
  /\ stage \in {"library", "elevation"} => Dry
  /\ stage = "waters" => WaterInv

USE DEF searchVars, worldVars, terrainVars, waterVars

LEMMA InitWater == Init => StartInv
<1> SUFFICES ASSUME Init PROVE StartInv
  OBVIOUS
<1>1. SearchTypes
  BY DEF Init, NoWater, SearchTypes, Heights, TerrainTypes
<1>2. water = {} /\ ~searching /\ stage = "library"
  BY DEF Init, NoWater, water
<1> QED BY <1>1, <1>2 DEF StartInv, Dry

LEMMA LoadLibraryWater ==
  ASSUME StartInv, LoadLibrary
  PROVE  StartInv'
BY DEF StartInv, LoadLibrary, Dry, SearchTypes, water

LEMMA ElevateWater ==
  ASSUME StartInv, Elevate
  PROVE  StartInv'
<1>1. /\ Dry /\ stage' = "waters"
      /\ elevation' \in Elevated
      /\ UNCHANGED <<terrtype, waterVars>>
  BY DEF StartInv, Elevate, generate_world_elevation
<1>2. elevation' \in [Tiles -> Heights]
  <2>1. Levels \subseteq Heights
    BY DEF Levels, Heights
  <2> QED BY <1>1, <2>1, ElevationAssumption
<1>3. SearchTypes'
  BY <1>1, <1>2 DEF Dry, SearchTypes
<1>4. water' = {} /\ ~searching'
  BY <1>1 DEF Dry, water
<1>5. WaterInv'
  BY <1>3, <1>4 DEF WaterInv, Searched, WaterHeld
<1> QED BY <1>1, <1>5 DEF StartInv

LEMMA StartPoolWater ==
  ASSUME WaterInv, StartPool
  PROVE  WaterInv'
<1>1. PICK t \in Tiles : searchStack' = <<t>>
  BY DEF StartPool
<1>2. SearchTypes'
  BY <1>1 DEF WaterInv, SearchTypes, StartPool
<1>3. Found' = {t}
  <2>1. Range(<<t>>) = {t}
    BY DEF Range
  <2> QED BY <1>1, <2>1 DEF StartPool, Found
<1>4. Searched'
  BY <1>3 DEF StartPool, Searched, FoundLevel, FoundBelow, ShoresKnown
<1>5. WaterHeld'
  BY DEF WaterInv, WaterHeld, StartPool, water
<1> QED BY <1>2, <1>4, <1>5 DEF WaterInv

(* What holds of the tile taken off the stack. *)
LEMMA Observed ==
  ASSUME WaterInv, Observing
  PROVE  /\ observe \in Tiles
         /\ observe \in Found
         /\ Front(searchStack) \in Seq(Tiles)
         /\ Found = visited \cup Range(Front(searchStack)) \cup {observe}
         /\ elevation[observe] \in Heights
<1>1. searchStack \in Seq(Tiles) /\ searchStack # <<>>
  BY DEF WaterInv, SearchTypes, Observing
<1>2. /\ Front(searchStack) \in Seq(Tiles)
      /\ observe \in Tiles
      /\ Range(searchStack) = Range(Front(searchStack)) \cup {observe}
  BY <1>1, FrontLast DEF observe
<1> QED BY <1>2 DEF Found, WaterInv, SearchTypes

LEMMA RevisitWater ==
  ASSUME WaterInv, Revisit
  PROVE  WaterInv'
<1>1. Observing
  BY DEF Revisit
<1>2. SearchTypes'
  BY <1>1, Observed DEF WaterInv, SearchTypes, Revisit
<1>3. Found' = Found
  BY <1>1, Observed DEF Revisit, Found
<1>4. Searched'
  BY <1>3 DEF WaterInv, Revisit, Searched, FoundLevel, FoundBelow, ShoresKnown
<1>5. WaterHeld'
  BY DEF WaterInv, WaterHeld, Revisit, water
<1> QED BY <1>2, <1>4, <1>5 DEF WaterInv

(* The neighbours ahead and the shores among them. *)
LEMMA Ahead ==
  ASSUME WaterInv, Observing, NEW seen \in SUBSET ahead
  PROVE  /\ \A i \in ahead : /\ adjacentNode(observe, i) \in Tiles
                             /\ height(i) \in Heights
         /\ Shores(seen) \in SUBSET Heights
         /\ \A h \in Shores(seen) : elevation[observe] < h
<1>1. \A i \in ahead : adjacentNode(observe, i) \in Tiles /\ height(i) \in Heights
  BY DEF ahead, height, WaterInv, SearchTypes
<1> QED BY <1>1, Observed DEF Shores

LEMMA LeakWater ==
  ASSUME WaterInv, Leak
  PROVE  WaterInv'
<1>1. Observing
  BY DEF Leak
<1>2. PICK i \in ahead :
        /\ lower(i)
        /\ searchStack' = <<adjacentNode(observe, i)>>
        /\ waterLevel' = lowest(waterLevel, Shores({k \in ahead : k < i}))
  BY DEF Leak
<1> DEFINE n == adjacentNode(observe, i)
           shores == Shores({k \in ahead : k < i})
<1>3. /\ n \in Tiles
      /\ shores \in SUBSET Heights
      /\ \A h \in shores : elevation[observe] < h
  BY <1>1, Ahead
<1>4. elevation[n] < elevation[observe]
  BY <1>2 DEF lower, height
<1>5. /\ waterLevel' \in Heights \cup {NoLevel}
      /\ waterLevel' \in shores \cup {waterLevel}
  <2>1. waterLevel \in Heights \cup {NoLevel}
    BY DEF WaterInv, SearchTypes
  <2> HIDE DEF shores, n
  <2>2. waterLevel' = lowest(waterLevel, shores)
    BY <1>2 DEF shores
  <2> QED BY <1>3, <2>1, <2>2, LowestLevel
<1>6. SearchTypes'
  BY <1>2, <1>3, <1>5 DEF Leak, WaterInv, SearchTypes
<1>7. Found' = {n}
  <2>1. Range(<<n>>) = {n}
    BY DEF Range
  <2> QED BY <1>2, <2>1 DEF Leak, Found
<1>8. waterLevel # NoLevel => elevation[observe] < waterLevel
  BY <1>1, Observed DEF WaterInv, Searched, FoundBelow, Observing
<1>9. waterLevel' # NoLevel => elevation[n] < waterLevel'
  <2>1. /\ elevation[n] \in Int /\ elevation[observe] \in Int
        /\ waterLevel \in Int
        /\ \A h \in shores : h \in Int
    <3>1. elevation[n] \in Heights /\ elevation[observe] \in Heights
      BY <1>1, <1>3, Observed DEF WaterInv, SearchTypes
    <3>2. waterLevel \in Heights \cup {NoLevel}
      BY DEF WaterInv, SearchTypes
    <3> HIDE DEF shores, n
    <3> QED BY <1>3, <3>1, <3>2 DEF Heights, NoLevel
  <2> HIDE DEF shores, n
  <2> QED BY <1>3, <1>4, <1>5, <1>8, <2>1
<1>10. Searched'
  <2>1. visited' = {} /\ elevation' = elevation
    BY DEF Leak
  <2> QED BY <1>7, <1>9, <2>1
          DEF Searched, FoundLevel, FoundBelow, ShoresKnown
<1>11. WaterHeld'
  BY DEF WaterInv, WaterHeld, Leak, water
<1> QED BY <1>6, <1>10, <1>11 DEF WaterInv

(* The tiles that a step of the search pushes. *)
LEMMA Pushed ==
  ASSUME WaterInv, Observing
  PROVE  /\ pushes \in Seq(Tiles)
         /\ \A t \in Range(pushes) : elevation[t] = elevation[observe] /\ Adjacent(observe, t)
         /\ \A i \in ahead : height(i) = elevation[observe] =>
                               adjacentNode(observe, i) \in Range(pushes)
<1>1. ASSUME NEW i \in 1 .. 4
      PROVE  /\ pushed(i) \in Seq(Tiles)
             /\ \A t \in Range(pushed(i)) : /\ elevation[t] = elevation[observe]
                                            /\ Adjacent(observe, t)
             /\ i \in ahead /\ height(i) = elevation[observe] =>
                  adjacentNode(observe, i) \in Range(pushed(i))
  <2>1. CASE i \in ahead /\ height(i) = elevation[observe]
    <3> DEFINE a == adjacentNode(observe, i)
    <3>1. /\ pushed(i) = <<a>> /\ a \in Tiles /\ elevation[a] = elevation[observe]
          /\ Adjacent(observe, a)
      BY <2>1, Ahead DEF pushed, height, Adjacent
    <3>2. Range(<<a>>) = {a}
      BY DEF Range
    <3> HIDE DEF a
    <3>3. <<a>> \in Seq(Tiles)
      BY <3>1
    <3> QED BY <3>1, <3>2, <3>3 DEF a
  <2>2. CASE ~(i \in ahead /\ height(i) = elevation[observe])
    <3>1. pushed(i) = <<>>
      BY <2>2 DEF pushed
    <3>2. Range(<<>>) = {} /\ <<>> \in Seq(Tiles)
      BY DEF Range
    <3> QED BY <2>2, <3>1, <3>2
  <2> QED BY <2>1, <2>2
<1> DEFINE p2 == pushed(1) \o pushed(2)
           p3 == p2 \o pushed(3)
           p4 == p3 \o pushed(4)
<1>2. p2 \in Seq(Tiles) /\ Range(p2) = Range(pushed(1)) \cup Range(pushed(2))
  BY <1>1, RangeConcatenation, ConcatProperties
<1>3. p3 \in Seq(Tiles) /\ Range(p3) = Range(p2) \cup Range(pushed(3))
  <2> HIDE DEF p2
  <2> QED BY <1>1, <1>2, RangeConcatenation, ConcatProperties
<1>4. p4 \in Seq(Tiles) /\ Range(p4) = Range(p3) \cup Range(pushed(4))
  <2> HIDE DEF p3
  <2> QED BY <1>1, <1>3, RangeConcatenation, ConcatProperties
<1>5. \A t : t \in Range(p4) <=> \E i \in 1 .. 4 : t \in Range(pushed(i))
  <2> HIDE DEF p2, p3, p4
  <2> QED BY <1>2, <1>3, <1>4
<1>6. ahead \subseteq 1 .. 4
  BY DEF ahead
<1> HIDE DEF p4
<1>7. /\ p4 \in Seq(Tiles)
      /\ \A t \in Range(p4) : elevation[t] = elevation[observe] /\ Adjacent(observe, t)
      /\ \A i \in ahead : height(i) = elevation[observe] =>
                            adjacentNode(observe, i) \in Range(p4)
  BY <1>1, <1>4, <1>5, <1>6
<1> QED BY <1>7 DEF p4, pushes

LEMMA SpreadWater ==
  ASSUME WaterInv, Spread
  PROVE  WaterInv'
<1> DEFINE front == Front(searchStack)
<1>1. Observing /\ searching
  BY DEF Spread, Observing
<1>2. /\ pushes \in Seq(Tiles)
      /\ \A t \in Range(pushes) : elevation[t] = elevation[observe]
      /\ \A i \in ahead : height(i) = elevation[observe] =>
                            adjacentNode(observe, i) \in Range(pushes)
  BY <1>1, Pushed
<1>3. /\ front \in Seq(Tiles)
      /\ observe \in Tiles
      /\ observe \in Found
      /\ Found = visited \cup Range(front) \cup {observe}
      /\ elevation[observe] \in Heights
  BY <1>1, Observed
<1>4. /\ searchStack' = front \o pushes
      /\ visited' = visited \cup {observe}
      /\ UNCHANGED <<elevation, terrtype>>
      /\ waterLevel' = lowest(waterLevel, Shores(ahead))
      /\ \A i \in ahead : ~lower(i)
  BY DEF Spread
<1> HIDE DEF front
<1>5. /\ searchStack' \in Seq(Tiles)
      /\ Range(searchStack') = Range(front) \cup Range(pushes)
  BY <1>2, <1>3, <1>4, RangeConcatenation, ConcatProperties
<1>6. Found' = Found \cup Range(pushes)
  BY <1>3, <1>4, <1>5 DEF Found
<1>7. /\ Shores(ahead) \in SUBSET Heights
      /\ \A h \in Shores(ahead) : elevation[observe] < h
      /\ \A i \in ahead : /\ adjacentNode(observe, i) \in Tiles
                          /\ height(i) \in Heights
  BY <1>1, Ahead
<1>8. waterLevel \in Heights \cup {NoLevel}
  BY DEF WaterInv, SearchTypes
<1>9. /\ waterLevel' \in Heights \cup {NoLevel}
      /\ \A h \in Shores(ahead) : waterLevel' # NoLevel /\ waterLevel' <= h
      /\ waterLevel # NoLevel => waterLevel' # NoLevel /\ waterLevel' <= waterLevel
      /\ waterLevel' \in Shores(ahead) \cup {waterLevel}
  BY <1>4, <1>7, <1>8, LowestLevel
<1>10. SearchTypes'
  BY <1>3, <1>4, <1>5, <1>9 DEF WaterInv, SearchTypes
<1>11. /\ FoundLevel /\ FoundBelow /\ ShoresKnown
       /\ \A t \in Found : elevation[t] = elevation[observe]
  BY <1>1, <1>3 DEF WaterInv, Searched, FoundLevel
<1>12. \A t \in Found' : elevation[t] = elevation[observe]
  BY <1>2, <1>6, <1>11
<1>13. FoundLevel'
  BY <1>4, <1>12 DEF FoundLevel
<1>14. FoundBelow'
  <2>1. waterLevel' # NoLevel => elevation[observe] < waterLevel'
    BY <1>3, <1>7, <1>9, <1>11 DEF FoundBelow
  <2> QED BY <1>4, <1>12, <2>1 DEF FoundBelow
<1>15. ShoresKnown'
  <2> SUFFICES ASSUME NEW s \in visited', NEW t \in Tiles,
                      Adjacent(s, t), t \notin Found'
               PROVE  /\ waterLevel' # NoLevel
                      /\ waterLevel' <= elevation[t]
                      /\ elevation[s] < elevation[t]
    BY <1>4 DEF ShoresKnown, Adjacent, adjacentNode, directions
  <2>1. t \notin Found /\ t \notin Range(pushes) /\ elevation[t] \in Heights
    BY <1>6 DEF WaterInv, SearchTypes
  <2>2. CASE s \in visited
    <3>1. /\ waterLevel # NoLevel
          /\ waterLevel <= elevation[t]
          /\ elevation[s] < elevation[t]
      BY <1>11, <2>1, <2>2 DEF ShoresKnown
    <3> QED BY <1>8, <1>9, <2>1, <3>1 DEF Heights, NoLevel
  <2>3. CASE s = observe
    <3>1. PICK i \in 1 .. 4 : t = adjacentNode(observe, i)
      BY <2>3 DEF Adjacent
    <3>2. i \in ahead /\ height(i) = elevation[t]
      BY <2>1, <3>1 DEF ahead, height, Found
    <3>3. height(i) # elevation[observe] /\ ~(height(i) < elevation[observe])
      BY <1>2, <1>4, <2>1, <3>1, <3>2 DEF lower
    <3>4. elevation[observe] < height(i)
      <4>1. \A a, b \in Heights : a # b /\ ~(a < b) => b < a
        BY DEF Heights
      <4> QED BY <1>3, <1>7, <3>2, <3>3, <4>1
    <3>5. height(i) \in Shores(ahead)
      BY <3>2, <3>4 DEF Shores
    <3> QED BY <1>9, <2>3, <3>2, <3>4, <3>5
  <2> QED BY <1>4, <2>2, <2>3
<1>16. WaterHeld'
  BY DEF WaterInv, WaterHeld, Spread, water
<1> QED BY <1>10, <1>13, <1>14, <1>15, <1>16 DEF WaterInv, Searched

LEMMA FillPoolWater ==
  ASSUME WaterInv, FillPool
  PROVE  WaterInv'
<1> DEFINE surface == IF waterLevel > 0 THEN waterLevel - 1 ELSE 0
<1>1. /\ searching /\ searchStack = <<>>
      /\ elevation' = [t \in Tiles |->
                         IF t \in visited THEN surface ELSE elevation[t]]
      /\ terrtype' = [t \in Tiles |->
                        IF t \in visited THEN "water" ELSE terrtype[t]]
      /\ searching' = FALSE
      /\ stage = "waters"
      /\ UNCHANGED searchVars
  BY DEF FillPool, Flooded, PoolDone
<1>2. SearchTypes
  BY DEF WaterInv
<1>3. surface \in Heights
  BY <1>2 DEF SearchTypes, Heights, NoLevel
<1>4. Found = visited
  <2>1. Range(<<>>) = {}
    BY DEF Range
  <2> QED BY <1>1, <2>1 DEF Found
<1>5. ShoresKnown
  BY <1>1 DEF WaterInv, Searched
<1> HIDE DEF surface
<1>6. SearchTypes'
  BY <1>1, <1>2, <1>3 DEF SearchTypes, TerrainTypes
<1>10. water' = water \cup visited
  BY <1>1, <1>2 DEF SearchTypes, water
<1>7. ASSUME NEW s \in water', NEW t \in Tiles, Adjacent(s, t)
      PROVE  elevation'[s] <= elevation'[t]
  <2>1. s \in Tiles /\ elevation[s] \in Heights /\ elevation[t] \in Heights
    BY <1>2, <1>7, <1>10 DEF SearchTypes, water
  <2>2. CASE s \in visited /\ t \in visited
    BY <1>1, <1>3, <2>1, <2>2 DEF Heights
  <2>3. CASE s \in visited /\ t \notin visited
    <3>1. waterLevel # NoLevel /\ waterLevel <= elevation[t]
      BY <1>4, <1>5, <1>7, <2>3 DEF ShoresKnown
    <3>2. surface <= elevation[t]
      <4>1. \A h, l \in 0 .. 31 :
              l <= h => (IF l > 0 THEN l - 1 ELSE 0) <= h
        OBVIOUS
      <4>2. waterLevel \in 0 .. 31 /\ elevation[t] \in 0 .. 31
        BY <1>2, <2>1, <3>1 DEF SearchTypes, Heights
      <4> QED BY <3>1, <4>1, <4>2 DEF surface
    <3> QED BY <1>1, <2>1, <2>3, <3>2
  <2>4. CASE s \notin visited /\ t \in visited
    <3>1. elevation[t] < elevation[s]
      BY <1>4, <1>5, <1>7, <2>1, <2>4, AdjacentSymmetric DEF ShoresKnown
    <3>2. elevation[s] <= elevation[t]
      BY <1>1, <1>7, <1>10, <2>4 DEF WaterInv, WaterHeld
    <3> QED BY <2>1, <3>1, <3>2 DEF Heights
  <2>5. CASE s \notin visited /\ t \notin visited
    <3>1. elevation[s] <= elevation[t]
      BY <1>1, <1>7, <1>10, <2>5 DEF WaterInv, WaterHeld
    <3> QED BY <1>1, <2>1, <2>5, <3>1
  <2> QED BY <2>2, <2>3, <2>4, <2>5
<1>8. WaterHeld'
  BY <1>7 DEF WaterHeld, Adjacent, adjacentNode, directions
<1>9. Searched'
  BY <1>1 DEF Searched
<1> QED BY <1>6, <1>8, <1>9 DEF WaterInv

LEMMA WatersWater ==
  ASSUME StartInv, Waters
  PROVE  StartInv'
<1>1. CASE generate_world_waters
  <2>1. stage = "waters" /\ stage' = "waters"
    BY <1>1 DEF generate_world_waters, generate_water_area, StartPool, Revisit, Leak,
                Spread, FillPool, Observing, PoolDone
  <2>2. WaterInv
    BY <2>1 DEF StartInv
  <2>3. WaterInv'
    BY <1>1, <2>2, StartPoolWater, RevisitWater, LeakWater, SpreadWater, FillPoolWater
       DEF generate_world_waters, generate_water_area
  <2> QED BY <2>1, <2>3 DEF StartInv
<1>2. CASE stage' = "cliffs"
  BY <1>2 DEF StartInv
<1> QED BY <1>1, <1>2 DEF Waters

(* No later stage comes back. *)
LEMMA LaterWater ==
  ASSUME StartInv,
         \/ Cliffs \/ Temperature \/ Environment \/ Waves \/ WavesEnd
         \/ LoadFactions \/ SpawnUnits \/ Started
  PROVE  StartInv'
<1>1. stage' \notin {"library", "elevation", "waters"}
  BY DEF Cliffs, Temperature, Environment, Waves, VisitTile, Grow, NextWave, WavesEnd,
         LoadFactions, SpawnUnits, Started, Dies
<1> QED BY <1>1 DEF StartInv

LEMMA StutterWater ==
  ASSUME StartInv, UNCHANGED vars
  PROVE  StartInv'
BY DEF vars, StartInv, Dry, WaterInv, SearchTypes, Searched, FoundLevel, FoundBelow,
       ShoresKnown, Found, WaterHeld, water

LEMMA StartInvariant == Spec => []StartInv
<1>1. StartInv /\ [Next]_vars => StartInv'
  BY LoadLibraryWater, ElevateWater, WatersWater, LaterWater, StutterWater DEF Next
<1> QED BY <1>1, InitWater, PTL DEF Spec

(* Whatever the world generate_world_elevation leaves, and wherever        *)
(* generate_world_waters drops its pools, water never stands above the     *)
(* tiles next to it.                                                       *)
THEOREM WaterNeverAboveShore == Spec => []WaterHeld
<1>1. StartInv => WaterHeld
  BY DEF StartInv, WaterInv, WaterHeld
<1> QED BY <1>1, StartInvariant, PTL

(***************************************************************************)
(* The ground only rises                                                   *)
(***************************************************************************)

distance(s, t) ==
  (IF s[1] <= t[1] THEN t[1] - s[1] ELSE s[1] - t[1])
    + (IF s[2] <= t[2] THEN t[2] - s[2] ELSE s[2] - t[2])

(* From every tile a step leads closer to any other. *)
LEMMA StepCloser ==
  ASSUME NEW s \in Tiles, NEW t \in Tiles, s # t
  PROVE  \E u \in Tiles : Adjacent(s, u) /\ distance(u, t) < distance(s, t)
<1>1. PICK a \in 0 .. worldWidth - 1, b \in 0 .. worldWidth - 1 : s = <<a, b>>
  BY DEF Tiles
<1>2. PICK c \in 0 .. worldWidth - 1, d \in 0 .. worldWidth - 1 : t = <<c, d>>
  BY DEF Tiles
<1>3. worldWidth \in Nat
  BY TerrainAssumption
<1>4. CASE a > c
  <2> DEFINE u == <<a - 1, b>>
  <2>1. u \in Tiles /\ distance(u, t) < distance(s, t)
    BY <1>1, <1>2, <1>3, <1>4 DEF Tiles, distance
  <2>2. u = adjacentNode(s, 1)
    BY <1>1 DEF adjacentNode, directions
  <2> QED BY <2>1, <2>2 DEF Adjacent
<1>5. CASE a < c
  <2> DEFINE u == <<a + 1, b>>
  <2>1. u \in Tiles /\ distance(u, t) < distance(s, t)
    BY <1>1, <1>2, <1>3, <1>5 DEF Tiles, distance
  <2>2. u = adjacentNode(s, 2)
    BY <1>1 DEF adjacentNode, directions
  <2> QED BY <2>1, <2>2 DEF Adjacent
<1>6. CASE a = c /\ b > d
  <2> DEFINE u == <<a, b - 1>>
  <2>1. u \in Tiles /\ distance(u, t) < distance(s, t)
    BY <1>1, <1>2, <1>3, <1>6 DEF Tiles, distance
  <2>2. u = adjacentNode(s, 3)
    BY <1>1 DEF adjacentNode, directions
  <2> QED BY <2>1, <2>2 DEF Adjacent
<1>7. CASE a = c /\ b < d
  <2> DEFINE u == <<a, b + 1>>
  <2>1. u \in Tiles /\ distance(u, t) < distance(s, t)
    BY <1>1, <1>2, <1>3, <1>7 DEF Tiles, distance
  <2>2. u = adjacentNode(s, 4)
    BY <1>1 DEF adjacentNode, directions
  <2> QED BY <2>1, <2>2 DEF Adjacent
<1> QED BY <1>1, <1>2, <1>3, <1>4, <1>5, <1>6, <1>7

(* The world is in one piece: a set of tiles that nothing leads out of is    *)
(* empty or the world.  Of two tiles, one in the set and one outside, those  *)
(* nearest to each other would be apart and next to each other.              *)
LEMMA OnePiece ==
  ASSUME NEW V \in SUBSET Tiles, NEW s \in V,
         \A v \in V, t \in Tiles : Adjacent(v, t) => t \in V
  PROVE  V = Tiles
<1> SUFFICES ASSUME NEW t \in Tiles, t \notin V PROVE FALSE
  OBVIOUS
<1> DEFINE apart == {n \in Nat : \E v \in V, u \in Tiles \ V : n = distance(v, u)}
<1>1. \A v, u \in Tiles : distance(v, u) \in Nat
  BY TerrainAssumption DEF Tiles, distance
<1>2. apart \in SUBSET Nat /\ apart # {}
  <2>1. distance(s, t) \in apart
    BY <1>1
  <2> QED BY <2>1
<1>3. Min(apart) \in apart /\ \A n \in apart : Min(apart) <= n
  <2> HIDE DEF apart
  <2> QED BY <1>2, MinOfNats
<1>4. PICK v \in V, u \in Tiles \ V : Min(apart) = distance(v, u)
  BY <1>3
<1>5. PICK w \in Tiles : Adjacent(v, w) /\ distance(w, u) < distance(v, u)
  BY StepCloser
<1>6. w \in V
  BY <1>5
<1>7. distance(w, u) \in apart
  BY <1>1, <1>6
<1> QED BY <1>1, <1>3, <1>4, <1>5, <1>7

(* The water of a pool stands above the ground it was found on, unless no    *)
(* shore was found; then the search met the whole world.                     *)
LEMMA FillPoolRises ==
  ASSUME WaterInv, FillPool, NEW t \in Tiles
  PROVE  elevation'[t] >= elevation[t] \/ visited = Tiles
<1> DEFINE surface == IF waterLevel > 0 THEN waterLevel - 1 ELSE 0
<1>1. /\ elevation' = [u \in Tiles |-> IF u \in visited THEN surface ELSE elevation[u]]
      /\ SearchTypes /\ FoundBelow /\ ShoresKnown /\ searchStack = <<>>
  BY DEF FillPool, Flooded, WaterInv, Searched
<1>2. Found = visited
  <2>1. Range(searchStack) = {}
    BY <1>1 DEF Range
  <2> QED BY <2>1 DEF Found
<1>3. elevation[t] \in 0 .. 31 /\ (waterLevel \in 0 .. 31 \/ waterLevel = -1)
  BY <1>1 DEF SearchTypes, Heights, NoLevel
<1>4. CASE t \notin visited
  <2>1. elevation'[t] = elevation[t]
    BY <1>1, <1>4
  <2> QED BY <1>3, <2>1
<1>5. CASE t \in visited /\ waterLevel # NoLevel
  <2>1. elevation[t] < waterLevel
    BY <1>1, <1>2, <1>5 DEF FoundBelow
  <2>2. elevation'[t] = surface
    BY <1>1, <1>5
  <2>3. waterLevel \in 0 .. 31 /\ waterLevel > elevation[t]
    BY <1>3, <1>5, <2>1 DEF NoLevel
  <2> QED BY <1>3, <2>2, <2>3
<1>6. CASE t \in visited /\ waterLevel = NoLevel
  <2>1. \A v \in visited, u \in Tiles : Adjacent(v, u) => u \in visited
    BY <1>1, <1>2, <1>6 DEF ShoresKnown
  <2> QED BY <1>1, <1>6, <2>1, OnePiece DEF SearchTypes
<1> QED BY <1>4, <1>5, <1>6

(* Every pool only raises the tiles it covers, unless it takes the whole     *)
(* world.                                                                    *)
THEOREM PoolsRaiseGround == Spec => GroundOnlyRises
<1>1. ASSUME StartInv, Next, stage = "waters", NEW t \in Tiles
      PROVE  elevation'[t] >= elevation[t] \/ visited = Tiles
  <2>1. WaterInv
    BY <1>1 DEF StartInv
  <2>4. elevation[t] \in Heights
    BY <1>1, <2>1 DEF WaterInv, SearchTypes
  <2>2. CASE FillPool
    BY <1>1, <2>1, <2>2, FillPoolRises
  <2>3. CASE ~FillPool
    <3>1. Waters
      BY <1>1 DEF Next, LoadLibrary, Elevate, Cliffs, Temperature, Environment,
                  Waves, WavesEnd, LoadFactions, SpawnUnits, Started
    <3>2. elevation' = elevation
      BY <2>3, <3>1 DEF Waters, generate_world_waters, generate_water_area, StartPool,
                        Revisit, Leak, Spread
    <3> QED BY <2>4, <3>2 DEF Heights
  <2> QED BY <2>2, <2>3
<1>2. StartInv /\ [Next]_vars =>
        [stage = "waters" => \A t \in Tiles :
           elevation'[t] >= elevation[t] \/ visited = Tiles]_<<terrainVars, waterVars>>
  BY <1>1 DEF vars
<1> QED BY <1>2, StartInvariant, PTL DEF Spec, GroundOnlyRises

(***************************************************************************)
(* The search ends                                                         *)
(***************************************************************************)

(* What was found is as high as the tile being observed. *)
LEMMA LevelSearch ==
  ASSUME WaterInv, Observing
  PROVE  heightsFound = {elevation[observe]}
<1>1. observe \in Found /\ \A t \in Found : elevation[t] = elevation[observe]
  BY Observed DEF WaterInv, Searched, FoundLevel, Observing
<1> QED BY <1>1 DEF heightsFound

(* One step of the search. *)
LEMMA SearchStep ==
  ASSUME WaterInv, generate_water_area
  PROVE  \/ \A h \in heightsFound', g \in heightsFound : h < g
         \/ /\ heightsFound' \subseteq heightsFound
            /\ \/ visited \subseteq visited' /\ visited' # visited
               \/ visited' = visited /\ Len(searchStack') < Len(searchStack)
<1>1. Observing /\ elevation' = elevation
  BY DEF generate_water_area, Revisit, Leak, Spread
<1>2. heightsFound = {elevation[observe]}
  BY <1>1, LevelSearch
<1>3. /\ searchStack \in Seq(Tiles) /\ searchStack # <<>>
      /\ Front(searchStack) \in Seq(Tiles)
      /\ Range(searchStack) = Range(Front(searchStack)) \cup {observe}
      /\ Len(Front(searchStack)) < Len(searchStack)
  BY <1>1, FrontLast DEF WaterInv, SearchTypes, Observing, observe
<1>4. CASE Revisit
  <2>1. searchStack' = Front(searchStack) /\ visited' = visited
    BY <1>4 DEF Revisit
  <2>2. Found' \subseteq Found
    BY <1>3, <2>1 DEF Found
  <2> QED BY <1>1, <1>3, <2>1, <2>2 DEF heightsFound
<1>5. CASE Leak
  <2>1. PICK i \in ahead : lower(i) /\ searchStack' = <<adjacentNode(observe, i)>>
    BY <1>5 DEF Leak
  <2>2. Found' = {adjacentNode(observe, i)}
    <3>1. visited' = {} /\ Range(<<adjacentNode(observe, i)>>) = {adjacentNode(observe, i)}
      BY <1>5 DEF Leak, Range
    <3> QED BY <2>1, <3>1 DEF Found
  <2>3. heightsFound' = {height(i)}
    BY <1>1, <2>2 DEF heightsFound, height
  <2> QED BY <1>2, <2>1, <2>3 DEF lower
<1>6. CASE Spread
  <2>1. /\ searchStack' = Front(searchStack) \o pushes
        /\ visited' = visited \cup {observe} /\ observe \notin visited
    BY <1>6 DEF Spread
  <2>2. pushes \in Seq(Tiles) /\ \A t \in Range(pushes) : elevation[t] = elevation[observe]
    BY <1>1, Pushed
  <2>3. Range(searchStack') = Range(Front(searchStack)) \cup Range(pushes)
    BY <1>3, <2>1, <2>2, RangeConcatenation
  <2>4. \A t \in Found' : t \in Found \/ t \in Range(pushes)
    BY <1>3, <2>1, <2>3 DEF Found
  <2>5. \A t \in Found' : elevation'[t] \in heightsFound
    BY <1>1, <1>2, <2>2, <2>4 DEF heightsFound
  <2>6. heightsFound' \subseteq heightsFound
    BY <2>5 DEF heightsFound
  <2> QED BY <2>1, <2>6
<1> QED BY <1>4, <1>5, <1>6 DEF generate_water_area

(* Each step of the search leads to lower ground, or on the same to a tile   *)
(* that was not observed yet, or leaves fewer to look at: there are finitely *)
(* many heights and tiles, so the search of every pool ends.                 *)
THEOREM SearchComesToAnEnd == Spec => SearchAdvances
<1>1. ASSUME StartInv, Next, stage = "waters", searching, searching'
      PROVE  generate_water_area
  <2>1. Waters
    BY <1>1 DEF Next, LoadLibrary, Elevate, Cliffs, Temperature, Environment,
                Waves, WavesEnd, LoadFactions, SpawnUnits, Started
  <2>2. ~StartPool /\ ~FillPool
    BY <1>1 DEF StartPool, FillPool, PoolDone
  <2> QED BY <1>1, <2>1, <2>2 DEF Waters, generate_world_waters
<1>2. StartInv /\ [Next]_vars =>
        [stage = "waters" /\ searching /\ searching' =>
           \/ \A h \in heightsFound', g \in heightsFound : h < g
           \/ /\ heightsFound' \subseteq heightsFound
              /\ \/ visited \subseteq visited' /\ visited' # visited
                 \/ visited' = visited /\ Len(searchStack') < Len(searchStack)]_<<terrainVars, waterVars>>
  <2> SUFFICES ASSUME StartInv, Next, stage = "waters", searching, searching'
               PROVE  \/ \A h \in heightsFound', g \in heightsFound : h < g
                      \/ /\ heightsFound' \subseteq heightsFound
                         /\ \/ visited \subseteq visited' /\ visited' # visited
                            \/ visited' = visited /\ Len(searchStack') < Len(searchStack)
    BY DEF vars
  <2>1. WaterInv
    BY DEF StartInv
  <2> QED BY <1>1, <2>1, SearchStep
<1> QED BY <1>2, StartInvariant, PTL DEF Spec, SearchAdvances


(***************************************************************************)
(* The sizes of the bodies of water                                        *)
(***************************************************************************)

(* What the search found hangs together: a part of it that no step leads out *)
(* of within it is all of it.                                                *)
Connected ==
  searching =>
    /\ Found # {}
    /\ \A part \in SUBSET Found :
         /\ part # {}
         /\ \A s \in part, t \in Found : Adjacent(s, t) => t \in part
         => part = Found

(* Every tile of water knows the size of the body of water it is in. *)
Sized ==
  /\ DOMAIN poolSizes = water
  /\ \A s \in water : poolSizes[s] = Cardinality(Body(ClosedWater, s))

SizesInv ==
  /\ stage \in {"library", "elevation", "waters"} => Sized
  /\ stage = "waters" => Connected

LEMMA SpreadConnected ==
  ASSUME WaterInv, Connected, Spread
  PROVE  Connected'
<1>1. Observing /\ searching
  BY DEF Spread, Observing
<1> DEFINE front == Front(searchStack)
<1>2. /\ pushes \in Seq(Tiles)
      /\ \A t \in Range(pushes) : Adjacent(observe, t)
  BY <1>1, Pushed
<1>3. /\ front \in Seq(Tiles)
      /\ observe \in Tiles
      /\ observe \in Found
      /\ Found = visited \cup Range(front) \cup {observe}
  BY <1>1, Observed
<1>4. searchStack' = front \o pushes /\ visited' = visited \cup {observe}
  BY DEF Spread
<1> HIDE DEF front
<1>5. Range(searchStack') = Range(front) \cup Range(pushes)
  BY <1>2, <1>3, <1>4, RangeConcatenation
<1>6. Found' = Found \cup Range(pushes)
  BY <1>3, <1>4, <1>5 DEF Found
<1>7. Range(pushes) \subseteq Tiles
  BY <1>2 DEF Range
<1>8. ASSUME NEW part \in SUBSET Found', part # {},
             \A s \in part, t \in Found' : Adjacent(s, t) => t \in part
      PROVE  part = Found'
  <2>1. observe \in part
    <3>1. CASE part \cap Found = {}
      <4>1. PICK p \in Range(pushes) : p \in part
        BY <1>6, <1>8, <3>1
      <4>2. Adjacent(p, observe)
        BY <1>2, <1>3, <1>7, <4>1, AdjacentSymmetric
      <4> QED BY <1>3, <1>6, <1>8, <4>1, <4>2
    <3>2. CASE part \cap Found # {}
      <4>1. part \cap Found \in SUBSET Found
        OBVIOUS
      <4>2. \A s \in part \cap Found, t \in Found : Adjacent(s, t) => t \in part \cap Found
        BY <1>6, <1>8
      <4>3. part \cap Found = Found
        BY <1>1, <3>2, <4>1, <4>2 DEF Connected
      <4> QED BY <1>3, <4>3
    <3> QED BY <3>1, <3>2
  <2>2. Range(pushes) \subseteq part
    BY <1>2, <1>6, <1>8, <2>1
  <2>3. \A s \in part \cap Found, t \in Found : Adjacent(s, t) => t \in part \cap Found
    BY <1>6, <1>8
  <2>4. part \cap Found = Found
    BY <1>1, <1>3, <2>1, <2>3 DEF Connected
  <2> QED BY <1>6, <1>8, <2>2, <2>4
<1>9. Found' # {}
  BY <1>3, <1>6
<1> QED BY <1>8, <1>9 DEF Connected, Adjacent, adjacentNode, directions

LEMMA SearchConnected ==
  ASSUME WaterInv, Connected, StartPool \/ Revisit \/ Leak
  PROVE  Connected'
<1>1. CASE StartPool
  <2>1. PICK t \in Tiles : searchStack' = <<t>> /\ visited' = {}
    BY <1>1 DEF StartPool
  <2>2. Range(<<t>>) = {t}
    BY DEF Range
  <2>3. Found' = {t}
    BY <2>1, <2>2 DEF Found
  <2> QED BY <2>3 DEF Connected
<1>2. CASE Revisit
  <2>1. Found' = Found /\ searching' = searching
    BY <1>2, Observed DEF Revisit, Found
  <2> QED BY <2>1 DEF Connected, Adjacent, adjacentNode, directions
<1>3. CASE Leak
  <2>1. PICK i \in ahead : searchStack' = <<adjacentNode(observe, i)>> /\ visited' = {}
    BY <1>3 DEF Leak
  <2> DEFINE n == adjacentNode(observe, i)
  <2>2. Range(<<n>>) = {n}
    BY DEF Range
  <2>3. Found' = {n}
    BY <2>1, <2>2 DEF Found
  <2> HIDE DEF n
  <2> QED BY <2>3 DEF Connected
<1> QED BY <1>1, <1>2, <1>3

(* A pool is a body of water of its own: what was water before and is not  *)
(* part of it is not next to it.                                           *)
LEMMA PoolApart ==
  ASSUME WaterInv, FillPool, NEW s \in visited, NEW u \in water \ visited
  PROVE  ~Adjacent(s, u) /\ ~Adjacent(u, s)
<1>1. /\ SearchTypes /\ ShoresKnown /\ WaterHeld
      /\ searchStack = <<>> /\ stage = "waters"
  BY DEF FillPool, WaterInv, Searched
<1>2. Found = visited
  <2>1. Range(searchStack) = {}
    BY <1>1 DEF Range
  <2> QED BY <2>1 DEF Found
<1>3. s \in Tiles /\ u \in Tiles
  BY <1>1 DEF SearchTypes, water
<1>4. elevation[s] \in 0 .. 31 /\ elevation[u] \in 0 .. 31
  BY <1>1, <1>3 DEF SearchTypes, Heights
<1>5. ASSUME Adjacent(s, u), Adjacent(u, s) PROVE FALSE
  <2>1. elevation[s] < elevation[u]
    BY <1>1, <1>2, <1>3, <1>5 DEF ShoresKnown
  <2>2. elevation[u] <= elevation[s]
    BY <1>1, <1>3, <1>5 DEF WaterHeld
  <2> QED BY <1>4, <2>1, <2>2
<1> QED BY <1>3, <1>5, AdjacentSymmetric

LEMMA FillPoolSizes ==
  ASSUME WaterInv, Connected, Sized, FillPool
  PROVE  Sized'
<1>1. /\ searching /\ searchStack = <<>>
      /\ terrtype' = [t \in Tiles |-> IF t \in visited THEN "water" ELSE terrtype[t]]
      /\ poolSizes' = [t \in DOMAIN poolSizes \cup visited |->
                         IF t \in visited THEN Cardinality(visited) ELSE poolSizes[t]]
  BY DEF FillPool, Flooded, Recorded
<1>2. SearchTypes
  BY DEF WaterInv
<1>3. water' = water \cup visited
  BY <1>1, <1>2 DEF SearchTypes, water
<1>4. Found = visited
  <2>1. Range(searchStack) = {}
    BY <1>1 DEF Range
  <2> QED BY <2>1 DEF Found
<1> DEFINE parts == ClosedWater'
<1>5. \A part : part \in parts <=>
        /\ part \subseteq water \cup visited
        /\ \A t \in part, u \in water \cup visited : Adjacent(t, u) => u \in part
  BY <1>3 DEF ClosedWater, Adjacent, adjacentNode, directions
<1>6. \A part : part \in ClosedWater <=>
        /\ part \subseteq water
        /\ \A t \in part, u \in water : Adjacent(t, u) => u \in part
  BY DEF ClosedWater
<1>7. \A s \in visited, u \in water \ visited : ~Adjacent(s, u) /\ ~Adjacent(u, s)
  BY PoolApart
<1> DEFINE NewBody(s) == {t \in water \cup visited : \A part \in parts : s \in part => t \in part}
<1>8. \A s : Body(ClosedWater, s)' = NewBody(s)
  BY <1>3 DEF Body
<1> HIDE DEF parts
<1>9. ASSUME NEW s \in visited PROVE NewBody(s) = visited
  <2>1. visited \in parts
    BY <1>5, <1>7
  <2>2. ASSUME NEW part \in parts, s \in part PROVE visited \subseteq part
    <3>1. part \cap visited # {} /\ part \cap visited \in SUBSET Found
      BY <1>4, <2>2
    <3>2. \A x \in part \cap visited, t \in Found : Adjacent(x, t) => t \in part \cap visited
      BY <1>4, <1>5
    <3>3. part \cap visited = Found
      BY <1>1, <3>1, <3>2 DEF Connected
    <3> QED BY <1>4, <3>3
  <2> QED BY <2>1, <2>2
<1>10. ASSUME NEW s \in water \ visited PROVE NewBody(s) = Body(ClosedWater, s)
  <2>1. water \ visited \in parts
    BY <1>5, <1>7
  <2>2. ASSUME NEW part \in ClosedWater PROVE part \ visited \in parts
    BY <1>5, <1>6, <1>7
  <2>3. ASSUME NEW part \in parts PROVE part \ visited \in ClosedWater
    BY <1>5, <1>6, <1>7
  <2>4. ASSUME NEW t \in NewBody(s) PROVE t \in Body(ClosedWater, s)
    <3>1. t \in water \ visited
      BY <2>1
    <3>2. ASSUME NEW part \in ClosedWater, s \in part PROVE t \in part
      BY <2>2, <3>2
    <3> QED BY <3>1, <3>2 DEF Body
  <2>5. ASSUME NEW t \in Body(ClosedWater, s) PROVE t \in NewBody(s)
    <3>1. t \in water
      BY DEF Body
    <3>2. ASSUME NEW part \in parts, s \in part PROVE t \in part
      BY <2>3, <3>2 DEF Body
    <3> QED BY <3>1, <3>2
  <2> QED BY <2>4, <2>5
<1>11. DOMAIN poolSizes' = water'
  BY <1>1, <1>3 DEF Sized
<1>12. ASSUME NEW s \in water' PROVE poolSizes'[s] = Cardinality(NewBody(s))
  <2> HIDE DEF NewBody
  <2>1. CASE s \in visited
    BY <1>1, <1>9, <2>1
  <2>2. CASE s \in water \ visited
    BY <1>1, <1>10, <2>2 DEF Sized
  <2> QED BY <1>3, <2>1, <2>2
<1> HIDE DEF NewBody
<1>13. \A s \in water' : poolSizes'[s] = Cardinality(Body(ClosedWater, s)')
  BY <1>8, <1>12
<1> QED BY <1>11, <1>13 DEF Sized

(* Nothing else writes the mapping or the water while pools are dropped. *)
LEMMA KeepsSizes ==
  ASSUME Sized, UNCHANGED <<terrtype, poolSizes>>
  PROVE  Sized'
<1>1. water' = water
  BY DEF water
<1> QED BY <1>1 DEF Sized, Body, ClosedWater, Adjacent, adjacentNode, directions

LEMMA SizesStep ==
  ASSUME StartInv, SizesInv, [Next]_vars
  PROVE  SizesInv'
<1>1. CASE LoadLibrary \/ Elevate
  <2>1. /\ Sized /\ UNCHANGED <<terrtype, poolSizes, searching>>
        /\ ~searching
    BY <1>1 DEF LoadLibrary, Elevate, generate_world_elevation, SizesInv, StartInv, Dry
  <2>2. Sized' /\ Connected'
    BY <2>1, KeepsSizes DEF Connected
  <2> QED BY <2>2 DEF SizesInv
<1>2. CASE generate_world_waters
  <2>1. stage = "waters" /\ stage' = "waters"
    BY <1>2 DEF generate_world_waters, generate_water_area, StartPool, Revisit, Leak,
                Spread, FillPool, Observing, PoolDone
  <2>2. WaterInv /\ Sized /\ Connected
    BY <2>1 DEF StartInv, SizesInv
  <2>3. Connected'
    <3>1. CASE FillPool
      BY <3>1 DEF FillPool, PoolDone, Connected
    <3> QED BY <1>2, <2>2, <3>1, SpreadConnected, SearchConnected
            DEF generate_world_waters, generate_water_area
  <2>4. Sized'
    <3>1. CASE FillPool
      BY <2>2, <3>1, FillPoolSizes
    <3>2. CASE ~FillPool
      <4>1. UNCHANGED <<terrtype, poolSizes>>
        BY <1>2, <3>2 DEF generate_world_waters, generate_water_area, StartPool, Revisit,
                          Leak, Spread
      <4> QED BY <2>2, <4>1, KeepsSizes
    <3> QED BY <3>1, <3>2
  <2> QED BY <2>3, <2>4 DEF SizesInv
<1>3. CASE Waters /\ ~generate_world_waters
  <2>1. stage' = "cliffs"
    BY <1>3 DEF Waters
  <2> QED BY <2>1 DEF SizesInv
<1>4. CASE \/ Cliffs \/ Temperature \/ Environment \/ Waves \/ WavesEnd
           \/ LoadFactions \/ SpawnUnits \/ Started
  <2>1. stage' \notin {"library", "elevation", "waters"}
    BY <1>4 DEF Cliffs, Temperature, Environment, Waves, VisitTile, Grow, NextWave, WavesEnd,
                LoadFactions, SpawnUnits, Started, Dies
  <2> QED BY <2>1 DEF SizesInv
<1>5. CASE UNCHANGED vars
  <2>1. UNCHANGED <<terrtype, poolSizes, searching, stage>> /\ Found' = Found
    BY <1>5 DEF vars, Found
  <2>2. Connected => Connected'
    BY <2>1 DEF Connected, Adjacent, adjacentNode, directions
  <2> QED BY <2>1, <2>2, KeepsSizes DEF SizesInv
<1> QED BY <1>1, <1>2, <1>3, <1>4, <1>5 DEF Next

LEMMA SizesInvariant == Spec => []SizesInv
<1>1. Init => SizesInv
  <2> SUFFICES ASSUME Init PROVE SizesInv
    OBVIOUS
  <2>1. water = {} /\ DOMAIN poolSizes = {} /\ stage = "library"
    BY DEF Init, NoWater, water
  <2> QED BY <2>1 DEF SizesInv, Sized
<1>2. StartInv /\ SizesInv /\ [Next]_vars => SizesInv'
  BY SizesStep
<1> QED BY <1>1, <1>2, StartInvariant, PTL DEF Spec

(* However the pools fall, into or beside one another, the mapping knows the *)
(* size of the body of water around each tile of water and no other tile.    *)
THEOREM PoolSizesKnown == Spec => []PoolSizesRight
<1>1. SizesInv => PoolSizesRight
  BY DEF SizesInv, Sized, PoolSizesRight
<1> QED BY <1>1, SizesInvariant, PTL

=============================================================================
