----------------------------- MODULE WorldProofs -----------------------------
(***************************************************************************)
(* What holds of the running world for every width, every number of        *)
(* objects and every speed: types; trees stay where they are; units keep a *)
(* tile of their own; and spawns leave no more things than objects.        *)
(***************************************************************************)
EXTENDS World, FiniteSetTheorems, TLAPS

Object == [pos : Tiles, type : Thing, queue : Seq(Directions), progress : Nat]

ProgressBound == MoveEnd + speed[Unit] + speed[Tree] + speed[Empty]

ObjectOK(o) ==
  /\ o \in Object
  /\ Len(o.queue) <= 2
  /\ o.progress < ProgressBound

GameTypes ==
  /\ world \in [Tiles -> Thing]
  /\ gamePc \in {"queue", "begin", "update"}
  /\ next \in Nat \ {0}
  /\ last \in 0 .. Len(objects)
  /\ next <= last + 1

ObjectTypes ==
  /\ objects \in Seq(Object)
  /\ Len(objects) <= MaxObjects
  /\ \A i \in DOMAIN objects : ObjectOK(objects[i])

HandlerTypes ==
  /\ handlerPc \in {"none", "push", "write", "terrain"}
  /\ handlerPc = "push" => Len(objects) < MaxObjects
  /\ target \in [tile : Tiles, thing : Thing]

ScanTypes ==
  /\ scanned \in 0 .. worldWidth * worldWidth
  /\ view \in [0 .. scanned - 1 -> Thing]

TypeInv ==
  /\ scenario \in Scenarios
  /\ GameTypes
  /\ ObjectTypes
  /\ HandlerTypes
  /\ ScanTypes

-----------------------------------------------------------------------------
LEMMA Constants ==
  /\ worldWidth * worldWidth \in Nat \ {0}
  /\ 0 \in Tiles
  /\ Tiles \subseteq Nat
  /\ \A thing \in Thing : speed[thing] \in Nat /\ speed[thing] <= speed[Unit] + speed[Tree] + speed[Empty]
  /\ MoveEnd \in Nat \ {0}
  /\ MaxObjects \in Nat
<1>1. worldWidth * worldWidth \in Nat \ {0}
  BY WorldAssumption
<1>2. \A thing \in Thing : speed[thing] \in Nat
  BY WorldAssumption
<1>3. Unit \in Thing /\ Tree \in Thing /\ Empty \in Thing
  BY DEF Thing
<1>4. \A thing \in Thing : speed[thing] <= speed[Unit] + speed[Tree] + speed[Empty]
  BY <1>2, <1>3 DEF Thing
<1>5. QED
  BY <1>1, <1>2, <1>4, WorldAssumption DEF Tiles

LEMMA Distinct == Empty # Unit /\ Empty # Tree /\ Unit # Tree
<1>1. ASSUME NEW a, NEW b PROVE Cardinality({a, b}) <= 2
  <2>1. {a, b} = {a} \cup {b}
    OBVIOUS
  <2>2. IsFiniteSet({a}) /\ Cardinality({a}) = 1
    BY FS_Singleton
  <2>3. QED
    BY <2>1, <2>2, FS_AddElement
<1>2. Cardinality({Empty, Unit, Tree}) = 3
  BY WorldAssumption DEF Thing
<1>3. ASSUME Empty = Unit PROVE FALSE
  <2>1. {Empty, Unit, Tree} = {Unit, Tree}
    BY <1>3
  <2>2. QED
    BY <2>1, <1>1, <1>2
<1>4. ASSUME Empty = Tree PROVE FALSE
  <2>1. {Empty, Unit, Tree} = {Unit, Tree}
    BY <1>4
  <2>2. QED
    BY <2>1, <1>1, <1>2
<1>5. ASSUME Unit = Tree PROVE FALSE
  <2>1. {Empty, Unit, Tree} = {Empty, Tree}
    BY <1>5
  <2>2. QED
    BY <2>1, <1>1, <1>2
<1>6. QED
  BY <1>3, <1>4, <1>5

LEMMA SomeProgress == 0 < ProgressBound
BY Constants DEF ProgressBound, Thing

(* "idle" is no direction: it is never queued. *)
LEMMA DirectionsOffsets ==
  ASSUME scenario \in Scenarios
  PROVE  Directions \subseteq DOMAIN offset /\ "idle" \notin Directions
<1>1. Directions \subseteq DOMAIN offset
  BY WorldAssumption DEF Directions, Scenario
<1>2. "idle" \notin DOMAIN offset
  BY DEF offset
<1>3. QED
  BY <1>1, <1>2

-----------------------------------------------------------------------------
(* What the constructor leaves. *)
LEMMA InitWorld ==
  ASSUME Init
  PROVE  /\ scenario \in Scenarios /\ Trees \in Nat /\ Units \in Nat
         /\ Trees + Units <= MaxObjects
         /\ objects \in Seq(Object) /\ Len(objects) = Trees + Units
         /\ world \in [Tiles -> Thing]
         /\ \A i \in 1 .. Trees + Units :
              /\ objects[i] = NewObject(objects[i].pos, IF i <= Trees THEN Tree ELSE Unit)
              /\ objects[i].pos \in Tiles
              /\ world[objects[i].pos] = objects[i].type
              /\ \A j \in 1 .. Trees + Units : i # j => objects[i].pos # objects[j].pos
         /\ \A t \in Tiles : world[t] # Empty => \E i \in 1 .. Trees + Units : objects[i].pos = t
<1>1. /\ scenario \in Scenarios /\ Trees \in Nat /\ Units \in Nat
      /\ Trees + Units <= MaxObjects
  BY WorldAssumption DEF Init, Scenario, Trees, Units
<1>2. PICK place \in [1 .. Trees + Units -> Tiles] :
        /\ \A i, j \in DOMAIN place : place[i] = place[j] => i = j
        /\ objects = [i \in 1 .. Trees + Units |->
                        NewObject(place[i], IF i <= Trees THEN Tree ELSE Unit)]
        /\ world = [t \in Tiles |->
                      IF \E i \in 1 .. Trees + Units : place[i] = t
                      THEN objects[CHOOSE i \in 1 .. Trees + Units : place[i] = t].type
                      ELSE Empty]
  BY DEF Init
<1>3. <<>> \in Seq(Directions) /\ Tree \in Thing /\ Unit \in Thing /\ Empty \in Thing
  BY DEF Thing
<1>4. \A i \in 1 .. Trees + Units :
        /\ objects[i] = NewObject(place[i], IF i <= Trees THEN Tree ELSE Unit)
        /\ objects[i] \in Object
        /\ objects[i].pos = place[i] /\ objects[i].type \in Thing
  BY <1>2, <1>3 DEF NewObject, Object
<1>5. objects \in Seq(Object) /\ Len(objects) = Trees + Units
  BY <1>1, <1>2, <1>4
<1>6. ASSUME NEW i \in 1 .. Trees + Units
      PROVE  place[i] \in Tiles /\ world[place[i]] = objects[i].type
  <2>1. (CHOOSE k \in 1 .. Trees + Units : place[k] = place[i]) = i
    BY <1>2
  <2>2. QED
    BY <1>2, <2>1
<1>7. world \in [Tiles -> Thing]
  <2>1. ASSUME NEW t \in Tiles, \E i \in 1 .. Trees + Units : place[i] = t
        PROVE  objects[CHOOSE i \in 1 .. Trees + Units : place[i] = t].type \in Thing
    BY <1>4, <2>1
  <2>2. QED
    BY <1>2, <1>3, <2>1
<1>8. \A t \in Tiles : world[t] # Empty => \E i \in 1 .. Trees + Units : objects[i].pos = t
  BY <1>2, <1>4
<1>9. QED
  BY <1>1, <1>2, <1>4, <1>5, <1>6, <1>7, <1>8

LEMMA TypeInit == Init => TypeInv
<1>1. SUFFICES ASSUME Init PROVE TypeInv
  OBVIOUS
<1>2. GameTypes
  BY <1>1, InitWorld, Constants DEF Init, GameTypes
<1>3. ObjectTypes
  <2>1. ASSUME NEW i \in DOMAIN objects PROVE ObjectOK(objects[i])
    <3>1. objects[i] \in Object /\ i \in 1 .. Trees + Units
      BY <1>1, <2>1, InitWorld
    <3>2. objects[i].queue = <<>> /\ objects[i].progress = 0
      BY <1>1, <3>1, InitWorld DEF NewObject
    <3>3. 0 < ProgressBound
      BY Constants DEF ProgressBound, Thing
    <3>4. QED
      BY <3>1, <3>2, <3>3 DEF ObjectOK
  <2>2. QED
    BY <1>1, <2>1, InitWorld DEF ObjectTypes
<1>4. HandlerTypes
  BY <1>1, Constants DEF Init, HandlerTypes, NoTarget, Thing
<1>5. ScanTypes
  BY <1>1, Constants DEF Init, ScanTypes
<1>6. QED
  BY <1>1, <1>2, <1>3, <1>4, <1>5 DEF TypeInv, Init

-----------------------------------------------------------------------------
(* The object the game thread is at, and its first action. *)
LEMMA Current ==
  ASSUME TypeInv, gamePc = "update", next <= last
  PROVE  /\ next \in 1 .. Len(objects) /\ next \in DOMAIN objects
         /\ obj \in Object /\ ObjectOK(obj)
         /\ obj.queue = <<>> => Head(actions) = "idle" /\ Tail(actions) = <<>>
         /\ obj.queue # <<>> => Head(actions) \in Directions
         /\ Tail(actions) \in Seq(Directions) /\ Len(Tail(actions)) <= 1
<1>1. next \in 1 .. Len(objects) /\ next \in DOMAIN objects
  BY DEF TypeInv, GameTypes, ObjectTypes
<1>2. obj \in Object /\ ObjectOK(obj)
  BY <1>1 DEF TypeInv, ObjectTypes, ObjectOK, obj
<1>3. obj.queue \in Seq(Directions) /\ Len(obj.queue) <= 2
  BY <1>2 DEF Object, ObjectOK
<1>4. CASE obj.queue = <<>>
  <2>1. actions = <<"idle">>
    BY <1>4 DEF actions
  <2>2. Head(actions) = "idle" /\ Tail(actions) = <<>>
    BY <2>1
  <2>3. <<>> \in Seq(Directions) /\ Len(<<>>) <= 1
    OBVIOUS
  <2>4. QED
    BY <1>1, <1>2, <1>4, <2>2, <2>3
<1>5. CASE obj.queue # <<>>
  <2>1. actions = obj.queue
    BY <1>5 DEF actions
  <2>2. /\ Head(obj.queue) \in Directions
        /\ Tail(obj.queue) \in Seq(Directions) /\ Len(Tail(obj.queue)) <= 1
    BY <1>3, <1>5
  <2>3. QED
    BY <1>1, <1>2, <1>5, <2>1, <2>2
<1>6. QED
  BY <1>4, <1>5

(* An action of the object the game thread is at. *)
LEMMA TypeBecomes ==
  ASSUME TypeInv, gamePc = "update", next <= last, UNCHANGED scenario,
         NEW o, ObjectOK(o), Becomes(o), world' \in [Tiles -> Thing]
  PROVE  TypeInv'
<1>1. next \in 1 .. Len(objects)
  BY Current
<1>2. objects' = [objects EXCEPT ![next] = o]
  BY DEF Becomes
<1>3. o \in Object
  BY DEF ObjectOK
<1>4. objects' \in Seq(Object) /\ Len(objects') = Len(objects)
  BY <1>1, <1>2, <1>3 DEF TypeInv, ObjectTypes
<1>5. Object' = Object /\ \A x : ObjectOK(x)' <=> ObjectOK(x)
  BY DEF Object, ObjectOK, Directions
<1>6. \A i \in DOMAIN objects' : ObjectOK(objects'[i])
  BY <1>1, <1>2, <1>4 DEF TypeInv, ObjectTypes
<1>7. ObjectTypes'
  BY <1>4, <1>5, <1>6 DEF TypeInv, ObjectTypes
<1>8. GameTypes'
  BY <1>1, <1>4 DEF TypeInv, GameTypes, Becomes
<1>9. HandlerTypes' /\ ScanTypes'
  BY <1>4 DEF TypeInv, HandlerTypes, ScanTypes, Becomes, handlerVars, scanVars
<1>10. QED
  BY <1>7, <1>8, <1>9 DEF TypeInv

(* A move's queue and start, as Updating leaves them. *)
LEMMA Moves ==
  ASSUME TypeInv, Updating("move")
  PROVE  /\ gamePc = "update" /\ next <= last
         /\ obj.queue # <<>> /\ obj.pos \in Tiles
<1>1. /\ gamePc = "update" /\ next <= last
      /\ Head(actions) \in Directions
  BY DEF Updating
<1>2. "idle" \notin Directions
  BY DirectionsOffsets DEF TypeInv
<1>3. obj.queue # <<>> /\ obj.pos \in Tiles
  BY <1>1, <1>2, Current DEF Object
<1>4. QED
  BY <1>1, <1>3

LEMMA Idles ==
  ASSUME TypeInv, Updating("idle")
  PROVE  /\ gamePc = "update" /\ next <= last
         /\ obj.queue = <<>> /\ Tail(actions) = <<>>
<1>1. /\ gamePc = "update" /\ next <= last
      /\ Head(actions) = "idle"
  BY DEF Updating
<1>2. "idle" \notin Directions
  BY DirectionsOffsets DEF TypeInv
<1>3. QED
  BY <1>1, <1>2, Current

(* Objects as Append leaves them. *)
LEMMA ObjectFields ==
  ASSUME NEW p \in Tiles, NEW t \in Thing, NEW q \in Seq(Directions), NEW g \in Nat
  PROVE  \A o \in Object :
           /\ [o EXCEPT !.pos = p, !.queue = q] \in Object
           /\ [o EXCEPT !.queue = q, !.progress = g] \in Object
           /\ [o EXCEPT !.type = t, !.progress = g] \in Object
           /\ [o EXCEPT !.pos = p, !.queue = q, !.progress = g] \in Object
BY DEF Object

LEMMA TypeQueueMoves ==
  ASSUME TypeInv, QueueMoves, UNCHANGED scenario
  PROVE  TypeInv'
<1>1. PICK r \in [DOMAIN objects -> Directions] :
        objects' = [i \in DOMAIN objects |->
          IF objects[i].type = Unit /\ Len(objects[i].queue) < 2
          THEN [objects[i] EXCEPT !.queue = Append(@, r[i])]
          ELSE objects[i]]
  BY DEF QueueMoves
<1>2. Object' = Object /\ \A x : ObjectOK(x)' <=> ObjectOK(x)
  BY DEF Object, ObjectOK, Directions
<1>3. ASSUME NEW i \in DOMAIN objects
      PROVE  ObjectOK(objects'[i])
  <2>1. objects[i] \in Object /\ ObjectOK(objects[i])
    BY DEF TypeInv, ObjectTypes, ObjectOK
  <2>2. CASE objects[i].type = Unit /\ Len(objects[i].queue) < 2
    <3> DEFINE q == Append(objects[i].queue, r[i])
    <3>1. q \in Seq(Directions) /\ Len(q) <= 2
      BY <2>1, <2>2 DEF Object
    <3>2. objects'[i] = [objects[i] EXCEPT !.queue = q]
      BY <1>1, <2>2
    <3>3. /\ objects'[i] \in Object /\ objects'[i].queue = q
          /\ objects'[i].progress = objects[i].progress
      BY <2>1, <3>1, <3>2 DEF Object
    <3>4. QED
      BY <2>1, <3>1, <3>3 DEF ObjectOK
  <2>3. CASE ~(objects[i].type = Unit /\ Len(objects[i].queue) < 2)
    BY <1>1, <2>1, <2>3
  <2>4. QED
    BY <2>2, <2>3
<1>4. DOMAIN objects = 1 .. Len(objects) /\ Len(objects) \in Nat
  BY DEF TypeInv, ObjectTypes
<1>5. objects' \in Seq(Object) /\ Len(objects') = Len(objects)
      /\ DOMAIN objects' = DOMAIN objects
  <2>1. \A i \in 1 .. Len(objects) : objects'[i] \in Object
    BY <1>3, <1>4 DEF ObjectOK
  <2>2. objects' = [i \in 1 .. Len(objects) |-> objects'[i]]
    BY <1>1, <1>4
  <2>3. QED
    BY <1>4, <2>1, <2>2
<1>6. ObjectTypes'
  BY <1>2, <1>3, <1>5 DEF TypeInv, ObjectTypes
<1>7. GameTypes' /\ HandlerTypes' /\ ScanTypes'
  BY <1>5 DEF QueueMoves, TypeInv, GameTypes, HandlerTypes, ScanTypes, handlerVars, scanVars
<1>8. QED
  BY <1>6, <1>7 DEF TypeInv

LEMMA TypeRun ==
  ASSUME TypeInv, run, UNCHANGED scenario
  PROVE  TypeInv'
<1>1. CASE QueueMoves
  BY <1>1, TypeQueueMoves
<1>2. CASE BeginUpdate
  <2>1. ObjectTypes' /\ HandlerTypes' /\ ScanTypes'
    BY <1>2 DEF BeginUpdate, TypeInv, ObjectTypes, HandlerTypes, ScanTypes, ObjectOK,
                Object, Directions, handlerVars, scanVars
  <2>2. GameTypes'
    BY <1>2 DEF BeginUpdate, TypeInv, GameTypes, ObjectTypes
  <2>3. QED
    BY <2>1, <2>2 DEF TypeInv
<1>3. CASE EndUpdate
  <2>1. ObjectTypes' /\ HandlerTypes' /\ ScanTypes'
    BY <1>3 DEF EndUpdate, TypeInv, ObjectTypes, HandlerTypes, ScanTypes, ObjectOK,
                Object, Directions, handlerVars, scanVars
  <2>2. GameTypes'
    BY <1>3 DEF EndUpdate, TypeInv, GameTypes
  <2>3. QED
    BY <2>1, <2>2 DEF TypeInv
<1>4. CASE Idle
  <2> DEFINE o == [obj EXCEPT !.pos = 0, !.queue = Tail(actions)]
  <2>1. gamePc = "update" /\ next <= last /\ Becomes(o) /\ world' = world
    BY <1>4 DEF Idle, Updating
  <2>2. o \in Object /\ o.queue = Tail(actions) /\ o.progress = obj.progress
    BY <2>1, Current, Constants DEF Object
  <2>3. ObjectOK(o)
    BY <2>1, <2>2, Current DEF ObjectOK
  <2>4. QED
    BY <2>1, <2>3, TypeBecomes DEF TypeInv, GameTypes
<1>5. CASE MoveFails
  <2> DEFINE o == [obj EXCEPT !.queue = Tail(actions), !.progress = 0]
  <2>1. gamePc = "update" /\ next <= last /\ Becomes(o) /\ world' = world
    BY <1>5 DEF MoveFails, Updating
  <2>2. o \in Object /\ o.queue = Tail(actions) /\ o.progress = 0
    BY <2>1, Current DEF Object
  <2>3. ObjectOK(o)
    BY <2>1, <2>2, Current, SomeProgress DEF ObjectOK
  <2>4. QED
    BY <2>1, <2>3, TypeBecomes DEF TypeInv, GameTypes
<1>6. CASE MoveGoesOn
  <2> DEFINE moving == world[obj.pos]
             o == [obj EXCEPT !.type = moving, !.progress = @ + speed[moving]]
  <2>1. gamePc = "update" /\ next <= last /\ Becomes(o) /\ world' = world
        /\ obj.progress < MoveEnd
    BY <1>6 DEF MoveGoesOn, Updating
  <2>2. moving \in Thing
    BY <2>1, Current DEF Object, TypeInv, GameTypes
  <2>3. speed[moving] \in Nat /\ speed[moving] <= speed[Unit] + speed[Tree] + speed[Empty]
    BY <2>2, Constants
  <2>4. /\ speed[Unit] \in Nat /\ speed[Tree] \in Nat /\ speed[Empty] \in Nat
        /\ MoveEnd \in Nat
    BY Constants DEF Thing
  <2>5. /\ obj.progress \in Nat
        /\ o \in Object /\ o.queue = obj.queue /\ o.progress = obj.progress + speed[moving]
    <3>1. obj \in Object
      BY <2>1, Current
    <3>2. obj.progress \in Nat /\ obj.progress + speed[moving] \in Nat
      BY <2>3, <3>1 DEF Object
    <3>3. o = [obj EXCEPT !.type = moving, !.progress = obj.progress + speed[moving]]
      BY <3>1 DEF Object
    <3>4. QED
      BY <2>2, <3>1, <3>2, <3>3 DEF Object
  <2>6. o.progress < ProgressBound
    BY <2>1, <2>3, <2>4, <2>5 DEF ProgressBound
  <2>7. ObjectOK(o)
    BY <2>1, <2>5, <2>6, Current DEF ObjectOK
  <2>8. QED
    BY <2>1, <2>7, TypeBecomes DEF TypeInv, GameTypes
<1>7. CASE MoveEnds
  <2> DEFINE o == [obj EXCEPT !.pos = destination, !.queue = Tail(actions), !.progress = 0]
  <2>1. gamePc = "update" /\ next <= last /\ Becomes(o) /\ destination \in Tiles
    BY <1>7 DEF MoveEnds, Updating, Movable
  <2>2. o \in Object /\ o.queue = Tail(actions) /\ o.progress = 0
    BY <2>1, Current DEF Object
  <2>3. ObjectOK(o)
    BY <2>1, <2>2, Current, SomeProgress DEF ObjectOK
  <2>4. world' \in [Tiles -> Thing]
    <3>1. world[obj.pos] \in Thing /\ Empty \in Thing
      BY <2>1, Current DEF Object, TypeInv, GameTypes, Thing
    <3>2. QED
      BY <1>7, <3>1 DEF MoveEnds, TypeInv, GameTypes
  <2>5. QED
    BY <2>1, <2>3, <2>4, TypeBecomes
<1>8. QED
  BY <1>1, <1>2, <1>3, <1>4, <1>5, <1>6, <1>7 DEF run

LEMMA TypeAdmin ==
  ASSUME TypeInv, AdminMessages, UNCHANGED scenario
  PROVE  TypeInv'
<1>1. Object' = Object /\ \A x : ObjectOK(x)' <=> ObjectOK(x)
  BY DEF Object, ObjectOK, Directions
<1>2. world \in [Tiles -> Thing] /\ target.tile \in Tiles /\ target.thing \in Thing
      /\ NoTarget \in [tile : Tiles, thing : Thing]
  BY Constants DEF TypeInv, GameTypes, HandlerTypes, NoTarget, Thing
<1>3. ASSUME NEW tile \in Tiles, TerrainLoad(tile)
      PROVE  TypeInv'
  BY <1>1, <1>2, <1>3 DEF TerrainLoad, TypeInv, GameTypes, ObjectTypes, HandlerTypes,
                          ScanTypes, gameVars, scanVars
<1>4. ASSUME NEW tile \in Tiles, NEW thing \in Thing, SpawnCheck(tile, thing)
      PROVE  TypeInv'
  BY <1>1, <1>4 DEF SpawnCheck, TypeInv, GameTypes, ObjectTypes, HandlerTypes,
                    ScanTypes, gameVars, scanVars
<1>5. CASE SpawnPush
  <2> DEFINE o == NewObject(target.tile, target.thing)
  <2>1. <<>> \in Seq(Directions) /\ 0 < ProgressBound
    BY Constants DEF ProgressBound, Thing
  <2>2. ObjectOK(o)
    BY <1>2, <2>1 DEF ObjectOK, Object, NewObject
  <2>3. objects' = Append(objects, o) /\ Len(objects) < MaxObjects
        /\ objects \in Seq(Object) /\ \A i \in DOMAIN objects : ObjectOK(objects[i])
    BY <1>5 DEF SpawnPush, TypeInv, HandlerTypes, ObjectTypes
  <2>4. objects' \in Seq(Object) /\ Len(objects') = Len(objects) + 1
        /\ \A i \in DOMAIN objects' : ObjectOK(objects'[i])
    BY <2>2, <2>3 DEF ObjectOK
  <2>5. ObjectTypes'
    BY <1>1, <2>3, <2>4, Constants DEF ObjectTypes
  <2>6. HandlerTypes'
    BY <1>5 DEF SpawnPush, HandlerTypes, TypeInv
  <2>7. GameTypes' /\ ScanTypes'
    BY <1>5, <2>3, <2>4 DEF SpawnPush, GameTypes, ScanTypes, TypeInv, gameVars, scanVars
  <2>8. QED
    BY <2>5, <2>6, <2>7 DEF TypeInv
<1>6. CASE SpawnWrite
  BY <1>1, <1>2, <1>6 DEF SpawnWrite, TypeInv, GameTypes, ObjectTypes, HandlerTypes,
                          ScanTypes, gameVars, scanVars
<1>7. CASE TerrainStore
  BY <1>1, <1>2, <1>7 DEF TerrainStore, TypeInv, GameTypes, ObjectTypes, HandlerTypes,
                          ScanTypes, gameVars, scanVars
<1>8. QED
  BY <1>3, <1>4, <1>5, <1>6, <1>7 DEF AdminMessages

LEMMA TypeScan ==
  ASSUME TypeInv, getWorldState, UNCHANGED scenario
  PROVE  TypeInv'
<1>1. Object' = Object /\ \A x : ObjectOK(x)' <=> ObjectOK(x)
  BY DEF Object, ObjectOK, Directions
<1>2. GameTypes' /\ ObjectTypes' /\ HandlerTypes'
  BY <1>1 DEF getWorldState, CopyTile, NewMessage, TypeInv, GameTypes, ObjectTypes,
              HandlerTypes, gameVars, handlerVars
<1>3. CASE CopyTile
  <2>1. /\ scanned \in Tiles /\ scanned \in Nat /\ scanned' = scanned + 1
        /\ scanned' \in 0 .. worldWidth * worldWidth
        /\ 0 .. scanned' - 1 = 0 .. scanned
    BY <1>3, Constants DEF CopyTile, Tiles
  <2>2. ASSUME NEW t \in 0 .. scanned
        PROVE  (IF t = scanned THEN world[t] ELSE view[t]) \in Thing
    BY <2>1 DEF TypeInv, ScanTypes, GameTypes
  <2>3. view' \in [0 .. scanned -> Thing]
    BY <1>3, <2>2 DEF CopyTile
  <2>4. QED
    BY <1>2, <2>1, <2>3 DEF TypeInv, ScanTypes
<1>4. CASE NewMessage
  <2>1. scanned' = 0 /\ view' = <<>>
    BY <1>4 DEF NewMessage
  <2>2. ScanTypes'
    BY <2>1, Constants DEF ScanTypes
  <2>3. QED
    BY <1>2, <2>2 DEF TypeInv
<1>5. QED
  BY <1>3, <1>4 DEF getWorldState

LEMMA TypeNext == TypeInv /\ [Next]_vars => TypeInv'
<1>1. SUFFICES ASSUME TypeInv, [Next]_vars PROVE TypeInv'
  OBVIOUS
<1>2. CASE UNCHANGED vars
  BY <1>1, <1>2 DEF vars, gameVars, handlerVars, scanVars, TypeInv, GameTypes, ObjectTypes,
                    HandlerTypes, ScanTypes, ObjectOK, Object, Directions
<1>3. CASE Next
  BY <1>1, <1>3, TypeRun, TypeAdmin, TypeScan DEF Next
<1>4. QED
  BY <1>1, <1>2, <1>3

LEMMA TypeInvariant == Spec => []TypeInv
BY TypeInit, TypeNext, PTL DEF Spec

LEMMA TypeOK == TypeInv => WorldTypeOK
<1>1. SUFFICES ASSUME TypeInv PROVE WorldTypeOK
  OBVIOUS
<1>2. ASSUME NEW i \in DOMAIN objects
      PROVE  /\ objects[i].pos \in Tiles
             /\ objects[i].type \in Thing
             /\ objects[i].progress < MoveEnd + speed[Unit] + speed[Tree] + speed[Empty]
             /\ Len(objects[i].queue) <= 2
             /\ \A k \in DOMAIN objects[i].queue :
                  objects[i].queue[k] \in Directions \cup {"idle"}
  BY <1>1 DEF TypeInv, ObjectTypes, ObjectOK, Object, ProgressBound
<1>3. /\ Len(objects) \in 0 .. MaxObjects
      /\ next \in 1 .. MaxObjects + 1
      /\ last \in 0 .. MaxObjects
  BY <1>1, Constants DEF TypeInv, ObjectTypes, GameTypes
<1>4. QED
  BY <1>1, <1>2, <1>3 DEF WorldTypeOK, TypeInv, GameTypes, HandlerTypes, ScanTypes

(* Every step keeps the types, the moves two at most and the loop of the   *)
(* game thread inside the vector, whatever is spawned meanwhile.           *)
THEOREM WorldTyped == Spec => []WorldTypeOK
BY TypeInvariant, TypeOK, PTL

-----------------------------------------------------------------------------
(***************************************************************************)
(* Without spawns every unit has something to do when the loop reaches it, *)
(* so no unit idles and is put at (0, 0).                                  *)
(***************************************************************************)
Still ==
  /\ handlerPc \in {"none", "terrain"}
  /\ \A i \in DOMAIN objects :
       /\ objects[i].type = Unit
       /\ gamePc = "begin" \/ (gamePc = "update" /\ next <= i)
       => objects[i].queue # <<>>

SameWorld == UNCHANGED <<world, objects, gameVars, handlerVars>>

QuietStep ==
  \/ QueueMoves \/ BeginUpdate \/ EndUpdate
  \/ Idle \/ MoveFails \/ MoveGoesOn \/ MoveEnds
  \/ \E tile \in Tiles : TerrainLoad(tile)
  \/ TerrainStore
  \/ SameWorld

LEMMA QuietSteps ==
  ASSUME Still, "spawn" \notin admins, [Next]_vars
  PROVE  QuietStep /\ scenario' = scenario
<1>1. CASE UNCHANGED vars
  BY <1>1 DEF vars, QuietStep, SameWorld
<1>2. CASE run /\ UNCHANGED scenario
  BY <1>2 DEF run, QuietStep
<1>3. CASE AdminMessages /\ UNCHANGED scenario
  <2>1. ~SpawnPush /\ ~SpawnWrite /\ \A tile, thing : ~SpawnCheck(tile, thing)
    BY DEF Still, SpawnPush, SpawnWrite, SpawnCheck
  <2>2. QED
    BY <1>3, <2>1 DEF AdminMessages, QuietStep
<1>4. CASE getWorldState /\ UNCHANGED scenario
  BY <1>4 DEF getWorldState, CopyTile, NewMessage, QuietStep, SameWorld
<1>5. QED
  BY <1>1, <1>2, <1>3, <1>4 DEF Next

(* What an action of one object leaves of the others. *)
LEMMA BecomesObjects ==
  ASSUME TypeInv, gamePc = "update", next <= last, NEW o, Becomes(o)
  PROVE  /\ DOMAIN objects' = DOMAIN objects /\ Len(objects') = Len(objects)
         /\ next \in DOMAIN objects /\ objects'[next] = o
         /\ \A i \in DOMAIN objects : i # next => objects'[i] = objects[i]
         /\ next' = next + 1 /\ gamePc' = gamePc
         /\ handlerPc' = handlerPc /\ target' = target
<1>1. next \in DOMAIN objects
  BY Current
<1>2. objects \in Seq(Object) /\ objects' = [objects EXCEPT ![next] = o]
  BY DEF TypeInv, ObjectTypes, Becomes
<1>3. QED
  BY <1>1, <1>2 DEF Becomes, handlerVars

(* The actions of one object: where it stands afterwards, and its type. *)
LEMMA IdleObject ==
  ASSUME TypeInv, Idle
  PROVE  LET o == [obj EXCEPT !.pos = 0, !.queue = Tail(actions)]
         IN  /\ gamePc = "update" /\ next <= last /\ Becomes(o) /\ world' = world
             /\ obj.queue = <<>>
             /\ o.type = obj.type /\ o.queue = <<>>
<1>1. Updating("idle") /\ Becomes([obj EXCEPT !.pos = 0, !.queue = Tail(actions)])
      /\ world' = world
  BY DEF Idle
<1>2. /\ gamePc = "update" /\ next <= last
      /\ obj.queue = <<>> /\ Tail(actions) = <<>>
  BY <1>1, Idles
<1>3. obj \in Object
  BY <1>2, Current
<1>4. QED
  BY <1>1, <1>2, <1>3 DEF Object

LEMMA MoveFailsObject ==
  ASSUME TypeInv, MoveFails
  PROVE  LET o == [obj EXCEPT !.queue = Tail(actions), !.progress = 0]
         IN  /\ gamePc = "update" /\ next <= last /\ Becomes(o) /\ world' = world
             /\ obj.queue # <<>> /\ obj.pos \in Tiles
             /\ o.type = obj.type /\ o.pos = obj.pos
<1>1. Updating("move") /\ Becomes([obj EXCEPT !.queue = Tail(actions), !.progress = 0])
      /\ world' = world
  BY DEF MoveFails
<1>2. /\ gamePc = "update" /\ next <= last
      /\ obj.queue # <<>> /\ obj.pos \in Tiles
  BY <1>1, Moves
<1>3. obj \in Object
  BY <1>2, Current
<1>4. QED
  BY <1>1, <1>2, <1>3 DEF Object

LEMMA MoveGoesOnObject ==
  ASSUME TypeInv, MoveGoesOn
  PROVE  LET o == [obj EXCEPT !.type = world[obj.pos], !.progress = @ + speed[world[obj.pos]]]
         IN  /\ gamePc = "update" /\ next <= last /\ Becomes(o) /\ world' = world
             /\ obj.queue # <<>> /\ obj.pos \in Tiles
             /\ o.type = world[obj.pos] /\ o.pos = obj.pos /\ o.queue = obj.queue
<1>1. /\ Updating("move") /\ world' = world
      /\ Becomes([obj EXCEPT !.type = world[obj.pos], !.progress = @ + speed[world[obj.pos]]])
  BY DEF MoveGoesOn
<1>2. /\ gamePc = "update" /\ next <= last
      /\ obj.queue # <<>> /\ obj.pos \in Tiles
  BY <1>1, Moves
<1>3. obj \in Object
  BY <1>2, Current
<1>4. QED
  BY <1>1, <1>2, <1>3 DEF Object

LEMMA MoveEndsObject ==
  ASSUME TypeInv, MoveEnds
  PROVE  LET o == [obj EXCEPT !.pos = destination, !.queue = Tail(actions), !.progress = 0]
         IN  /\ gamePc = "update" /\ next <= last /\ Becomes(o)
             /\ obj.queue # <<>> /\ obj.pos \in Tiles
             /\ destination \in Tiles /\ world[destination] = Empty
             /\ \A t \in Tiles : world'[t] = IF t = obj.pos THEN Empty
                                             ELSE IF t = destination THEN world[obj.pos]
                                             ELSE world[t]
             /\ o.type = obj.type /\ o.pos = destination
<1>1. /\ Updating("move") /\ destination \in Tiles /\ world[destination] = Empty
      /\ Becomes([obj EXCEPT !.pos = destination, !.queue = Tail(actions), !.progress = 0])
      /\ world' = [world EXCEPT ![destination] = world[obj.pos], ![obj.pos] = Empty]
  BY DEF MoveEnds, Movable, validate_move
<1>2. /\ gamePc = "update" /\ next <= last
      /\ obj.queue # <<>> /\ obj.pos \in Tiles
  BY <1>1, Moves
<1>3. obj \in Object /\ world \in [Tiles -> Thing]
  BY <1>2, Current DEF TypeInv, GameTypes
<1>4. \A t \in Tiles : world'[t] = IF t = obj.pos THEN Empty
                                   ELSE IF t = destination THEN world[obj.pos]
                                   ELSE world[t]
  BY <1>1, <1>2, <1>3
<1>5. QED
  BY <1>1, <1>2, <1>3, <1>4 DEF Object

(* The queues as QueueMoves leaves them. *)
LEMMA QueueMovesObjects ==
  ASSUME TypeInv, QueueMoves
  PROVE  /\ DOMAIN objects' = DOMAIN objects /\ Len(objects') = Len(objects)
         /\ \A i \in DOMAIN objects :
              /\ objects'[i].pos = objects[i].pos /\ objects'[i].type = objects[i].type
              /\ objects[i].type = Unit => objects'[i].queue # <<>>
              /\ objects[i].type # Unit => objects'[i] = objects[i]
<1>1. PICK r \in [DOMAIN objects -> Directions] :
        objects' = [i \in DOMAIN objects |->
          IF objects[i].type = Unit /\ Len(objects[i].queue) < 2
          THEN [objects[i] EXCEPT !.queue = Append(@, r[i])]
          ELSE objects[i]]
  BY DEF QueueMoves
<1>2. objects \in Seq(Object)
  BY DEF TypeInv, ObjectTypes
<1>3. DOMAIN objects' = DOMAIN objects /\ Len(objects') = Len(objects)
  BY <1>1, <1>2
<1>4. ASSUME NEW i \in DOMAIN objects
      PROVE  /\ objects'[i].pos = objects[i].pos /\ objects'[i].type = objects[i].type
             /\ objects[i].type = Unit => objects'[i].queue # <<>>
             /\ objects[i].type # Unit => objects'[i] = objects[i]
  <2>1. objects[i] \in Object /\ objects[i].queue \in Seq(Directions) /\ r[i] \in Directions
    <3>1. objects[i] \in Object
      BY <1>2
    <3>2. r[i] \in Directions
      BY <1>1
    <3>3. QED
      BY <3>1, <3>2 DEF Object
  <2>2. CASE objects[i].type = Unit /\ Len(objects[i].queue) < 2
    <3>1. objects'[i] = [objects[i] EXCEPT !.queue = Append(objects[i].queue, r[i])]
      BY <1>1, <2>2
    <3>2. Append(objects[i].queue, r[i]) # <<>>
      BY <2>1
    <3>3. QED
      BY <2>1, <2>2, <3>1, <3>2 DEF Object
  <2>3. CASE ~(objects[i].type = Unit /\ Len(objects[i].queue) < 2)
    <3>1. objects'[i] = objects[i]
      BY <1>1, <2>3
    <3>2. objects[i].type = Unit => objects[i].queue # <<>>
      BY <2>1, <2>3
    <3>3. QED
      BY <3>1, <3>2
  <2>4. QED
    BY <2>2, <2>3
<1>5. QED
  BY <1>3, <1>4

(* An action of one object keeps Still: the loop has passed that object. *)
LEMMA StillBecomes ==
  ASSUME TypeInv, Still, gamePc = "update", next <= last, NEW o, Becomes(o)
  PROVE  Still'
<1>1. next \in Nat /\ DOMAIN objects \subseteq Nat
  BY DEF TypeInv, GameTypes, ObjectTypes
<1>2. QED
  BY <1>1, BecomesObjects DEF Still

LEMMA StillNext ==
  ASSUME TypeInv, Still, QuietStep
  PROVE  Still'
<1>1. CASE QueueMoves
  BY <1>1, QueueMovesObjects DEF Still, QueueMoves, handlerVars
<1>2. CASE BeginUpdate
  BY <1>2 DEF Still, BeginUpdate, handlerVars
<1>3. CASE EndUpdate
  BY <1>3 DEF Still, EndUpdate, handlerVars
<1>4. CASE Idle
  BY <1>4, IdleObject, StillBecomes
<1>5. CASE MoveFails
  BY <1>5, MoveFailsObject, StillBecomes
<1>6. CASE MoveGoesOn
  BY <1>6, MoveGoesOnObject, StillBecomes
<1>7. CASE MoveEnds
  BY <1>7, MoveEndsObject, StillBecomes
<1>8. CASE \E tile \in Tiles : TerrainLoad(tile)
  BY <1>8 DEF Still, TerrainLoad, gameVars
<1>9. CASE TerrainStore
  BY <1>9 DEF Still, TerrainStore, gameVars
<1>10. CASE SameWorld
  BY <1>10 DEF Still, SameWorld, gameVars, handlerVars
<1>11. QED
  BY <1>1, <1>2, <1>3, <1>4, <1>5, <1>6, <1>7, <1>8, <1>9, <1>10 DEF QuietStep

(* So the object that idles is no unit. *)
LEMMA NoUnitIdles ==
  ASSUME TypeInv, Still, Idle
  PROVE  obj.type # Unit
<1>1. gamePc = "update" /\ next <= last /\ obj.queue = <<>>
  BY IdleObject
<1>2. next \in DOMAIN objects /\ next \in Nat
  BY <1>1, Current DEF TypeInv, GameTypes
<1>3. QED
  BY <1>1, <1>2 DEF Still, obj

-----------------------------------------------------------------------------
(***************************************************************************)
(* Trees.  Nothing that may take a tile's thing away, or write one back,   *)
(* works on a tree: neither an object with a move nor a terrain            *)
(* modification that loaded the tile earlier.                              *)
(***************************************************************************)
TreesSafe ==
  /\ handlerPc = "terrain" => (target.thing = Tree <=> world[target.tile] = Tree)
  /\ \A i \in DOMAIN objects :
       objects[i].type = Unit \/ objects[i].queue # <<>> => world[objects[i].pos] # Tree

TreeInv == "spawn" \notin admins => Still /\ TreesSafe

LEMMA TreeInit == Init => TreeInv
<1>1. SUFFICES ASSUME Init PROVE Still /\ TreesSafe
  BY DEF TreeInv
<1>2. ASSUME NEW i \in DOMAIN objects
      PROVE  objects[i].queue = <<>> /\ world[objects[i].pos] = objects[i].type
  <2>1. i \in 1 .. Trees + Units
    BY <1>1, <1>2, InitWorld
  <2>2. QED
    BY <1>1, <2>1, InitWorld DEF NewObject
<1>3. QED
  BY <1>1, <1>2, Distinct DEF Init, Still, TreesSafe

(* Every quiet step keeps every tree, and makes no new one. *)
LEMMA TreesKept ==
  ASSUME TypeInv, Still, TreesSafe, QuietStep
  PROVE  \A t \in Tiles : world'[t] = Tree <=> world[t] = Tree
<1>1. CASE MoveEnds
  <2>1. /\ gamePc = "update" /\ next <= last /\ obj.queue # <<>>
        /\ destination \in Tiles /\ world[destination] = Empty
        /\ \A t \in Tiles : world'[t] = IF t = obj.pos THEN Empty
                                        ELSE IF t = destination THEN world[obj.pos]
                                        ELSE world[t]
    BY <1>1, MoveEndsObject
  <2>2. world[obj.pos] # Tree
    BY <2>1, Current DEF TreesSafe, obj
  <2>3. QED
    BY <2>1, <2>2, Distinct
<1>2. CASE TerrainStore
  BY <1>2 DEF TerrainStore, TreesSafe, TypeInv, GameTypes
<1>3. CASE QueueMoves \/ BeginUpdate \/ EndUpdate \/ Idle \/ MoveFails \/ MoveGoesOn
  BY <1>3 DEF QueueMoves, BeginUpdate, EndUpdate, Idle, MoveFails, MoveGoesOn
<1>4. CASE SameWorld \/ \E tile \in Tiles : TerrainLoad(tile)
  BY <1>4 DEF SameWorld, TerrainLoad
<1>5. QED
  BY <1>1, <1>2, <1>3, <1>4 DEF QuietStep

(* An action of one object that leaves it on a tile without a tree. *)
LEMMA TreesSafeBecomes ==
  ASSUME TypeInv, TreesSafe, gamePc = "update", next <= last, NEW o, Becomes(o),
         \A t \in Tiles : world'[t] = Tree <=> world[t] = Tree,
         o.type = Unit \/ o.queue # <<>> => world'[o.pos] # Tree
  PROVE  TreesSafe'
<1>1. \A i \in DOMAIN objects : objects[i].pos \in Tiles
  BY DEF TypeInv, ObjectTypes, ObjectOK, Object
<1>2. target.tile \in Tiles
  BY DEF TypeInv, HandlerTypes
<1>3. QED
  BY <1>1, <1>2, BecomesObjects DEF TreesSafe

LEMMA TreesSafeNext ==
  ASSUME TypeInv, Still, TreesSafe, QuietStep
  PROVE  TreesSafe'
<1>1. \A t \in Tiles : world'[t] = Tree <=> world[t] = Tree
  BY TreesKept
<1>2. CASE QueueMoves
  <2>1. world' = world /\ handlerPc' = handlerPc /\ target' = target
    BY <1>2 DEF QueueMoves, handlerVars
  <2>2. QED
    BY <1>2, <2>1, QueueMovesObjects DEF TreesSafe
<1>3. CASE BeginUpdate
  BY <1>3 DEF BeginUpdate, TreesSafe, handlerVars
<1>4. CASE EndUpdate
  BY <1>4 DEF EndUpdate, TreesSafe, handlerVars
<1>5. CASE Idle
  <2> DEFINE o == [obj EXCEPT !.pos = 0, !.queue = Tail(actions)]
  <2>1. gamePc = "update" /\ next <= last /\ Becomes(o)
        /\ o.type = obj.type /\ o.queue = <<>>
    BY <1>5, IdleObject
  <2>2. o.type # Unit
    BY <1>5, <2>1, NoUnitIdles
  <2>3. QED
    BY <1>1, <2>1, <2>2, TreesSafeBecomes
<1>6. CASE MoveFails
  <2> DEFINE o == [obj EXCEPT !.queue = Tail(actions), !.progress = 0]
  <2>1. gamePc = "update" /\ next <= last /\ Becomes(o) /\ world' = world
        /\ obj.queue # <<>> /\ o.pos = obj.pos
    BY <1>6, MoveFailsObject
  <2>2. world'[o.pos] # Tree
    BY <2>1, Current DEF TreesSafe, obj
  <2>3. QED
    BY <1>1, <2>1, <2>2, TreesSafeBecomes
<1>7. CASE MoveGoesOn
  <2> DEFINE o == [obj EXCEPT !.type = world[obj.pos], !.progress = @ + speed[world[obj.pos]]]
  <2>1. gamePc = "update" /\ next <= last /\ Becomes(o) /\ world' = world
        /\ obj.queue # <<>> /\ o.pos = obj.pos
    BY <1>7, MoveGoesOnObject
  <2>2. world'[o.pos] # Tree
    BY <2>1, Current DEF TreesSafe, obj
  <2>3. QED
    BY <1>1, <2>1, <2>2, TreesSafeBecomes
<1>8. CASE MoveEnds
  <2> DEFINE o == [obj EXCEPT !.pos = destination, !.queue = Tail(actions), !.progress = 0]
  <2>1. gamePc = "update" /\ next <= last /\ Becomes(o)
        /\ o.pos = destination /\ destination \in Tiles /\ world[destination] = Empty
    BY <1>8, MoveEndsObject
  <2>2. world'[o.pos] # Tree
    BY <1>1, <2>1, Distinct
  <2>3. QED
    BY <1>1, <2>1, <2>2, TreesSafeBecomes
<1>9. CASE \E tile \in Tiles : TerrainLoad(tile)
  BY <1>9 DEF TerrainLoad, TreesSafe, gameVars
<1>10. CASE TerrainStore
  <2>1. \A i \in DOMAIN objects : objects[i].pos \in Tiles
    BY DEF TypeInv, ObjectTypes, ObjectOK, Object
  <2>2. objects' = objects /\ handlerPc' = "none"
    BY <1>10 DEF TerrainStore
  <2>3. QED
    BY <1>1, <2>1, <2>2 DEF TreesSafe
<1>11. CASE SameWorld
  BY <1>11 DEF SameWorld, TreesSafe, gameVars, handlerVars
<1>12. QED
  BY <1>2, <1>3, <1>4, <1>5, <1>6, <1>7, <1>8, <1>9, <1>10, <1>11 DEF QuietStep

LEMMA TreeNext ==
  TypeInv /\ TreeInv /\ [Next]_vars =>
    /\ TreeInv'
    /\ ["spawn" \notin admins => \A t \in Tiles : world[t] = Tree => world'[t] = Tree]_vars
<1>1. SUFFICES ASSUME TypeInv, TreeInv, [Next]_vars
               PROVE  /\ TreeInv'
                      /\ "spawn" \notin admins =>
                           \A t \in Tiles : world[t] = Tree => world'[t] = Tree
  OBVIOUS
<1>2. admins' = admins
  BY <1>1 DEF Next, vars, admins
<1>3. CASE "spawn" \notin admins
  <2>1. Still /\ TreesSafe
    BY <1>1, <1>3 DEF TreeInv
  <2>2. QuietStep
    BY <1>1, <1>3, <2>1, QuietSteps
  <2>3. Still' /\ TreesSafe'
    BY <1>1, <2>1, <2>2, StillNext, TreesSafeNext
  <2>4. QED
    BY <1>1, <2>1, <2>2, <2>3, TreesKept DEF TreeInv
<1>4. CASE "spawn" \in admins
  BY <1>2, <1>4 DEF TreeInv
<1>5. QED
  BY <1>3, <1>4

LEMMA TreeInvariant == Spec => []TreeInv
BY TypeInvariant, TreeInit, TreeNext, PTL DEF Spec

(* Without spawns no interleaving of moves and terrain modifications       *)
(* removes a tree.                                                         *)
THEOREM TreesNeverMove == Spec => TreesStay
<1>1. TypeInv /\ TreeInv /\ [Next]_vars =>
        ["spawn" \notin admins => \A t \in Tiles : world[t] = Tree => world'[t] = Tree]_vars
  BY TreeNext
<1>2. QED
  BY <1>1, TypeInvariant, TreeInvariant, PTL DEF Spec, TreesStay

-----------------------------------------------------------------------------
(***************************************************************************)
(* Units, while no admin interferes: the objects are those the constructor *)
(* made, in its order, and only units ever have a move.                    *)
(***************************************************************************)
TreeTiles == {t \in Tiles : world[t] = Tree}

Placed ==
  /\ Len(objects) = Trees + Units
  /\ \A i \in DOMAIN objects :
       /\ objects[i].type = IF i <= Trees THEN Tree ELSE Unit
       /\ i <= Trees => objects[i].queue = <<>>

OwnTiles ==
  \A i \in DOMAIN objects :
    objects[i].type = Unit =>
      /\ world[objects[i].pos] = Unit
      /\ \A j \in DOMAIN objects :
           objects[j].type = Unit /\ i # j => objects[i].pos # objects[j].pos

UnitInv ==
  admins = {} =>
    /\ handlerPc = "none"
    /\ Still
    /\ Placed
    /\ OwnTiles
    /\ Cardinality(TreeTiles) = Trees

LEMMA UnitInit == Init => UnitInv
<1>1. SUFFICES ASSUME Init
               PROVE  /\ handlerPc = "none" /\ Still /\ Placed /\ OwnTiles
                      /\ Cardinality(TreeTiles) = Trees
  BY DEF UnitInv
<1>2. /\ Trees \in Nat /\ Units \in Nat
      /\ DOMAIN objects = 1 .. Trees + Units /\ Len(objects) = Trees + Units
  BY <1>1, InitWorld
<1>3. ASSUME NEW i \in DOMAIN objects
      PROVE  /\ objects[i].queue = <<>> /\ objects[i].pos \in Tiles
             /\ objects[i].type = IF i <= Trees THEN Tree ELSE Unit
             /\ world[objects[i].pos] = objects[i].type
             /\ \A j \in DOMAIN objects : i # j => objects[i].pos # objects[j].pos
  BY <1>1, <1>2, <1>3, InitWorld DEF NewObject
<1>4. handlerPc = "none" /\ Still
  BY <1>1 DEF Init, Still
<1>5. Placed /\ OwnTiles
  BY <1>2, <1>3 DEF Placed, OwnTiles
<1>6. Cardinality(TreeTiles) = Trees
  <2> DEFINE f == [i \in 1 .. Trees |-> objects[i].pos]
  <2>1. \A i \in 1 .. Trees : i \in DOMAIN objects
    BY <1>2
  <2>2. f \in [1 .. Trees -> TreeTiles]
    BY <1>3, <2>1 DEF TreeTiles
  <2>3. ASSUME NEW t \in TreeTiles PROVE \E i \in 1 .. Trees : f[i] = t
    <3>1. t \in Tiles /\ world[t] = Tree /\ world[t] # Empty
      BY <2>3, Distinct DEF TreeTiles
    <3>2. PICK i \in 1 .. Trees + Units : objects[i].pos = t
      BY <1>1, <3>1, InitWorld
    <3>3. i <= Trees
      BY <1>2, <1>3, <3>1, <3>2, Distinct
    <3>4. QED
      BY <1>2, <3>2, <3>3
  <2>4. \A i, j \in 1 .. Trees : f[i] = f[j] => i = j
    BY <1>3, <2>1
  <2>5. f \in Surjection(1 .. Trees, TreeTiles) /\ f \in Injection(1 .. Trees, TreeTiles)
    BY <2>2, <2>3, <2>4 DEF Surjection, Injection, IsInjective
  <2>6. IsFiniteSet(1 .. Trees) /\ Cardinality(1 .. Trees) = Trees
    BY <1>2, FS_Interval
  <2>7. QED
    BY <2>5, <2>6, FS_Surjection
<1>7. QED
  BY <1>4, <1>5, <1>6

(* An action of one object that moves no unit leaves all as it was. *)
LEMMA UnitBecomes ==
  ASSUME TypeInv, Placed, OwnTiles, gamePc = "update", next <= last,
         NEW o, Becomes(o), world' = world, UNCHANGED scenario, o.type = obj.type,
         o.type = Unit => o.pos = obj.pos,
         obj.queue = <<>> => o.queue = <<>>
  PROVE  Placed' /\ OwnTiles'
<1>1. Trees' = Trees /\ Units' = Units
  BY DEF Trees, Units
<1>2. Placed'
  BY <1>1, BecomesObjects DEF Placed, obj
<1>3. OwnTiles'
  BY BecomesObjects DEF OwnTiles, obj
<1>4. QED
  BY <1>2, <1>3

LEMMA UnitMoves ==
  ASSUME TypeInv, Placed, OwnTiles, MoveEnds, UNCHANGED scenario
  PROVE  Placed' /\ OwnTiles' /\ TreeTiles' = TreeTiles
<1> DEFINE o == [obj EXCEPT !.pos = destination, !.queue = Tail(actions), !.progress = 0]
<1>1. /\ gamePc = "update" /\ next <= last /\ Becomes(o)
      /\ obj.queue # <<>> /\ obj.pos \in Tiles
      /\ destination \in Tiles /\ world[destination] = Empty
      /\ \A t \in Tiles : world'[t] = IF t = obj.pos THEN Empty
                                      ELSE IF t = destination THEN world[obj.pos]
                                      ELSE world[t]
      /\ o.type = obj.type /\ o.pos = destination
  BY MoveEndsObject
<1>2. /\ DOMAIN objects' = DOMAIN objects /\ Len(objects') = Len(objects)
      /\ next \in DOMAIN objects /\ objects'[next] = o
      /\ \A i \in DOMAIN objects : i # next => objects'[i] = objects[i]
  BY <1>1, BecomesObjects
<1>3. Trees' = Trees /\ Units' = Units /\ obj = objects[next]
  BY DEF Trees, Units, obj
<1>4. obj.type = Unit /\ ~(next <= Trees) /\ world[obj.pos] = Unit
  BY <1>1, <1>2, <1>3 DEF Placed, OwnTiles
<1>5. destination # obj.pos
  BY <1>1, <1>4, Distinct
<1>6. Placed'
  BY <1>1, <1>2, <1>3, <1>4 DEF Placed
<1>7. world'[destination] = Unit
  BY <1>1, <1>4, <1>5
<1>8. ASSUME NEW i \in DOMAIN objects, i # next, objects[i].type = Unit
      PROVE  /\ objects[i].pos # obj.pos /\ objects[i].pos # destination
             /\ world'[objects[i].pos] = Unit
  <2>1. objects[i].pos \in Tiles
    BY DEF TypeInv, ObjectTypes, ObjectOK, Object
  <2>2. world[objects[i].pos] = Unit /\ objects[i].pos # obj.pos
    BY <1>2, <1>3, <1>4, <1>8 DEF OwnTiles
  <2>3. QED
    BY <1>1, <2>1, <2>2, Distinct
<1>9. OwnTiles'
  <2>1. ASSUME NEW i \in DOMAIN objects, objects'[i].type = Unit
        PROVE  world'[objects'[i].pos] = Unit
    BY <1>1, <1>2, <1>7, <1>8, <2>1
  <2>2. ASSUME NEW i \in DOMAIN objects, NEW j \in DOMAIN objects,
               objects'[i].type = Unit, objects'[j].type = Unit, i # j
        PROVE  objects'[i].pos # objects'[j].pos
    <3> HIDE DEF o
    <3>1. CASE i = next
      <4>1. j # next /\ objects[j].type = Unit /\ objects'[j].pos = objects[j].pos
        BY <1>2, <2>2, <3>1
      <4>2. objects[j].pos # destination
        BY <1>8, <4>1
      <4> QED BY <1>1, <1>2, <3>1, <4>1, <4>2
    <3>2. CASE j = next
      <4>1. i # next /\ objects[i].type = Unit /\ objects'[i].pos = objects[i].pos
        BY <1>2, <2>2, <3>2
      <4>2. objects[i].pos # destination
        BY <1>8, <4>1
      <4> QED BY <1>1, <1>2, <3>2, <4>1, <4>2
    <3>3. CASE i # next /\ j # next
      BY <1>2, <2>2, <3>3 DEF OwnTiles
    <3>4. QED
      BY <3>1, <3>2, <3>3
  <2>3. QED
    BY <1>2, <2>1, <2>2 DEF OwnTiles
<1>10. TreeTiles' = TreeTiles
  BY <1>1, <1>4, Distinct DEF TreeTiles
<1>11. QED
  BY <1>6, <1>9, <1>10

LEMMA UnitStep ==
  ASSUME TypeInv, admins = {}, handlerPc = "none", Still, Placed, OwnTiles,
         QuietStep, UNCHANGED scenario
  PROVE  handlerPc' = "none" /\ Placed' /\ OwnTiles' /\ TreeTiles' = TreeTiles
<1>1. Trees' = Trees /\ Units' = Units
  BY DEF Trees, Units
<1>2. CASE QueueMoves
  <2>1. world' = world /\ handlerPc' = "none"
    BY <1>2 DEF QueueMoves, handlerVars
  <2>2. Placed'
    BY <1>1, <1>2, QueueMovesObjects, Distinct DEF Placed
  <2>3. OwnTiles'
    BY <1>2, <2>1, QueueMovesObjects DEF OwnTiles
  <2>4. QED
    BY <2>1, <2>2, <2>3 DEF TreeTiles
<1>3. CASE BeginUpdate
  BY <1>1, <1>3 DEF BeginUpdate, Placed, OwnTiles, TreeTiles, handlerVars
<1>4. CASE EndUpdate
  BY <1>1, <1>4 DEF EndUpdate, Placed, OwnTiles, TreeTiles, handlerVars
<1>5. CASE Idle
  <2> DEFINE o == [obj EXCEPT !.pos = 0, !.queue = Tail(actions)]
  <2>1. gamePc = "update" /\ next <= last /\ Becomes(o) /\ world' = world
        /\ o.type = obj.type /\ o.queue = <<>>
    BY <1>5, IdleObject
  <2>2. o.type # Unit
    BY <1>5, <2>1, NoUnitIdles
  <2>3. QED
    BY <2>1, <2>2, UnitBecomes, BecomesObjects DEF TreeTiles
<1>6. CASE MoveFails
  <2> DEFINE o == [obj EXCEPT !.queue = Tail(actions), !.progress = 0]
  <2>1. gamePc = "update" /\ next <= last /\ Becomes(o) /\ world' = world
        /\ obj.queue # <<>> /\ o.type = obj.type /\ o.pos = obj.pos
    BY <1>6, MoveFailsObject
  <2>2. QED
    BY <2>1, UnitBecomes, BecomesObjects DEF TreeTiles
<1>7. CASE MoveGoesOn
  <2> DEFINE o == [obj EXCEPT !.type = world[obj.pos], !.progress = @ + speed[world[obj.pos]]]
  <2>1. gamePc = "update" /\ next <= last /\ Becomes(o) /\ world' = world
        /\ obj.queue # <<>> /\ o.type = world[obj.pos] /\ o.pos = obj.pos
    BY <1>7, MoveGoesOnObject
  <2>2. obj.type = Unit /\ world[obj.pos] = Unit
    BY <2>1, Current DEF Placed, OwnTiles, obj
  <2>3. QED
    BY <2>1, <2>2, UnitBecomes, BecomesObjects DEF TreeTiles
<1>8. CASE MoveEnds
  BY <1>8, MoveEndsObject, BecomesObjects, UnitMoves
<1>9. CASE (\E tile \in Tiles : TerrainLoad(tile)) \/ TerrainStore
  BY <1>9 DEF TerrainLoad, TerrainStore
<1>10. CASE SameWorld
  BY <1>1, <1>10 DEF SameWorld, Placed, OwnTiles, TreeTiles, handlerVars
<1>11. QED
  BY <1>2, <1>3, <1>4, <1>5, <1>6, <1>7, <1>8, <1>9, <1>10 DEF QuietStep

LEMMA UnitNext == TypeInv /\ UnitInv /\ [Next]_vars => UnitInv'
<1>1. SUFFICES ASSUME TypeInv, UnitInv, [Next]_vars PROVE UnitInv'
  OBVIOUS
<1>2. scenario' = scenario /\ admins' = admins /\ Trees' = Trees
  BY <1>1 DEF Next, vars, admins, Trees
<1>3. CASE admins = {}
  <2>1. /\ handlerPc = "none" /\ Still /\ Placed /\ OwnTiles
        /\ Cardinality(TreeTiles) = Trees
    BY <1>1, <1>3 DEF UnitInv
  <2>2. QuietStep
    BY <1>1, <1>3, <2>1, QuietSteps
  <2>3. Still'
    BY <1>1, <2>1, <2>2, StillNext
  <2>4. handlerPc' = "none" /\ Placed' /\ OwnTiles' /\ TreeTiles' = TreeTiles
    BY <1>1, <1>2, <1>3, <2>1, <2>2, UnitStep
  <2>5. QED
    BY <1>2, <2>1, <2>3, <2>4 DEF UnitInv
<1>4. CASE admins # {}
  BY <1>2, <1>4 DEF UnitInv
<1>5. QED
  BY <1>3, <1>4

LEMMA UnitInvariant == Spec => []UnitInv
BY TypeInvariant, UnitInit, UnitNext, PTL DEF Spec

LEMMA UnitsOK == TypeInv /\ UnitInv => UnitsOnTheirTiles
<1>1. SUFFICES ASSUME TypeInv, UnitInv, admins = {}
               PROVE  /\ \A i \in UnitObjects : world[objects[i].pos] = Unit
                      /\ \A i, j \in UnitObjects : i # j => objects[i].pos # objects[j].pos
                      /\ Cardinality(UnitObjects) = Units
                      /\ Cardinality({t \in Tiles : world[t] = Tree}) = Trees
  BY DEF UnitsOnTheirTiles
<1>2. Placed /\ OwnTiles /\ Cardinality(TreeTiles) = Trees
  BY <1>1 DEF UnitInv
<1>3. Trees \in Nat /\ Units \in Nat
  BY <1>1, WorldAssumption DEF TypeInv, Scenario, Trees, Units
<1>4. UnitObjects = Trees + 1 .. Trees + Units
  BY <1>1, <1>2, <1>3, Distinct DEF UnitObjects, Placed, TypeInv, ObjectTypes
<1>5. Cardinality(UnitObjects) = Units
  BY <1>3, <1>4, FS_Interval
<1>6. QED
  BY <1>2, <1>5 DEF OwnTiles, UnitObjects, TreeTiles

(* Left alone, every unit keeps a tile of its own that shows it, and the   *)
(* number of trees on the map never changes.                               *)
THEOREM UnitsKeepTheirTiles == Spec => []UnitsOnTheirTiles
BY TypeInvariant, UnitInvariant, UnitsOK, PTL

-----------------------------------------------------------------------------
(***************************************************************************)
(* Things and objects: an object is stored before its tile is written, and *)
(* a move fills no more tiles than it empties.                             *)
(***************************************************************************)
PhantomInv ==
  "terrain" \notin admins =>
    /\ handlerPc # "terrain"
    /\ Cardinality(Occupied) <= Len(objects)
    /\ handlerPc = "write" => Cardinality(Occupied) + 1 <= Len(objects)

LEMMA OccupiedFinite == IsFiniteSet(Occupied) /\ Cardinality(Occupied) \in Nat
<1>1. IsFiniteSet(Tiles)
  BY Constants, FS_Interval DEF Tiles
<1>2. Occupied \in SUBSET Tiles
  BY DEF Occupied
<1>3. IsFiniteSet(Occupied)
  BY <1>1, <1>2, FS_Subset
<1>4. QED
  BY <1>3, FS_CardinalityType

LEMMA PhantomInit == Init => PhantomInv
<1>1. SUFFICES ASSUME Init PROVE PhantomInv
  OBVIOUS
<1>2. Trees + Units \in Nat /\ Len(objects) = Trees + Units
  BY <1>1, InitWorld
<1>3. handlerPc = "none"
  BY <1>1 DEF Init
<1> DEFINE n == Trees + Units
           places == {objects[i].pos : i \in 1 .. n}
           f == [i \in 1 .. n |-> objects[i].pos]
<1>4. f \in Surjection(1 .. n, places)
  BY DEF Surjection
<1>5. IsFiniteSet(1 .. n) /\ Cardinality(1 .. n) = n
  BY <1>2, FS_Interval
<1>6. IsFiniteSet(places) /\ Cardinality(places) <= n
  BY <1>4, <1>5, FS_Surjection
<1>7. Occupied \in SUBSET places
  BY <1>1, InitWorld DEF Occupied
<1>8. Cardinality(Occupied) <= Cardinality(places) /\ Cardinality(places) \in Nat
  BY <1>6, <1>7, FS_Subset, FS_CardinalityType
<1>9. QED
  BY <1>2, <1>3, <1>6, <1>8, OccupiedFinite DEF PhantomInv

(* A move fills at most the tile it reaches, and empties its start. *)
LEMMA MoveFillsNoMore ==
  ASSUME TypeInv, MoveEnds
  PROVE  Cardinality(Occupied') <= Cardinality(Occupied)
<1>1. /\ obj.pos \in Tiles /\ destination \in Tiles /\ world[destination] = Empty
      /\ \A t \in Tiles : world'[t] = IF t = obj.pos THEN Empty
                                      ELSE IF t = destination THEN world[obj.pos]
                                      ELSE world[t]
  BY MoveEndsObject
<1>2. CASE world[obj.pos] = Empty
  <2>1. Occupied' \in SUBSET Occupied
    BY <1>1, <1>2 DEF Occupied
  <2>2. QED
    BY <2>1, OccupiedFinite, FS_Subset
<1>3. CASE world[obj.pos] # Empty
  <2> DEFINE left == Occupied \ {obj.pos}
  <2>1. obj.pos \in Occupied
    BY <1>1, <1>3 DEF Occupied
  <2>2. IsFiniteSet(left) /\ Cardinality(left) = Cardinality(Occupied) - 1
    BY <2>1, OccupiedFinite, FS_RemoveElement
  <2>3. destination \notin left
    BY <1>1 DEF Occupied
  <2>4. Cardinality(left \cup {destination}) = Cardinality(Occupied)
    BY <2>2, <2>3, OccupiedFinite, FS_AddElement
  <2>5. Occupied' = left \cup {destination}
    BY <1>1, <1>3 DEF Occupied
  <2>6. QED
    BY <2>4, <2>5, OccupiedFinite
<1>4. QED
  BY <1>2, <1>3

LEMMA SpawnFillsOne ==
  ASSUME TypeInv, SpawnWrite
  PROVE  Cardinality(Occupied') <= Cardinality(Occupied) + 1
<1>1. IsFiniteSet(Occupied \cup {target.tile})
      /\ Cardinality(Occupied \cup {target.tile}) <= Cardinality(Occupied) + 1
  <2>1. IsFiniteSet(Occupied) /\ Cardinality(Occupied) \in Nat
    BY OccupiedFinite
  <2>2. /\ IsFiniteSet(Occupied \cup {target.tile})
        /\ Cardinality(Occupied \cup {target.tile}) =
             IF target.tile \in Occupied THEN Cardinality(Occupied)
                                         ELSE Cardinality(Occupied) + 1
    BY <2>1, FS_AddElement
  <2>3. QED
    BY <2>1, <2>2
<1>2. Occupied' \in SUBSET (Occupied \cup {target.tile})
  BY DEF Occupied, SpawnWrite, TypeInv, GameTypes, HandlerTypes
<1>3. /\ Cardinality(Occupied') <= Cardinality(Occupied \cup {target.tile})
      /\ IsFiniteSet(Occupied') /\ Cardinality(Occupied') \in Nat
      /\ Cardinality(Occupied \cup {target.tile}) \in Nat
  BY <1>1, <1>2, FS_Subset, FS_CardinalityType
<1>4. QED
  BY <1>1, <1>3, OccupiedFinite

LEMMA PhantomStep ==
  ASSUME TypeInv, PhantomInv, "terrain" \notin admins, [Next]_vars
  PROVE  /\ handlerPc' # "terrain"
         /\ Cardinality(Occupied') <= Len(objects')
         /\ handlerPc' = "write" => Cardinality(Occupied') + 1 <= Len(objects')
<1>1. /\ handlerPc # "terrain"
      /\ Cardinality(Occupied) <= Len(objects)
      /\ handlerPc = "write" => Cardinality(Occupied) + 1 <= Len(objects)
      /\ Cardinality(Occupied) \in Nat /\ Len(objects) \in Nat
      /\ objects \in Seq(Object)
  BY OccupiedFinite DEF PhantomInv, TypeInv, ObjectTypes
<1>2. ASSUME world' = world, Len(objects') = Len(objects),
             handlerPc' \in {handlerPc, "none", "push"}
      PROVE  /\ handlerPc' # "terrain"
             /\ Cardinality(Occupied') <= Len(objects')
             /\ handlerPc' = "write" => Cardinality(Occupied') + 1 <= Len(objects')
  BY <1>1, <1>2 DEF Occupied
<1>3. CASE UNCHANGED vars \/ getWorldState
  BY <1>2, <1>3 DEF vars, getWorldState, CopyTile, NewMessage, handlerVars
<1>4. CASE QueueMoves
  BY <1>2, <1>4, QueueMovesObjects DEF QueueMoves, handlerVars
<1>5. CASE BeginUpdate \/ EndUpdate
  BY <1>2, <1>5 DEF BeginUpdate, EndUpdate, handlerVars
<1>6. CASE Idle
  BY <1>2, <1>6, IdleObject, BecomesObjects
<1>7. CASE MoveFails
  BY <1>2, <1>7, MoveFailsObject, BecomesObjects
<1>8. CASE MoveGoesOn
  BY <1>2, <1>8, MoveGoesOnObject, BecomesObjects
<1>9. CASE MoveEnds
  <2>1. Len(objects') = Len(objects) /\ handlerPc' = handlerPc
    BY <1>9, MoveEndsObject, BecomesObjects
  <2>2. Cardinality(Occupied') <= Cardinality(Occupied)
    BY <1>9, MoveFillsNoMore
  <2>3. Cardinality(Occupied') \in Nat
    <3>1. IsFiniteSet(Tiles) /\ Occupied' \in SUBSET Tiles
      BY Constants, FS_Interval DEF Tiles, Occupied
    <3>2. QED
      BY <3>1, FS_Subset, FS_CardinalityType
  <2>4. QED
    BY <1>1, <2>1, <2>2, <2>3
<1>10. CASE \E tile \in Tiles : TerrainLoad(tile)
  BY <1>10 DEF TerrainLoad
<1>11. CASE \E tile \in Tiles : \E thing \in Thing : SpawnCheck(tile, thing)
  BY <1>2, <1>11 DEF SpawnCheck
<1>12. CASE SpawnPush
  <2>1. Len(objects') = Len(objects) + 1 /\ world' = world /\ handlerPc' = "write"
    BY <1>1, <1>12 DEF SpawnPush
  <2>2. QED
    BY <1>1, <2>1 DEF Occupied
<1>13. CASE SpawnWrite
  <2>1. objects' = objects /\ handlerPc' = "none" /\ handlerPc = "write"
    BY <1>13 DEF SpawnWrite
  <2>2. Cardinality(Occupied') <= Cardinality(Occupied) + 1
    BY <1>13, SpawnFillsOne
  <2>3. Cardinality(Occupied') \in Nat
    <3>1. IsFiniteSet(Tiles) /\ Occupied' \in SUBSET Tiles
      BY Constants, FS_Interval DEF Tiles, Occupied
    <3>2. QED
      BY <3>1, FS_Subset, FS_CardinalityType
  <2>4. QED
    BY <1>1, <2>1, <2>2, <2>3
<1>14. CASE TerrainStore
  BY <1>1, <1>14 DEF TerrainStore
<1>15. QED
  BY <1>3, <1>4, <1>5, <1>6, <1>7, <1>8, <1>9, <1>10, <1>11, <1>12, <1>13, <1>14
     DEF Next, run, AdminMessages

LEMMA PhantomNext == TypeInv /\ PhantomInv /\ [Next]_vars => PhantomInv'
<1>1. SUFFICES ASSUME TypeInv, PhantomInv, [Next]_vars PROVE PhantomInv'
  OBVIOUS
<1>2. admins' = admins
  BY <1>1 DEF Next, vars, admins
<1>3. QED
  BY <1>1, <1>2, PhantomStep DEF PhantomInv

(* However a spawn interleaves with the moves, the map never shows more    *)
(* things than there are objects.                                          *)
THEOREM NeverPhantoms == Spec => []NoPhantoms
<1>1. PhantomInv => NoPhantoms
  BY DEF PhantomInv, NoPhantoms
<1>2. QED
  BY <1>1, TypeInvariant, PhantomInit, PhantomNext, PTL DEF Spec
=============================================================================
