----------------------------- MODULE LocksProofs -----------------------------
(***************************************************************************)
(* No set of threads of the server waits for itself, for any number of     *)
(* threads of each kind.  The mutexes have levels; a function only calls   *)
(* functions whose mutexes are of a higher level than its own; so a thread *)
(* waits above everything it holds, and whoever holds what the highest     *)
(* waiting thread wants waits higher still.                                *)
(***************************************************************************)
EXTENDS Locks, TLAPS

level ==
  [messageHandler |-> 1, factions |-> 1, server |-> 2, worldState |-> 2, database |-> 3]

Level(f) == level[mutexOf(f)]

TypeInv ==
  /\ stack \in [Thread -> Seq(Function)]
  /\ waiting \in [Thread -> Function \cup {NoCall}]

(* What a thread holds ascends, and it waits above all of it. *)
HeldInOrder ==
  \A t \in Thread : \A i, j \in DOMAIN stack[t] :
    i < j => Level(stack[t][i]) < Level(stack[t][j])

WaitsAbove ==
  \A t \in Thread :
    waiting[t] # NoCall =>
      \A i \in DOMAIN stack[t] : Level(stack[t][i]) < Level(waiting[t])

InOrder == TypeInv /\ HeldInOrder /\ WaitsAbove

-----------------------------------------------------------------------------
(* Every function has a mutex, of one of three levels. *)
LEMMA MutexOfFunction ==
  ASSUME NEW f \in Function
  PROVE  mutexOf(f) \in Mutex /\ f \in sections[mutexOf(f)]
BY DEF mutexOf, Function

LEMMA LevelType ==
  ASSUME NEW f \in Function
  PROVE  Level(f) \in 1..3
BY MutexOfFunction DEF Level, level, Mutex, sections

(* The mutexes of the functions that call others, of those they call, and *)
(* of those that use what is shared.                                      *)
LEMMA MutexOfNested ==
  /\ \A f \in {"broadcastTo", "respond"} : f \in Function /\ mutexOf(f) = "messageHandler"
  /\ \A f \in {"addFaction", "spawnObject"} : f \in Function /\ mutexOf(f) = "factions"
  /\ \A f \in {"disconnectClient", "logoutUser", "getUser", "updateUserFaction",
             "loginUser", "updateUserData"} :
       f \in Function /\ mutexOf(f) = "server"
  /\ \A f \in {"getTileState", "setTileState"} : f \in Function /\ mutexOf(f) = "worldState"
  /\ \A f \in {"exec_query"} : f \in Function /\ mutexOf(f) = "database"
<1>1. \A m, n \in Mutex : m # n => sections[m] \cap sections[n] = {}
  BY DEF Mutex, sections
<1>2. ASSUME NEW m \in Mutex, NEW f \in sections[m]
      PROVE  f \in Function /\ mutexOf(f) = m
  <2>1. f \in Function
    BY <1>2 DEF Function
  <2>2. QED
    BY <1>1, <1>2, <2>1, MutexOfFunction
<1>3. {"messageHandler", "factions", "server", "worldState", "database"} \subseteq Mutex
  BY DEF Mutex, sections
<1>4. /\ {"broadcastTo", "respond"} \subseteq sections["messageHandler"]
      /\ {"addFaction", "spawnObject"} \subseteq sections["factions"]
      /\ {"disconnectClient", "logoutUser", "getUser", "updateUserFaction",
             "loginUser", "updateUserData"}
           \subseteq sections["server"]
      /\ {"getTileState", "setTileState"} \subseteq sections["worldState"]
      /\ "exec_query" \in sections["database"]
  BY DEF sections
<1>5. QED
  BY <1>2, <1>3, <1>4

(* A function calls upwards. *)
LEMMA CallsUpwards ==
  ASSUME NEW f \in Function, NEW g \in callees(f)
  PROVE  g \in Function /\ Level(f) < Level(g)
<1>1. CASE f = "broadcastTo"
  <2>1. g = "disconnectClient"
    BY <1>1 DEF callees
  <2>2. QED
    BY <1>1, <2>1, MutexOfNested DEF Level, level
<1>2. CASE f = "logoutUser"
  <2>1. g = "exec_query"
    BY <1>2 DEF callees
  <2>2. QED
    BY <1>2, <2>1, MutexOfNested DEF Level, level
<1>3. CASE f = "addFaction"
  <2>1. g \in {"getUser", "exec_query", "updateUserFaction"}
    BY <1>3 DEF callees
  <2>2. QED
    BY <1>3, <2>1, MutexOfNested DEF Level, level
<1>4. CASE f = "spawnObject"
  <2>1. g \in {"getTileState", "setTileState"}
    BY <1>4 DEF callees
  <2>2. QED
    BY <1>4, <2>1, MutexOfNested DEF Level, level
<1>5. QED
  BY <1>1, <1>2, <1>3, <1>4 DEF callees

LEMMA CallsAreFunctions ==
  ASSUME NEW t
  PROVE  calls(t) \subseteq Function
BY DEF calls, Function, Mutex, sections

LEMMA NoCallIsNone == NoCall \notin Function
BY DEF NoCall, Function, Mutex, sections

-----------------------------------------------------------------------------
LEMMA InOrderInit == Init => InOrder
<1>1. SUFFICES ASSUME Init PROVE InOrder
  OBVIOUS
<1>2. \A t \in Thread : stack[t] = <<>> /\ waiting[t] = NoCall
  BY <1>1 DEF Init
<1>3. TypeInv
  BY <1>1 DEF Init, TypeInv
<1>4. QED
  BY <1>2, <1>3 DEF InOrder, HeldInOrder, WaitsAbove

LEMMA CallInOrder ==
  ASSUME InOrder, NEW t \in Thread, NEW f \in Function, Call(t, f)
  PROVE  InOrder'
<1>1. /\ stack' = stack
      /\ waiting' = [waiting EXCEPT ![t] = f]
      /\ stack[t] \in Seq(Function)
  BY DEF Call, InOrder, TypeInv
<1>2. TypeInv'
  BY <1>1 DEF InOrder, TypeInv
<1>3. HeldInOrder'
  BY <1>1 DEF InOrder, HeldInOrder
<1>4. ASSUME NEW i \in DOMAIN stack[t]
      PROVE  Level(stack[t][i]) < Level(f)
  <2>1. /\ Len(stack[t]) \in Nat
        /\ DOMAIN stack[t] = 1..Len(stack[t])
        /\ i <= Len(stack[t])
        /\ Len(stack[t]) \in DOMAIN stack[t]
        /\ stack[t] # <<>>
    BY <1>1, <1>4
  <2>2. Last(stack[t]) = stack[t][Len(stack[t])]
    BY DEF Last
  <2>3. stack[t][i] \in Function /\ Last(stack[t]) \in Function
    BY <1>1, <1>4, <2>1, <2>2
  <2>4. Level(Last(stack[t])) < Level(f)
    BY <2>1, <2>3, CallsUpwards DEF Call, InnerCalls
  <2>5. i = Len(stack[t]) \/ Level(stack[t][i]) < Level(Last(stack[t]))
    BY <1>1, <2>1, <2>2 DEF InOrder, HeldInOrder
  <2>6. /\ Level(stack[t][i]) \in Int
        /\ Level(Last(stack[t])) \in Int
        /\ Level(f) \in Int
    BY <2>3, LevelType
  <2>7. QED
    BY <2>2, <2>4, <2>5, <2>6
<1>5. WaitsAbove'
  <2>1. SUFFICES ASSUME NEW u \in Thread, waiting'[u] # NoCall,
                        NEW i \in DOMAIN stack[u]
                 PROVE  Level(stack[u][i]) < Level(waiting'[u])
    BY <1>1 DEF WaitsAbove
  <2>2. CASE u = t
    BY <1>1, <1>4, <2>1, <2>2 DEF InOrder, TypeInv
  <2>3. CASE u # t
    <3>1. waiting'[u] = waiting[u]
      BY <1>1, <2>3 DEF InOrder, TypeInv
    <3>2. QED
      BY <2>1, <3>1 DEF InOrder, WaitsAbove
  <2>4. QED
    BY <2>2, <2>3
<1>6. QED
  BY <1>2, <1>3, <1>5 DEF InOrder

LEMMA AcquireInOrder ==
  ASSUME InOrder, NEW t \in Thread, Acquire(t)
  PROVE  InOrder'
<1>1. /\ waiting[t] \in Function
      /\ stack' = [stack EXCEPT ![t] = Append(stack[t], waiting[t])]
      /\ waiting' = [waiting EXCEPT ![t] = NoCall]
      /\ stack[t] \in Seq(Function)
  BY DEF Acquire, InOrder, TypeInv
<1>2. TypeInv'
  BY <1>1 DEF InOrder, TypeInv
<1>3. stack'[t] = Append(stack[t], waiting[t])
  BY <1>1 DEF InOrder, TypeInv
<1>4. \A u \in Thread \ {t} : stack'[u] = stack[u] /\ waiting'[u] = waiting[u]
  BY <1>1 DEF InOrder, TypeInv
<1>5. HeldInOrder'
  <2>1. SUFFICES ASSUME NEW u \in Thread,
                        NEW i \in DOMAIN stack'[u], NEW j \in DOMAIN stack'[u], i < j
                 PROVE  Level(stack'[u][i]) < Level(stack'[u][j])
    BY DEF HeldInOrder
  <2>2. CASE u # t
    BY <1>4, <2>1, <2>2 DEF InOrder, HeldInOrder
  <2>3. CASE u = t
    <3>1. /\ Len(stack[t]) \in Nat
          /\ DOMAIN stack[t] = 1..Len(stack[t])
          /\ i \in DOMAIN stack[t] /\ stack'[t][i] = stack[t][i]
          /\ \/ j \in DOMAIN stack[t] /\ stack'[t][j] = stack[t][j]
             \/ stack'[t][j] = waiting[t]
      BY <1>1, <1>3, <2>1, <2>3
    <3>2. waiting[t] # NoCall
      BY DEF Acquire
    <3>3. QED
      BY <2>1, <2>3, <3>1, <3>2 DEF InOrder, HeldInOrder, WaitsAbove
  <2>4. QED
    BY <2>2, <2>3
<1>6. WaitsAbove'
  <2>1. waiting'[t] = NoCall
    BY <1>1 DEF InOrder, TypeInv
  <2>2. QED
    BY <1>4, <2>1 DEF InOrder, WaitsAbove
<1>7. QED
  BY <1>2, <1>5, <1>6 DEF InOrder

LEMMA ReleaseInOrder ==
  ASSUME InOrder, NEW t \in Thread, Release(t)
  PROVE  InOrder'
<1>1. /\ waiting' = waiting
      /\ stack' = [stack EXCEPT ![t] = Front(stack[t])]
      /\ stack[t] \in Seq(Function)
      /\ stack[t] # <<>>
  BY DEF Release, InOrder, TypeInv
<1>2. /\ Front(stack[t]) \in Seq(Function)
      /\ DOMAIN Front(stack[t]) \subseteq DOMAIN stack[t]
      /\ \A i \in DOMAIN Front(stack[t]) : Front(stack[t])[i] = stack[t][i]
  <2>1. Front(stack[t]) = [i \in 1..(Len(stack[t]) - 1) |-> stack[t][i]]
    BY DEF Front
  <2>2. Len(stack[t]) \in Nat \ {0} /\ DOMAIN stack[t] = 1..Len(stack[t])
    BY <1>1
  <2>3. QED
    BY <1>1, <2>1, <2>2
<1>3. TypeInv'
  BY <1>1, <1>2 DEF InOrder, TypeInv
<1>4. \A u \in Thread :
        /\ DOMAIN stack'[u] \subseteq DOMAIN stack[u]
        /\ \A i \in DOMAIN stack'[u] : stack'[u][i] = stack[u][i]
  BY <1>1, <1>2 DEF InOrder, TypeInv
<1>5. HeldInOrder'
  BY <1>4 DEF InOrder, HeldInOrder
<1>6. WaitsAbove'
  BY <1>1, <1>4 DEF InOrder, WaitsAbove
<1>7. QED
  BY <1>3, <1>5, <1>6 DEF InOrder

LEMMA InOrderNext == InOrder /\ [Next]_vars => InOrder'
<1>1. SUFFICES ASSUME InOrder, [Next]_vars PROVE InOrder'
  OBVIOUS
<1>2. ASSUME NEW t \in Thread, NEW f \in Function, Call(t, f) PROVE InOrder'
  BY <1>1, <1>2, CallInOrder
<1>3. ASSUME NEW t \in Thread, Acquire(t) PROVE InOrder'
  BY <1>1, <1>3, AcquireInOrder
<1>4. ASSUME NEW t \in Thread, Release(t) PROVE InOrder'
  BY <1>1, <1>4, ReleaseInOrder
<1>5. CASE UNCHANGED vars
  BY <1>1, <1>5 DEF vars, InOrder, TypeInv, HeldInOrder, WaitsAbove
<1>6. QED
  BY <1>1, <1>2, <1>3, <1>4, <1>5 DEF Next

-----------------------------------------------------------------------------
(* Whoever holds what a thread waits for, and waits itself, waits higher. *)
LEMMA HolderWaitsHigher ==
  ASSUME InOrder, NEW t \in Thread, NEW u \in Thread,
         waiting[t] # NoCall, waiting[u] # NoCall,
         mutexOf(waiting[t]) \in Held(u)
  PROVE  /\ Level(waiting[t]) \in 1..3
         /\ Level(waiting[u]) \in 1..3
         /\ Level(waiting[t]) < Level(waiting[u])
<1>1. PICK i \in DOMAIN stack[u] : mutexOf(waiting[t]) = mutexOf(stack[u][i])
  BY DEF Held
<1>2. Level(waiting[t]) = Level(stack[u][i])
  BY <1>1 DEF Level
<1>3. Level(stack[u][i]) < Level(waiting[u])
  BY DEF InOrder, WaitsAbove
<1>4. waiting[t] \in Function /\ waiting[u] \in Function
  BY DEF InOrder, TypeInv
<1>5. QED
  BY <1>2, <1>3, <1>4, LevelType

LEMMA OrderExcludesDeadlock == InOrder => NoDeadlock
<1>1. SUFFICES ASSUME InOrder, NEW threads \in SUBSET Thread, threads # {},
                      \A t \in threads : WaitsForOneOf(t, threads)
               PROVE  FALSE
  BY DEF NoDeadlock
<1>2. \A t \in threads : \E u \in threads :
        /\ Level(waiting[t]) \in 1..3
        /\ Level(waiting[u]) \in 1..3
        /\ Level(waiting[t]) < Level(waiting[u])
  BY <1>1, HolderWaitsHigher DEF WaitsForOneOf
<1>3. \A t \in threads : Level(waiting[t]) # 3
  BY <1>2
<1>4. \A t \in threads : Level(waiting[t]) # 2
  BY <1>2, <1>3
<1>5. \A t \in threads : Level(waiting[t]) # 1
  BY <1>2, <1>3, <1>4
<1>6. QED
  BY <1>1, <1>2, <1>3, <1>4, <1>5

(* However many threads handle messages, broadcast and accept connections, *)
(* no set of them waits for each other over the mutexes of MessageHandler, *)
(* Game, Server and DatabaseManager (logoutUser runs its statement and     *)
(* broadcasters drop clients while they hold one).                         *)
THEOREM NeverDeadlocked == Spec => []NoDeadlock
<1>1. Init => InOrder
  BY InOrderInit
<1>2. InOrder /\ [Next]_vars => InOrder'
  BY InOrderNext
<1>3. InOrder => NoDeadlock
  BY OrderExcludesDeadlock
<1>4. QED
  BY <1>1, <1>2, <1>3, PTL DEF Spec

-----------------------------------------------------------------------------
(* A mutex is held by one thread. *)
Exclusive == \A t, u \in Thread : t # u => Held(t) \cap Held(u) = {}

ExclusiveInv == TypeInv /\ Exclusive

(* The mutex that guards what several threads use. *)
guard ==
  [send |-> "messageHandler", s_pConnection |-> "database", _clientUserMapping |-> "server"]

LEMMA UsersHoldGuard ==
  ASSUME NEW f \in Function, NEW x \in uses(f)
  PROVE  mutexOf(f) = guard[x]
<1>1. CASE f \in {"respond", "broadcastTo"}
  <2>1. x = "send"
    BY <1>1 DEF uses
  <2>2. QED
    BY <1>1, <2>1, MutexOfNested DEF guard
<1>2. CASE f = "exec_query"
  <2>1. x = "s_pConnection"
    BY <1>2 DEF uses
  <2>2. QED
    BY <1>2, <2>1, MutexOfNested DEF guard
<1>3. CASE f \in {"getUser", "loginUser", "updateUserData", "logoutUser",
                  "disconnectClient"}
  <2>1. x = "_clientUserMapping"
    BY <1>3 DEF uses
  <2>2. QED
    BY <1>3, <2>1, MutexOfNested DEF guard
<1>4. QED
  BY <1>1, <1>2, <1>3 DEF uses

LEMMA ExclusiveNext == ExclusiveInv /\ InOrder' /\ [Next]_vars => ExclusiveInv'
<1>1. SUFFICES ASSUME ExclusiveInv, TypeInv', [Next]_vars PROVE Exclusive'
  BY DEF ExclusiveInv, InOrder
<1>2. ASSUME NEW t \in Thread, NEW f \in Function, Call(t, f) PROVE Exclusive'
  BY <1>1, <1>2 DEF Call, ExclusiveInv, Exclusive, Held
<1>3. ASSUME NEW t \in Thread, Acquire(t) PROVE Exclusive'
  <2>1. /\ stack[t] \in Seq(Function) /\ waiting[t] \in Function
        /\ stack'[t] = Append(stack[t], waiting[t])
        /\ \A u \in Thread \ {t} : stack'[u] = stack[u]
    BY <1>1, <1>3 DEF Acquire, ExclusiveInv, TypeInv
  <2>2. \A u \in Thread \ {t} : Held(u)' = Held(u)
    BY <2>1 DEF Held
  <2>3. Held(t)' \subseteq Held(t) \cup {mutexOf(waiting[t])}
    BY <2>1 DEF Held
  <2>4. \A u \in Thread : mutexOf(waiting[t]) \notin Held(u)
    BY <1>3 DEF Acquire
  <2>5. QED
    BY <1>1, <2>2, <2>3, <2>4 DEF ExclusiveInv, Exclusive
<1>4. ASSUME NEW t \in Thread, Release(t) PROVE Exclusive'
  <2>1. /\ stack[t] \in Seq(Function) /\ stack[t] # <<>>
        /\ stack'[t] = Front(stack[t])
        /\ \A u \in Thread \ {t} : stack'[u] = stack[u]
    BY <1>1, <1>4 DEF Release, ExclusiveInv, TypeInv
  <2>2. \A u \in Thread \ {t} : Held(u)' = Held(u)
    BY <2>1 DEF Held
  <2>3. Held(t)' \subseteq Held(t)
    BY <2>1 DEF Held, Front
  <2>4. QED
    BY <1>1, <2>2, <2>3 DEF ExclusiveInv, Exclusive
<1>5. CASE UNCHANGED vars
  BY <1>1, <1>5 DEF vars, ExclusiveInv, Exclusive, Held
<1>6. QED
  BY <1>1, <1>2, <1>3, <1>4, <1>5 DEF Next

LEMMA ExclusiveUse == ExclusiveInv => NeverShared
<1>1. SUFFICES ASSUME ExclusiveInv, NEW t \in Thread, NEW u \in Thread, t # u, NEW x,
                      Running(t, x), Running(u, x)
               PROVE  FALSE
  BY DEF NeverShared
<1>2. ASSUME NEW v \in Thread, Running(v, x) PROVE guard[x] \in Held(v)
  <2>1. PICK i \in DOMAIN stack[v] : x \in uses(stack[v][i])
    BY <1>2 DEF Running
  <2>2. stack[v][i] \in Function
    BY <1>1, <2>1 DEF ExclusiveInv, TypeInv
  <2>3. QED
    BY <2>1, <2>2, UsersHoldGuard DEF Held
<1>3. QED
  BY <1>1, <1>2 DEF ExclusiveInv, Exclusive

(* exec_query, the functions of Server and the sends of MessageHandler take *)
(* the mutex of what they use, so that no two threads use the connection of *)
(* the database, the map of the users or the sending end of a socket at     *)
(* once, whatever functions of the server they call it from.                *)
THEOREM SharedByNone == Spec => []NeverShared
<1>1. Init => InOrder /\ ExclusiveInv
  BY InOrderInit DEF Init, InOrder, ExclusiveInv, Exclusive, Held
<1>2. InOrder /\ ExclusiveInv /\ [Next]_vars => InOrder' /\ ExclusiveInv'
  BY InOrderNext, ExclusiveNext
<1>3. ExclusiveInv => NeverShared
  BY ExclusiveUse
<1>4. QED
  BY <1>1, <1>2, <1>3, PTL DEF Spec
=============================================================================
