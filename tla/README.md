# Verification of the Proj8315 server

TLA+ models of the game server under `src/`, checked with TLC on small
instances, and TLAPS proofs of what matters most for every instance. File names
below are relative to `src/src/`.

## 1. The system

One process (`Main.cpp`) connects to PostgreSQL, generates a world, and runs
five threads until it is killed:

| thread | code | what it does |
|---|---|---|
| main | `Server::run` | accepts connections, registers clients |
| handler | `MessageHandler::handleClientMessages` | reads every client's queue and runs the message functions |
| world broadcast | `broadcastWorldState` | sends each logged in user what its observer sees |
| faction broadcast | `broadcastFactionStates` | sends every client the factions that changed |
| game | `Game::run` | queues and performs the actions of the objects |

### Components

| component | state it keeps | operations | what makes it correct |
|---|---|---|---|
| `DatabaseManager`, tables `users`, `factions` | the connection; rows | `exec_query`, one transaction each | a statement commits, fails, or is in doubt and the connection is gone |
| `Server`, `Client` | `_clients`, `_clientUserMapping` | `run`, `getClientConnections`, `getUser`, `loginUser`, `logoutUser`, `disconnectClient`, `updateUserData` | one session per user; sessions are recorded in `users.logged_in`; no descriptor leaked or closed for somebody else |
| `MessageHandler` | `_pRecvBuf`, a mutex for sending | the three loops | requests are read, cut into messages and handled for their sender; dead connections are dropped; no deadlock with the other mutexes |
| message functions (`msgs/General`, `msgs/WorldState`, `Game::addFaction`) | the `User` on the stack; `Game::_factions` | login, logout, registration, observer update, faction creation, lists | accounts are released by their own session only; memory has the table's factions but those it could not load |
| `Game`, `ObjectManager`, actions | `_pWorld`, `_allObjects`, action queues | `run`, `updateFunc`, `Move::run`, `IdleAction::run`, `getWorldState` | a unit stands on a tile of its own and never gets stuck |
| `msgs/Admin` | none | `spawn_object`, `terrain_modification` | spawning makes no more things than objects; terrain changes move nothing |
| world generation (`game/world/*`), `Game`'s constructor | tiles and objects before the threads start | elevation, cliffs, water, temperature, environment; library, factions, first units | water that stays within its shores; each generator finds what it relies on, and ends; every object on a tile of its own |
| utilities | none | noise, string and bit helpers | pure functions (not modelled) |

### Interaction and what is hard about it

* `_clients` and `_clientUserMapping` are shared by four threads under
  `Server::_mutex`, but every caller works on *copies*: a snapshot of the clients
  is visited long after it was taken, with descriptor numbers that may have been
  closed and handed out again by `accept`.
* A login is four steps (SELECT, UPDATE, `loginUser`, SELECT factions) without a
  lock around them. A broadcaster can drop the client between any two, each
  statement can fail, and a commit can take effect although the caller sees a
  failure.
* The process can die at any point. `users.logged_in` survives, the maps do not.
* A dead connection is noticed only by a failing send, and the first send after
  the peer closed succeeds.
* `Game::_mutex_worldState` is taken by the readers and the admin functions, and
  never by the game thread that moves the objects.
* One receive buffer serves all clients; a read can end anywhere in a message.
* Five mutexes are nested by four threads: a broadcaster drops clients while it
  holds `MessageHandler`'s, `logoutUser` runs a statement under `Server`'s.
* A start can fail to load the factions and runs on without them.
* The tiles of a wave of fertile ground are visited in the order of an
  `unordered_set`, while weights are written and the next wave is collected.
* The generators hand each other the world through its tiles: what one takes for
  granted (water has a pool, heights are unsigned, cliffs are where the code finds
  them) is the work of those before it.
* Marks of changed factions are collected and cleared in two critical sections.

`PROJECT.json` lists these as hazards, each with its line and the properties
aimed at it.

## 2. Modules

    Database  <-  ClientRegistry  <-  Sessions  <-  MCSessions
                                         |  \
                      AccountLifecycle <-+   SessionsProofs <- DescriptorProofs <- AdmissionProofs
    World  <-  MCWorld, WorldProofs
    Terrain  <-  WaterGenerator  <-+
             <-  TemperatureGenerator  <- EnvironmentGenerator  <-  GameStart  <-  MCGameStart
             <-  ElevationGenerator  <---------------------------+       |
                                                                     +-  WaterProofs  <-  EnvironmentProofs
    Framing  <-  MCFraming, FramingProofs
    Locks  <-  LocksProofs

(`A <- B`: B extends A, or instantiates it for the refinement; EnvironmentGenerator
extends the water's and the temperature's modules.)

**Database** — the tables and the connection. `Exec` is `exec_query`: the
statement commits, or fails without a trace, or the connection breaks and the
caller sees a failure whether or not the commit happened. Nothing reconnects, so
`dbUp` stays FALSE until a restart.

**ClientRegistry** — `Server`'s maps, the main thread (`Accept`, `Find`,
`Insert`: the look-up of the address takes no mutex) and the kernel's side of the
sockets: which address a descriptor number is connected to, what became of the
connection, the bytes not yet read, the lowest free number at `accept`, a first
send to a closed peer succeeding. The kernel's part is external, modelled as far
as the server's calls can tell.

**Sessions** — the process: the handler with every message function, both
broadcasters, crash and restart. One action is one stretch of a thread between
two points where another thread can see or change what it uses. Locals that live
across such a point are variables (`client`, `batch`, `user`, `bClients`, ...).
`sender`, `saved` and `unloaded` are history variables. A start, the first or one after
a crash, finds a connection, and its `SELECT * FROM factions` (`SelectFactions`) gives
the rows of the table, or none, with the connection or without; `operator[]` makes the
faction `Neutral` if it was not loaded. It states the properties of the
system and the claims the code does not keep.

**AccountLifecycle** — the abstract specification of an account: free, being
admitted, online, locked. The welcome message in `init_db_tables.sql` warns that
who does not log out is "permanently locked off" the account; the module says
precisely what that means. `Sessions` implements it
(`AccountsKept`) with the refinement mapping `AccountStatus`.

**Framing** — the receive buffer of `handleClientMessages`. TCP delivers any
beginning of what a peer sent; a message is taken from the buffer with the length
its type says, also past what was read or past the buffer. A byte is where it comes
from: whose, which message, which place. `Sessions` takes messages whole; this
module says when that is so.

**Locks** — which mutex each function holds and what it calls meanwhile. What a
thread calls otherwise, in which order and how often, is left open, so the module has
every behaviour of the code and more. The game thread takes no mutex.

**World** — tiles and objects, the game thread's two loops, the move and idle
actions, admin spawns and terrain modifications, and the copying of tiles for a
broadcast. Which objects there are and which messages the admins send is chosen at
the start (`scenario`), because what holds depends on it.

**GameStart** — `Game`'s constructor, one stage after the other as `generate_world`
calls them: the object library from the database, the generators, the factions,
the first units. The generators are modules of their own over the tiles of
**Terrain**; a generator's step is an action there and GameStart says what it
leaves alone.

* **ElevationGenerator** — `generate_world_cliffs` visits tile after tile and compares
  each with those around it, with the height it had when the visit began; one step per
  comparison (`Rock`, `Ramp`, `NoCliff`), so that a ramp changes what the next one sees.
  `create_ramp` with its weights, its direction, its target height (which at an edge
  of the world is another tile's) and its tiles. `Elevated` stands for the worlds
  `generate_world_elevation` may leave.
* **WaterGenerator** — `generate_world_waters` and `generate_water_area`: one action
  per iteration of the search (`Revisit`, `Leak`, `Spread`), one to drop a pool, one
  to fill it.
* **TemperatureGenerator** — one step per tile, in their order; temperatures as
  integers; a tile of water that has become a dune does not count for the next.
* **EnvironmentGenerator** — the initial weights and the waves; one step per visit
  of a tile, in any order (`PassOver`, `Fertilize`), and one at the end of a wave.

**SessionsProofs, DescriptorProofs, AdmissionProofs, WorldProofs, WaterProofs,
EnvironmentProofs, FramingProofs, LocksProofs** — section 5.

### Abstractions worth knowing

* A `User` in the mapping is its identity, its observer's tile and whether it
  carries a faction name; a message is a record of the fields that matter. A wrong
  password is a user without a row.
* `updateUserData` uses `operator[]` and default constructs an entry for a client
  that was dropped. The code compares users with `NULL_USER`; such an entry is
  modelled with that user, so `LoggedInFrom` is false of it, as `getUser` says.
* The unlocked look-up in `Server::run` races with erasures. Its outcomes are
  taken to be those of a look-up before or after; a process that dies in it is
  covered by the crash action.
* Whether a `Faction` the server constructs is marked as updated is decided in a
  submodule that is not part of the repository: the constant `NewFactionUpdated`
  covers both answers. `transfer_obj_to` is taken from there too, as one step that
  moves the thing bits of a tile.
* In Sessions the read loop of one client takes the whole queue (`MaxBatch` bounds
  it), and its messages are whole.
* `get_message_size` is not part of the repository. Framing takes it to give each
  type its size, and any of them to bytes that are no type. If it gave 0, the loop
  would never move on; in the model the handler stutters.
* GameStart's `_factions` is the one name the constructor uses, which is there
  whether or not the statement for the factions succeeds; which others are there is in
  Sessions. In Sessions the object library is always there: a server without one dies at
  its first unit. The two kinds of `Faction` constructors are taken to mark it alike.
* A faction's name may be empty if the submodule lets such a request through
  (`EmptyName`); an id, a UUID, is not.
* Fertility weights are floats in the code and integers (hundredths) here, means
  rounded down; the ratio 0/0 fails the comparison, as a NaN does. Temperature scores
  are exact where the code's float is a whole number.
* Each tile of a wave can be the next one visited, which stands for every order the
  `unordered_set` can have. The next wave is collected as in the code and taken over
  when the last tile was visited.
* At most `MaxRamps` cliffs get a ramp and at most `MaxPlants` plants grow, where the
  code throws a dice for each.
* `spawn_object` reads `_factions[...]` with the name `Neutral`, because the
  faction name of a mapped user is never set (see the finding); so it adds no
  faction, and the world and the sessions share no state the properties are about.
* The second test of the mapped user's faction name in `addFaction` is therefore
  never true; the model keeps it.
* If a push makes the vector of objects grow while `updateFunc` iterates, the
  behaviour is undefined; the model takes the old end of the loop, or the process
  dies, which ends the behaviour.
* A tile is the id of the thing on it, an object's position a tile index: the
  moves compute and check the index only.
* Dead code is left out: `Server::shutdown` (nothing calls
  `trigger_shutdown`), `MoveVertical` and `ClassAction0` (never queued),
  `edit_faction` (not mapped to a message), `ByteBuffer`, `Responses`.

## 3. Runs

Passing (states are distinct states found):

| run | instance | states | properties and what they show |
|---|---|---|---|
| `sessions` | 1 user, 2 addresses, 2 descriptors, logins and lists, both broadcasters, a database connection that can break at every statement | 1 775 866 | `TypeOK`; `SingleSession`: a user never has two sessions; `FdsAccounted`: no descriptor leaked or closed for another client; `RegisteredSender`: a registered client's requests come from its own peer |
| `accounts` | 2 users, 2 tiles, 2 addresses sharing 1 descriptor number, logins, logouts and observers, 1 crash | 678 264 | `MappedIsLoggedIn`: while the database answers, the test of `logged_in` sees every session; `AccountsKept`: the server implements `AccountLifecycle`; `LockedOutForever`: a lost account stays lost; `SavedOnLogout`: an account is released only from its own session, and a saved position is that session's last |
| `factions` | 1 user, 2 new factions, one with an empty name, batches of 2, 1 crash, starts that load the table or not | 986 281 | `FactionsAgree`: `_factions` never has more than the table, and lacks only what the start could not load and, once the connection is gone, one faction whose insertion was in doubt |
| `liveness` | 2 addresses sharing 1 descriptor number, logins and logouts, fairness | 136 390 | `Reaped`: a logged in user's dead connection is dropped; `RequestsRead`: what was sent is read |
| `world` | 2 x 2 tiles; two units and a tree by themselves, or a unit and a tree with spawns, or with terrain modifications and an observer; fairness | 279 302 | `WorldTypeOK`; `UnitsOnTheirTiles`; `NoPhantoms`: spawns never leave more things on the map than objects; `TreesStay`: writing a tile back over a move never moves a tree; `MovesEnd`: a unit's queue never stays full |
| `game_start` | 3 x 3 tiles, 18 worlds of three heights, two pools, a ramp of either width, a plant, a unit, two climates, the library there or not; fairness | 143 845 | `StartTypeOK`: heights stay in their 5 bits, tiles and weights in their ranges; `WaterHeld`: no water above a tile next to it; `PoolSizesRight`: the recorded sizes are those of the bodies of water, also after later pools; `GroundOnlyRises`; `SearchAdvances`: no step of a search goes round in a circle, and `AllPoolsFilled`: every search ends; `PoolsKnown`: `at()` never throws; `RockAtCliffs`: where there are no ramps, rock is what lies at a cliff, seen from either side; `FertilityFades`: land is poorer than its richest neighbour unless that is water; `OrderOfVisitsFree`: no weight and no wave depends on the order of the visits; `WavesProgress`: the waves end; `ObjectsOnTheirTiles`: what World starts from |
| `framing` | 2 clients, one with two messages and one with one, of 2 or 3 bytes, a buffer of 4 | 153 664 | `NothingOfOthers`: nothing in the shared buffer reaches another client's messages; `MessagesWhole`: reads that end with a message give the messages that were sent; `EveryByteOnce`: however they end, every byte is in one place and in order; `FramingTypeOK` |
| `locks` | one thread of each kind | 7 932 | `NoDeadlock`: no set of threads waits for itself; `NeverShared`: the database connection, the mapping of users and the sends are used by one thread at a time |

Violated claims, each quoted in `PROJECT.json` under "findings":

| run | claim | what happens |
|---|---|---|
| `one_faction` | a user has one faction | the mapped user's faction name is never set, so the test in `addFaction` never refuses; the user's next login then fails |
| `wrong_sender` | a message is handled for the client that sent it | the handler reads from a descriptor a broadcaster closed and `accept` handed out again |
| `spawn_race` | spawning needs no lock over test and write | a unit moves onto the tile in between |
| `plants_owned` | plants are spawned as the Neutral faction | the world is generated before the factions are loaded, so `accessFaction` returns a null pointer, which is dereferenced into the plant's faction reference |

Other behaviour the models show, for the maintainers: positions are written at
logout only, although `init_db_tables.sql` (line 38) says that they are recorded when
a user "logged out / disconnected"; a client dropped during its
login leaves a session nobody can log out (`loginUser` does not look whether the
client is there); a login answered as failed because of the faction query has
made its session; a start whose `SELECT` of the factions failed runs on with `Neutral`
only, and the names of the others can then be asked for and are refused by the table;
`notes.txt` (lines 4-5) says that factions "aren't updated/fetched in database" and
"live only inside "Game" - object", whereas `Game.cpp:64-79` fetches them and
`Game.cpp:199` inserts them; the header comment of `EnvironmentGenerator.cpp` (lines
33-38) takes the fertility of a ring to be that of the "inner ring - 1" and to "always
decrease", whereas in the first ring `deg` is 0 for the four straight neighbours
(243-245), so land with water straight beside it and none at its corners is worth as
much as the water; a connection from an address still registered is never closed;
a faction created during a faction broadcast loses its mark unsent; a message cut by
the end of the buffer is completed with zeros and its rest is read as messages of
their own; a move east from the last column ends in the first column of the next
row, and cliffs, dunes and fertile ground go on there too; a ramp at the
edge of the world may look at another tile for its target height; a server whose
object library could not be loaded dies at the first plant or unit; a unit spawned
between the game thread's two loops is put at (0, 0); a copied world state can
show a unit twice or not at all.

### Bounds, and why they are enough

* Two addresses are what it takes for a number to be closed for one client and
  given to another, and for one user to try two sessions. Two descriptors are
  needed for both clients to be connected at once; one shared number makes every
  stale copy dangerous and the instance small.
* `MaxBatch` 1 suffices where only the order of requests matters; `factions` uses
  2, so that a request follows another without a new snapshot.
* `factions` has `NewFactionUpdated` FALSE, which keeps the broadcasts of new factions,
  of which `FactionsAgree` says nothing, out of the instance; `sessions` and `liveness`
  have them.
* `MaxRestarts` 1: a restart leaves nothing but the tables.
* `ReuseAddr` says whether a peer may connect again from an address it used. Ports
  repeat rarely; the properties about descriptors and lost accounts hold for new
  addresses only (a client that comes back from the address of a session it lost
  finds that session), so the runs have new ones. `TypeOK`, `SingleSession` and
  `MappedIsLoggedIn` are proved for both.
* World: 2 x 2 tiles have a free tile to race for, and neighbours across the
  row boundary. `MoveEnd` 1 makes a move take two updates, the fewest in which
  the target can be taken meanwhile. `MaxObjects` bounds the spawns.
* GameStart: 3 x 3 tiles are the smallest with pools apart from each other and a tile
  with all eight neighbours. Of three heights two steps apart are a cliff the ramp
  descends in two rows; the worlds are mirrored on the diagonal, have their lowest
  ground around one corner and no medium height on the diagonal, which leaves cliffs
  along edges, in corners and around the middle, pools of one tile and of several,
  leaks, and later pools above, in and beside the first. The other corner is the highest
  ground, to keep the visits of the waves, in every order, within bounds. Two pools let the second start in, beside or above the first. The
  equators put one climate on either side of the limit for dunes. `poolMultiplier` is
  ten times the code's: on so few tiles the code's own gives no second wave.
* Framing: a buffer of one and a half messages makes it cut types as well as
  contents; two messages of one client are concatenated, and the other client's comes
  into the buffer before, between and after them.
* Locks: one thread of each kind is the server. The proofs are for any number.
* Symmetry over users and addresses is used where only safety is checked.

### Fairness

`FairSpec` of Sessions asks weak fairness of each thread of the process: they are
plain threads in infinite loops. A thread waiting for `MessageHandler::_mutex`
needs no more, because a holder keeps it over one `disconnectClient`, which drops
a client, and clients with new addresses are finitely many. Peers, failures and
crashes are under no obligation. `FairSpec` of World asks it of the game thread,
which takes no lock and does not sleep, that of GameStart of the search for pools, the
step a sequential program takes next. `Framing` and `Locks` state no liveness:
`std::mutex` promises its waiters nothing, and a peer may never send the rest of a
message. What makes the loops of the generators end is stated as action properties
as well, which need no fairness: `SearchAdvances` (each step of the search for a pool
leads to lower ground, to a tile not observed yet, or leaves fewer to look at) and
`WavesProgress` (each step of a wave visits another of its tiles, and each wave but the
last adds one to the finitely many that have a weight).

## 4. What is only model-checked

Liveness: `Reaped`, `RequestsRead`, `MovesEnd` and `AllPoolsFilled`, which the prover
cannot do; for the last the variant is proved (`SearchComesToAnEnd`), from which it
follows under `FairSpec`. Every other property of the passing runs is a theorem.

The proofs are about the models. What the models take from outside of `src/` (the
kernel's sockets, PostgreSQL, `std::mutex`, the functions of the submodule) is
assumed, and `get_message_size` to be at least the length of a type.

## 5. Proofs

For every set of users, tiles, names, addresses, descriptors and messages, from
the named assumptions of the modules (special values are distinct from the sets
they stand outside of; descriptors are numbers; messages are those of `Requests`).

* `SessionsProofs` — `TInv` is `TypeOK`, split into one part per group of
  variables, plus what the threads rely on between steps: the handler has a
  message and a client whenever it is not between clients, the continuation of an
  observer update or faction creation still has that request at its head, a
  broadcaster about to send or disconnect has a client. Without the latter
  `TypeOK` is not inductive. Frame lemmas say that a part survives a step
  that leaves its variables alone; then there is one lemma per message function.
  `TypeCorrect`: Spec => []TypeOK. `FactionsAgree` is inductive with the row of
  `Neutral` being in the table (`FactionsInv`), since a start without rows makes that
  faction all the same. A statement in doubt takes the connection down, so there is one
  such row at most, and a row that was not loaded keeps another of its name out of the
  table. `MemoryAgreesWithTable`.
* `AdmissionProofs` — `SingleSession` is inductive together with
  `MappedIsLoggedIn`, `Admitting` (between SELECT and UPDATE the user's flag is
  still FALSE, since only this thread writes it; between UPDATE and `loginUser` it
  is TRUE and nobody is mapped to the user) and `Leaving` (the entry a logout is
  going to erase is the caller's or gone). The failing and in-doubt outcomes go
  through because they either change nothing or take the connection down, and then
  no login is admitted any more. `OneSessionPerUser`, `SessionsAreRecorded`.
  What a logout writes: until its last statement the mapping has the caller's session
  as it was read, or none (`LeavingWith`), hence `ReleasedWithItsPosition`.
* The refinement, in the same module: with `~ReuseAddr` an address that connects has
  no session left from an earlier client (`SessionsSeen`), so inserting a client
  gives no account back. The UPDATE of a login, `loginUser` and the last statement of
  a logout move one account each (`UpdateMoves`, `EnterMoves`, `LeaveMoves`); every other
  step leaves `logged_in` alone and admits nobody, so accounts can only be lost
  (`GainsNothing`, `Loses`). `ImplementsAccountLifecycle`, `NeverGivenBack`.
* `DescriptorProofs` — with `~ReuseAddr`: every copy of a client, in any snapshot,
  has an address that was seen, is registered with the same number or not at all,
  and is not the connection being accepted (`Known`). Hence `disconnectClient`
  closes the client's own number, and a registered client is read from its own.
  `DescriptorsAccounted`, `RequestsFromOwnPeer`.
* `WorldProofs` — for every width, number of objects and speed. `TypeInv` splits
  `WorldTypeOK` and adds that a progress stays below one update past the end of a
  move. Without spawns every unit has a queued move when the loop reaches it
  (`Still`), so none idles, which would put it at (0, 0); a move then goes from a
  unit's own tile to a free one. Trees stay because what a terrain
  modification writes back is a tree exactly if the tile has one, and no move starts or
  ends at a tree (`TreesSafe`). A unit keeps
  its tile since the tiles of units are theirs alone (`OwnTiles`) and objects keep their
  kind (`Placed`). For spawns the occupied tiles are counted: the object is stored
  before its tile is written, so until then there is one tile less than objects
  (`PhantomInv`). `WorldTyped`, `TreesNeverMove`, `UnitsKeepTheirTiles`,
  `NeverPhantoms`.
* `WaterProofs` — for worlds of every size and elevation: `WaterHeld` with what the
  search knows between steps. What it found is level (`FoundLevel`) and below the
  water level (`FoundBelow`); a neighbour of a visited tile was found too or is a
  higher shore that the level is not above (`ShoresKnown`). When the stack is empty
  the pool's only neighbours are such shores, and earlier water among them would
  already stand too high, since adjacency is symmetric. `WaterNeverAboveShore`.
  A pool without a shore is closed under adjacency, and in one piece of ground only
  the whole world is: from any tile one can step closer to any other (`OnePiece`).
  `PoolsRaiseGround`. What is found stays level and a leak is lower, so the search
  never comes back: `SearchComesToAnEnd`.
* Sizes of pools, in the same module: what a search found is connected (`Connected`:
  a set closed under adjacency within it that has one of its tiles has all), and every
  recorded size is that of the body of water around its tile (`Sized`). A body is
  defined without paths, as the tiles that no closed part of the water separates. A new
  pool stands apart from all water it does not swallow (`PoolApart`), so filling it makes
  one body and leaves the others as they were. `PoolSizesKnown`.
* `EnvironmentProofs` — the other stages of the constructor, on the map between tiles
  and indices being one to one (`TilesAndIndices`).
  Types: `TypeInv` adds to `StartTypeOK` that a pool searched for is one of those to
  be dropped and that objects are what the constructor spawns (`ObjectsInv`: as many as
  there are tiles that show something). A ramp's heights stay in range because it stops
  at a target height that is one, its steepness is never negative and one of the eight
  directions weighs most (`HighestDir`, `RampHeights`). A weight stays a natural number
  and below the best around it because the mean of at most eight terms is
  (`SumBound`, `MeanScore`). `StartTyped`, `ObjectsHaveTiles`.
  Pools: after the last one only types that are not water are written (`Pooled`).
  `PoolsStayKnown`.
  Rock: during the scan the rock is that of the comparisons made so far (`RockSoFar`),
  and the height a visit began with is still the tile's (`CurrentKnown`); at the end every
  pair was compared, and every offset has its opposite, so it does not matter that a tile
  is only looked at from below. `RockWhereCliffs`.
  Fertility: the tiles of a wave still to visit have no weight, nor have those of the
  next, which a tile that thrived has found, and what has a weight keeps it (`WaveInv`);
  so a wave in which any tile thrives adds to the weights and one in which none does is
  the last: `WavesEndAtLast`. A visit changes nothing another of the same wave reads,
  since only directions out of the wave count (`SameScore`), so what the visited tiles
  got is what they would get now: `AnyOrderOfVisits`. In the first wave only water has a
  weight outside of it (`FadeInv`), and in the later ones each term of the mean is at
  least a point below its neighbour's weight: `FertilityFadesOutwards`.
* `FramingProofs` — for every size of buffer, types and messages. A stream holds its
  client's bytes, and the buffer those of the client whose messages are being handled, of
  nobody in between (`BufferOwn`): a read may leave old bytes behind what it wrote, so
  this rests on the `memset` after each client. `FramingTyped`, `BufferSeparatesClients`.
  `EveryByteOnce` is inductive with what is behind the bytes of a read being nobody's
  (`FillerEmpty`) and with one clause for each pair of parts a byte can be in (`Once`:
  handled, unhandled and unread bytes are sent ones, in order, the handled before the
  rest). `AllBytesOnce`. As long as reads end where messages do, the bytes still to be
  handled begin with a message's first (`InStep`) and run on to the last sent
  (`RunsOn`), so the next type is read from where one is. `WholeMessages`.
* `LocksProofs` — each mutex has a level: those of `MessageHandler` and of the
  factions below those of `Server` and of the world state, and these below the
  database's. A function calls functions of higher levels only, so what a thread holds
  ascends and it waits above all of it (`InOrder`). In a circle of waiting threads
  whoever holds what another wants would wait higher than that one, and there are
  three levels. `NeverDeadlocked`; `SharedByNone`, since whoever uses what is shared
  holds its mutex and a mutex has one holder.

## 6. Not modelled

* Reading the server's configuration, logging, the contents of responses: no
  property is about them.
* Perlin noise: floating point; GameStart starts from any world of the
  levels it is rounded to.
* The string and bit helpers (`str_util`, `BitShit.hpp`): pure functions over text
  and words; the models abstract their results.
* Code that never runs: `shutdown`, `MoveVertical`, `ClassAction0`, `edit_faction`,
  `load_obj_info_file`, `ByteBuffer`, `Responses`.
* The data race on `_factions` (inserted into under one mutex, iterated over under
  another) and the unlocked look-up in `_clients`: undefined behaviour, of which the
  models have the outcomes of an access before or after.

What could come next: the liveness properties from their variants, should a prover
for them be at hand; the hazards of `PROJECT.json` that no property covers.
