--------------------------- MODULE CostmapProofs ---------------------------
(***************************************************************************)
(* What the robot knows of its surroundings: the inductive invariants      *)
(* behind the properties of the floors, publishers and planned grids of    *)
(* the multi-room costmap, and of the buffer of observations.              *)
(***************************************************************************)
EXTENDS MultiCostmap, ObservationBuffer, WellFoundedInduction, TLAPS

-----------------------------------------------------------------------------
(* The multi-room costmap *)

\* The costmap objects the executor holds for rooms, with the gen they had.
Objects == Rooms \X (Nat \ {0})
RoomStates ==
  [gen : Nat \ {0}, pub : BOOLEAN, published : BOOLEAN, z : BOOLEAN, changed : BOOLEAN,
   map : BOOLEAN, data : BOOLEAN]
FloorEntries ==
  [valid : BOOLEAN, regions : SUBSET Rooms, outside : SUBSET Rooms, blank : SUBSET Rooms]

\* Types, as far as they matter; a grid has data only after its map.
CostmapTypes ==
  /\ rooms \in [DOMAIN rooms -> RoomStates] /\ DOMAIN rooms \subseteq Rooms
  /\ \A r \in DOMAIN rooms : rooms[r].data => rooms[r].map
  /\ floors \in [DOMAIN floors -> FloorEntries] /\ DOMAIN floors \subseteq Floors
  /\ work \subseteq Objects
  /\ item \in Objects \cup {<<NoRoom, 0>>}
  /\ exec \in {"map", "z", "publishing", "mark", "update", "publishing_current"} =>
       item \in Objects /\ item[1] \in DOMAIN rooms
  /\ exec \notin {"publish", "publishing", "mark", "create"} => work = {}
  /\ \A w \in work : w[1] \in DOMAIN rooms
  /\ \A d \in deferred : d.rooms \subseteq Rooms
  /\ node_state # "cleaned" => zrequests \subseteq DOMAIN rooms
  /\ node_state = "cleaned" => shutting_down
  /\ stops \in Nat

\* The planner holds a room or a floor that is there.
ReaderInv == reader \in DOMAIN rooms \cup Floors \cup {NoRoom}

\* The publishers follow the node.
PublisherInv ==
  node_state \in {"deactivated", "inactive", "cleaned"} => \A r \in DOMAIN rooms : ~rooms[r].pub

\* The floor about to be created is made of all rooms of one floor that have data, or were
\* created a second time.
FloorInHand ==
  \E f \in Floors :
    /\ work # {} /\ \A w \in work : FloorOf[w[1]] = f
    /\ \A w \in work : rooms[w[1]].data \/ rooms[w[1]].gen > 1
    /\ \A r \in On(f) : rooms[r].data => \E w \in work : w[1] = r

\* The floor timer: what it has in hand is there until the executor is idle.
FloorTimerInv ==
  /\ exec \notin {"floors", "create"} => affected = {}
  /\ affected \subseteq DOMAIN rooms
  /\ exec = "create" => FloorInHand
  /\ exec = "create" \/ affected # {} => node_state # "cleaned"

\* Before the first activation there are no timers, and so no floors.
FirstRunInv ==
  stops = 0 =>
    /\ node_state \notin {"deactivating", "deactivated"}
    /\ timers <=> node_state \in {"activated", "active"}
    /\ ~timers => DOMAIN floors = {} /\ exec \in {"idle", "blocked", "map", "z"}

\* What a floor was merged from is still there.
BlankInv ==
  \A f \in DOMAIN floors : floors[f].valid /\ node_state # "cleaned" =>
    \A r \in floors[f].blank : r \in DOMAIN rooms /\ rooms[r].gen > 1

CostmapInv ==
  /\ CostmapTypes /\ ReaderInv /\ PublisherInv /\ FloorTimerInv /\ FirstRunInv /\ BlankInv
  /\ NoStaleFloor

-----------------------------------------------------------------------------
(* What a step does to the rooms *)

\* The rooms are the same objects.
SameObjects ==
  /\ rooms' \in [DOMAIN rooms -> RoomStates] /\ DOMAIN rooms' = DOMAIN rooms
  /\ \A r \in DOMAIN rooms : rooms'[r].gen = rooms[r].gen
  /\ \A r \in DOMAIN rooms : rooms'[r].data => rooms'[r].map

\* The map of a room comes: its grid is blank.
LEMMA MapIs ==
  ASSUME CostmapTypes, NEW i \in DOMAIN rooms,
         rooms' = [rooms EXCEPT ![i].map = TRUE, ![i].data = FALSE]
  PROVE  /\ SameObjects
         /\ \A r \in DOMAIN rooms : r # i => rooms'[r] = rooms[r]
         /\ ~rooms'[i].data /\ rooms'[i].pub = rooms[i].pub /\ rooms'[i].changed = rooms[i].changed
<1>1. rooms[i] \in RoomStates /\ (rooms[i].data => rooms[i].map)
  BY DEF CostmapTypes
<1>2. /\ rooms'[i] = [rooms[i] EXCEPT !.map = TRUE, !.data = FALSE]
      /\ rooms' \in [DOMAIN rooms -> RoomStates \cup {rooms'[i]}]
      /\ \A r \in DOMAIN rooms : r # i => rooms'[r] = rooms[r]
  BY <1>1 DEF CostmapTypes
<1>3. /\ rooms'[i] \in RoomStates /\ rooms'[i].gen = rooms[i].gen
      /\ rooms'[i].data => rooms'[i].map
      /\ ~rooms'[i].data /\ rooms'[i].pub = rooms[i].pub /\ rooms'[i].changed = rooms[i].changed
  BY <1>1, <1>2, Zenon DEF RoomStates
<1>4. SameObjects
  BY <1>2, <1>3 DEF SameObjects, CostmapTypes
<1> QED BY <1>2, <1>3, <1>4

\* The height of a room comes.
LEMMA MinZIs ==
  ASSUME CostmapTypes, NEW i \in DOMAIN rooms,
         rooms' = [rooms EXCEPT ![i].z = TRUE]
  PROVE  /\ SameObjects
         /\ \A r \in DOMAIN rooms : r # i => rooms'[r] = rooms[r]
         /\ rooms'[i].data = rooms[i].data /\ rooms'[i].map = rooms[i].map
         /\ rooms'[i].pub = rooms[i].pub /\ rooms'[i].changed = rooms[i].changed
<1>1. rooms[i] \in RoomStates /\ (rooms[i].data => rooms[i].map)
  BY DEF CostmapTypes
<1>2. /\ rooms'[i] = [rooms[i] EXCEPT !.z = TRUE]
      /\ rooms' \in [DOMAIN rooms -> RoomStates \cup {rooms'[i]}]
      /\ \A r \in DOMAIN rooms : r # i => rooms'[r] = rooms[r]
  BY <1>1 DEF CostmapTypes
<1>3. /\ rooms'[i] \in RoomStates /\ rooms'[i].gen = rooms[i].gen
      /\ rooms'[i].data => rooms'[i].map
      /\ rooms'[i].data = rooms[i].data /\ rooms'[i].map = rooms[i].map
      /\ rooms'[i].pub = rooms[i].pub /\ rooms'[i].changed = rooms[i].changed
  BY <1>1, <1>2, Zenon DEF RoomStates
<1>4. SameObjects
  BY <1>2, <1>3 DEF SameObjects, CostmapTypes
<1> QED BY <1>2, <1>3, <1>4

\* A room has been published.
LEMMA PublishedIs ==
  ASSUME CostmapTypes, NEW i \in DOMAIN rooms,
         rooms' = [rooms EXCEPT ![i].published = TRUE]
  PROVE  /\ SameObjects
         /\ \A r \in DOMAIN rooms : r # i => rooms'[r] = rooms[r]
         /\ rooms'[i].data = rooms[i].data /\ rooms'[i].map = rooms[i].map
         /\ rooms'[i].pub = rooms[i].pub /\ rooms'[i].changed = rooms[i].changed
<1>1. rooms[i] \in RoomStates /\ (rooms[i].data => rooms[i].map)
  BY DEF CostmapTypes
<1>2. /\ rooms'[i] = [rooms[i] EXCEPT !.published = TRUE]
      /\ rooms' \in [DOMAIN rooms -> RoomStates \cup {rooms'[i]}]
      /\ \A r \in DOMAIN rooms : r # i => rooms'[r] = rooms[r]
  BY <1>1 DEF CostmapTypes
<1>3. /\ rooms'[i] \in RoomStates /\ rooms'[i].gen = rooms[i].gen
      /\ rooms'[i].data => rooms'[i].map
      /\ rooms'[i].data = rooms[i].data /\ rooms'[i].map = rooms[i].map
      /\ rooms'[i].pub = rooms[i].pub /\ rooms'[i].changed = rooms[i].changed
  BY <1>1, <1>2, Zenon DEF RoomStates
<1>4. SameObjects
  BY <1>2, <1>3 DEF SameObjects, CostmapTypes
<1> QED BY <1>2, <1>3, <1>4

\* The publication of a room tells the floor timer.
LEMMA ChangedIs ==
  ASSUME CostmapTypes, NEW i \in DOMAIN rooms,
         rooms' = [rooms EXCEPT ![i].changed = @ \/ rooms[i].pub]
  PROVE  /\ SameObjects
         /\ \A r \in DOMAIN rooms : r # i => rooms'[r] = rooms[r]
         /\ rooms'[i].data = rooms[i].data /\ rooms'[i].map = rooms[i].map
         /\ rooms'[i].pub = rooms[i].pub
         /\ rooms'[i].changed <=> rooms[i].changed \/ rooms[i].pub
<1>1. rooms[i] \in RoomStates /\ (rooms[i].data => rooms[i].map)
  BY DEF CostmapTypes
<1>2. /\ rooms'[i] = [rooms[i] EXCEPT !.changed = rooms[i].changed \/ rooms[i].pub]
      /\ rooms' \in [DOMAIN rooms -> RoomStates \cup {rooms'[i]}]
      /\ \A r \in DOMAIN rooms : r # i => rooms'[r] = rooms[r]
  BY <1>1 DEF CostmapTypes
<1>3. /\ rooms'[i] \in RoomStates /\ rooms'[i].gen = rooms[i].gen
      /\ rooms'[i].data => rooms'[i].map
      /\ rooms'[i].data = rooms[i].data /\ rooms'[i].map = rooms[i].map
      /\ rooms'[i].pub = rooms[i].pub
      /\ rooms'[i].changed <=> rooms[i].changed \/ rooms[i].pub
  BY <1>1, <1>2 DEF RoomStates
<1>4. SameObjects
  BY <1>2, <1>3 DEF SameObjects, CostmapTypes
<1> QED BY <1>2, <1>3, <1>4

\* updateMap gives the grid of a room that has a map its data.
LEMMA UpdateIs ==
  ASSUME CostmapTypes, NEW i \in DOMAIN rooms,
         NEW g, rooms' = [rooms EXCEPT ![i].data = @ \/ (rooms[i].gen = g /\ rooms[i].map)]
  PROVE  /\ SameObjects
         /\ \A r \in DOMAIN rooms : r # i => rooms'[r] = rooms[r]
         /\ rooms'[i].map = rooms[i].map /\ rooms'[i].pub = rooms[i].pub
         /\ rooms'[i].changed = rooms[i].changed
         /\ rooms'[i].data <=> rooms[i].data \/ (rooms[i].gen = g /\ rooms[i].map)
<1>1. rooms[i] \in RoomStates /\ (rooms[i].data => rooms[i].map)
  BY DEF CostmapTypes
<1>2. /\ rooms'[i] = [rooms[i] EXCEPT !.data = rooms[i].data \/ (rooms[i].gen = g /\ rooms[i].map)]
      /\ rooms' \in [DOMAIN rooms -> RoomStates \cup {rooms'[i]}]
      /\ \A r \in DOMAIN rooms : r # i => rooms'[r] = rooms[r]
  BY <1>1 DEF CostmapTypes
<1>3. /\ rooms'[i] \in RoomStates /\ rooms'[i].gen = rooms[i].gen
      /\ rooms'[i].data => rooms'[i].map
      /\ rooms'[i].map = rooms[i].map /\ rooms'[i].pub = rooms[i].pub
      /\ rooms'[i].changed = rooms[i].changed
      /\ rooms'[i].data <=> rooms[i].data \/ (rooms[i].gen = g /\ rooms[i].map)
  BY <1>1, <1>2 DEF RoomStates
<1>4. SameObjects
  BY <1>2, <1>3, Zenon DEF SameObjects, CostmapTypes
<1> QED BY <1>2, <1>3, <1>4

\* A message starts the creation of rooms.
LEMMA EnvironmentUpdateKeeps ==
  ASSUME CostmapInv, NEW E \in Environments, onEnvironmentUpdate(E)
  PROVE  CostmapInv'
<1> USE CostmapAssumption DEF CostmapInv
<1>1. CostmapTypes'
  BY DEF CostmapTypes, onEnvironmentUpdate, nodeVars, execVars, RoomStates, Floors, Objects
<1>2. ReaderInv'
  BY DEF ReaderInv, onEnvironmentUpdate, nodeVars, execVars, CostmapTypes, Exclusive, Valid
<1>3. PublisherInv'
  BY DEF PublisherInv, onEnvironmentUpdate, nodeVars, execVars, CostmapTypes
<1>4. FloorTimerInv'
  BY DEF FloorTimerInv, onEnvironmentUpdate, nodeVars, execVars, On, CostmapTypes, MayCreate, RoomReady, Floors, FloorInHand
<1>5. FirstRunInv'
  BY DEF FirstRunInv, onEnvironmentUpdate, nodeVars, execVars, CostmapTypes
<1>6. BlankInv'
  BY DEF BlankInv, onEnvironmentUpdate, nodeVars, execVars, CostmapTypes
<1>7. NoStaleFloor'
  BY DEF NoStaleFloor, onEnvironmentUpdate, nodeVars, execVars, On, Valid, CostmapTypes, FloorTimerInv, FirstRunInv
<1> QED BY <1>1, <1>2, <1>3, <1>4, <1>5, <1>6, <1>7 DEF CostmapInv

\* The message waits for the earlier creation.
LEMMA FutureAssignedKeeps ==
  ASSUME CostmapInv, FutureAssigned
  PROVE  CostmapInv'
<1> USE CostmapAssumption DEF CostmapInv
<1>1. CostmapTypes'
  BY DEF CostmapTypes, FutureAssigned, nodeVars, execVars, RoomStates, Floors, Objects
<1>2. ReaderInv'
  BY DEF ReaderInv, FutureAssigned, nodeVars, execVars, CostmapTypes, Exclusive, Valid
<1>3. PublisherInv'
  BY DEF PublisherInv, FutureAssigned, nodeVars, execVars, CostmapTypes
<1>4. FloorTimerInv'
  BY DEF FloorTimerInv, FutureAssigned, nodeVars, execVars, On, CostmapTypes, MayCreate, RoomReady, Floors, FloorInHand
<1>5. FirstRunInv'
  BY DEF FirstRunInv, FutureAssigned, nodeVars, execVars, CostmapTypes
<1>6. BlankInv'
  BY DEF BlankInv, FutureAssigned, nodeVars, execVars, CostmapTypes
<1>7. NoStaleFloor'
  BY DEF NoStaleFloor, FutureAssigned, nodeVars, execVars, On, Valid, CostmapTypes, FloorTimerInv, FirstRunInv
<1> QED BY <1>1, <1>2, <1>3, <1>4, <1>5, <1>6, <1>7 DEF CostmapInv

\* A map is delivered.
LEMMA MapArrivesKeeps ==
  ASSUME CostmapInv, NEW r \in Rooms, MapArrives(r)
  PROVE  CostmapInv'
<1> USE CostmapAssumption DEF CostmapInv
<1>1. CostmapTypes'
  BY DEF CostmapTypes, MapArrives, nodeVars, execVars, RoomStates, Floors, Objects
<1>2. ReaderInv'
  BY DEF ReaderInv, MapArrives, nodeVars, execVars, CostmapTypes, Exclusive, Valid
<1>3. PublisherInv'
  BY DEF PublisherInv, MapArrives, nodeVars, execVars, CostmapTypes
<1>4. FloorTimerInv'
  BY DEF FloorTimerInv, MapArrives, nodeVars, execVars, On, CostmapTypes, MayCreate, RoomReady, Floors, FloorInHand
<1>5. FirstRunInv'
  BY DEF FirstRunInv, MapArrives, nodeVars, execVars, CostmapTypes
<1>6. BlankInv'
  BY DEF BlankInv, MapArrives, nodeVars, execVars, CostmapTypes
<1>7. NoStaleFloor'
  BY DEF NoStaleFloor, MapArrives, nodeVars, execVars, On, Valid, CostmapTypes, FloorTimerInv, FirstRunInv
<1> QED BY <1>1, <1>2, <1>3, <1>4, <1>5, <1>6, <1>7 DEF CostmapInv

\* The robot is in another room.
LEMMA CurrentRoomKeeps ==
  ASSUME CostmapInv, NEW r \in Tracked, onCurrentRoomUpdate(r)
  PROVE  CostmapInv'
<1> USE CostmapAssumption DEF CostmapInv
<1>1. CostmapTypes'
  BY DEF CostmapTypes, onCurrentRoomUpdate, nodeVars, execVars, RoomStates, Floors, Objects
<1>2. ReaderInv'
  BY DEF ReaderInv, onCurrentRoomUpdate, nodeVars, execVars, CostmapTypes, Exclusive, Valid
<1>3. PublisherInv'
  BY DEF PublisherInv, onCurrentRoomUpdate, nodeVars, execVars, CostmapTypes
<1>4. FloorTimerInv'
  BY DEF FloorTimerInv, onCurrentRoomUpdate, nodeVars, execVars, On, CostmapTypes, MayCreate, RoomReady, Floors, FloorInHand
<1>5. FirstRunInv'
  BY DEF FirstRunInv, onCurrentRoomUpdate, nodeVars, execVars, CostmapTypes
<1>6. BlankInv'
  BY DEF BlankInv, onCurrentRoomUpdate, nodeVars, execVars, CostmapTypes
<1>7. NoStaleFloor'
  BY DEF NoStaleFloor, onCurrentRoomUpdate, nodeVars, execVars, On, Valid, CostmapTypes, FloorTimerInv, FirstRunInv
<1> QED BY <1>1, <1>2, <1>3, <1>4, <1>5, <1>6, <1>7 DEF CostmapInv

\* The room timer collects what it publishes.
LEMMA CollectRoomsKeeps ==
  ASSUME CostmapInv, CollectRooms
  PROVE  CostmapInv'
<1> USE CostmapAssumption DEF CostmapInv
<1>1. CostmapTypes'
  BY DEF CostmapTypes, CollectRooms, nodeVars, execVars, RoomStates, Floors, Objects
<1>2. ReaderInv'
  BY DEF ReaderInv, CollectRooms, nodeVars, execVars, CostmapTypes, Exclusive, Valid
<1>3. PublisherInv'
  BY DEF PublisherInv, CollectRooms, nodeVars, execVars, CostmapTypes
<1>4. FloorTimerInv'
  BY DEF FloorTimerInv, CollectRooms, nodeVars, execVars, On, CostmapTypes, MayCreate, RoomReady, Floors, FloorInHand
<1>5. FirstRunInv'
  BY DEF FirstRunInv, CollectRooms, nodeVars, execVars, CostmapTypes
<1>6. BlankInv'
  BY DEF BlankInv, CollectRooms, nodeVars, execVars, CostmapTypes
<1>7. NoStaleFloor'
  BY DEF NoStaleFloor, CollectRooms, nodeVars, execVars, On, Valid, CostmapTypes, FloorTimerInv, FirstRunInv
<1> QED BY <1>1, <1>2, <1>3, <1>4, <1>5, <1>6, <1>7 DEF CostmapInv

\* A height is delivered.
LEMMA MinZArrivesKeeps ==
  ASSUME CostmapInv, NEW r \in Rooms, MinZArrives(r)
  PROVE  CostmapInv'
<1> USE CostmapAssumption DEF CostmapInv
<1>1. CostmapTypes'
  BY DEF CostmapTypes, MinZArrives, nodeVars, execVars, RoomStates, Floors, Objects
<1>2. ReaderInv'
  BY DEF ReaderInv, MinZArrives, nodeVars, execVars, CostmapTypes, Exclusive, Valid
<1>3. PublisherInv'
  BY DEF PublisherInv, MinZArrives, nodeVars, execVars, CostmapTypes
<1>4. FloorTimerInv'
  BY DEF FloorTimerInv, MinZArrives, nodeVars, execVars, On, CostmapTypes, MayCreate, RoomReady, Floors, FloorInHand
<1>5. FirstRunInv'
  BY DEF FirstRunInv, MinZArrives, nodeVars, execVars, CostmapTypes
<1>6. BlankInv'
  BY DEF BlankInv, MinZArrives, nodeVars, execVars, CostmapTypes
<1>7. NoStaleFloor'
  BY DEF NoStaleFloor, MinZArrives, nodeVars, execVars, On, Valid, CostmapTypes, FloorTimerInv, FirstRunInv
<1> QED BY <1>1, <1>2, <1>3, <1>4, <1>5, <1>6, <1>7 DEF CostmapInv

\* A height is not delivered.
LEMMA MinZFailsKeeps ==
  ASSUME CostmapInv, NEW r \in Rooms, MinZFails(r)
  PROVE  CostmapInv'
<1> USE CostmapAssumption DEF CostmapInv
<1>1. CostmapTypes'
  BY DEF CostmapTypes, MinZFails, nodeVars, execVars, RoomStates, Floors, Objects
<1>2. ReaderInv'
  BY DEF ReaderInv, MinZFails, nodeVars, execVars, CostmapTypes, Exclusive, Valid
<1>3. PublisherInv'
  BY DEF PublisherInv, MinZFails, nodeVars, execVars, CostmapTypes
<1>4. FloorTimerInv'
  BY DEF FloorTimerInv, MinZFails, nodeVars, execVars, On, CostmapTypes, MayCreate, RoomReady, Floors, FloorInHand
<1>5. FirstRunInv'
  BY DEF FirstRunInv, MinZFails, nodeVars, execVars, CostmapTypes
<1>6. BlankInv'
  BY DEF BlankInv, MinZFails, nodeVars, execVars, CostmapTypes
<1>7. NoStaleFloor'
  BY DEF NoStaleFloor, MinZFails, nodeVars, execVars, On, Valid, CostmapTypes, FloorTimerInv, FirstRunInv
<1> QED BY <1>1, <1>2, <1>3, <1>4, <1>5, <1>6, <1>7 DEF CostmapInv

\* The room timer looks up the current room.
LEMMA LookUpCurrentKeeps ==
  ASSUME CostmapInv, LookUpCurrent
  PROVE  CostmapInv'
<1> USE CostmapAssumption DEF CostmapInv
<1>1. CostmapTypes'
  BY DEF CostmapTypes, LookUpCurrent, nodeVars, execVars, RoomStates, Floors, Objects
<1>2. ReaderInv'
  BY DEF ReaderInv, LookUpCurrent, nodeVars, execVars, CostmapTypes, Exclusive, Valid
<1>3. PublisherInv'
  BY DEF PublisherInv, LookUpCurrent, nodeVars, execVars, CostmapTypes
<1>4. FloorTimerInv'
  BY DEF FloorTimerInv, LookUpCurrent, nodeVars, execVars, On, CostmapTypes, MayCreate, RoomReady, Floors, FloorInHand
<1>5. FirstRunInv'
  BY DEF FirstRunInv, LookUpCurrent, nodeVars, execVars, CostmapTypes
<1>6. BlankInv'
  BY DEF BlankInv, LookUpCurrent, nodeVars, execVars, CostmapTypes
<1>7. NoStaleFloor'
  BY DEF NoStaleFloor, LookUpCurrent, nodeVars, execVars, On, Valid, CostmapTypes, FloorTimerInv, FirstRunInv
<1> QED BY <1>1, <1>2, <1>3, <1>4, <1>5, <1>6, <1>7 DEF CostmapInv

\* The floor timer is through.
LEMMA FloorsDoneKeeps ==
  ASSUME CostmapInv, FloorsDone
  PROVE  CostmapInv'
<1> USE CostmapAssumption DEF CostmapInv
<1>1. CostmapTypes'
  BY DEF CostmapTypes, FloorsDone, nodeVars, execVars, RoomStates, Floors, Objects
<1>2. ReaderInv'
  BY DEF ReaderInv, FloorsDone, nodeVars, execVars, CostmapTypes, Exclusive, Valid
<1>3. PublisherInv'
  BY DEF PublisherInv, FloorsDone, nodeVars, execVars, CostmapTypes
<1>4. FloorTimerInv'
  BY DEF FloorTimerInv, FloorsDone, nodeVars, execVars, On, CostmapTypes, MayCreate, RoomReady, Floors, FloorInHand
<1>5. FirstRunInv'
  BY DEF FirstRunInv, FloorsDone, nodeVars, execVars, CostmapTypes
<1>6. BlankInv'
  BY DEF BlankInv, FloorsDone, nodeVars, execVars, CostmapTypes
<1>7. NoStaleFloor'
  BY DEF NoStaleFloor, FloorsDone, nodeVars, execVars, On, Valid, CostmapTypes, FloorTimerInv, FirstRunInv
<1> QED BY <1>1, <1>2, <1>3, <1>4, <1>5, <1>6, <1>7 DEF CostmapInv

\* on_activate begins.
LEMMA ActivateBeginKeeps ==
  ASSUME CostmapInv, ActivateBegin
  PROVE  CostmapInv'
<1> USE CostmapAssumption DEF CostmapInv
<1>1. CostmapTypes'
  BY DEF CostmapTypes, ActivateBegin, nodeVars, execVars, RoomStates, Floors, Objects
<1>2. ReaderInv'
  BY DEF ReaderInv, ActivateBegin, nodeVars, execVars, CostmapTypes, Exclusive, Valid
<1>3. PublisherInv'
  BY DEF PublisherInv, ActivateBegin, nodeVars, execVars, CostmapTypes
<1>0. FloorInHand' = FloorInHand
  BY DEF FloorInHand, On, Floors, ActivateBegin, execVars
<1>4. FloorTimerInv'
  BY <1>0 DEF FloorTimerInv, ActivateBegin, nodeVars, execVars, CostmapTypes
<1>5. FirstRunInv'
  BY DEF FirstRunInv, ActivateBegin, nodeVars, execVars, CostmapTypes
<1>6. BlankInv'
  BY DEF BlankInv, ActivateBegin, nodeVars, execVars, CostmapTypes
<1>7. NoStaleFloor'
  BY DEF NoStaleFloor, ActivateBegin, nodeVars, execVars, On, Valid, CostmapTypes, FloorTimerInv, FirstRunInv
<1> QED BY <1>1, <1>2, <1>3, <1>4, <1>5, <1>6, <1>7 DEF CostmapInv

\* A transition ends.
LEMMA TransitionEndKeeps ==
  ASSUME CostmapInv, TransitionEnd
  PROVE  CostmapInv'
<1> USE CostmapAssumption DEF CostmapInv
<1>1. CostmapTypes'
  BY DEF CostmapTypes, TransitionEnd, nodeVars, execVars, RoomStates, Floors, Objects
<1>2. ReaderInv'
  BY DEF ReaderInv, TransitionEnd, nodeVars, execVars, CostmapTypes, Exclusive, Valid
<1>3. PublisherInv'
  BY DEF PublisherInv, TransitionEnd, nodeVars, execVars, CostmapTypes
<1>0. FloorInHand' = FloorInHand
  BY DEF FloorInHand, On, Floors, TransitionEnd, execVars
<1>4. FloorTimerInv'
  BY <1>0 DEF FloorTimerInv, TransitionEnd, nodeVars, execVars, CostmapTypes
<1>5. FirstRunInv'
  BY DEF FirstRunInv, TransitionEnd, nodeVars, execVars, CostmapTypes
<1>6. BlankInv'
  BY DEF BlankInv, TransitionEnd, nodeVars, execVars, CostmapTypes
<1>7. NoStaleFloor'
  BY DEF NoStaleFloor, TransitionEnd, nodeVars, execVars, On, Valid, CostmapTypes, FloorTimerInv, FirstRunInv
<1> QED BY <1>1, <1>2, <1>3, <1>4, <1>5, <1>6, <1>7 DEF CostmapInv

\* on_deactivate begins.
LEMMA DeactivateBeginKeeps ==
  ASSUME CostmapInv, CostmapDeactivateBegin
  PROVE  CostmapInv'
<1> USE CostmapAssumption DEF CostmapInv
<1>1. CostmapTypes'
  BY DEF CostmapTypes, CostmapDeactivateBegin, nodeVars, execVars, RoomStates, Floors, Objects
<1>2. ReaderInv'
  BY DEF ReaderInv, CostmapDeactivateBegin, nodeVars, execVars, CostmapTypes, Exclusive, Valid
<1>3. PublisherInv'
  BY DEF PublisherInv, CostmapDeactivateBegin, nodeVars, execVars, CostmapTypes
<1>0. FloorInHand' = FloorInHand
  BY DEF FloorInHand, On, Floors, CostmapDeactivateBegin, execVars
<1>4. FloorTimerInv'
  BY <1>0 DEF FloorTimerInv, CostmapDeactivateBegin, nodeVars, execVars, CostmapTypes
<1>5. FirstRunInv'
  BY DEF FirstRunInv, CostmapDeactivateBegin, nodeVars, execVars, CostmapTypes
<1>6. BlankInv'
  BY DEF BlankInv, CostmapDeactivateBegin, nodeVars, execVars, CostmapTypes
<1>7. NoStaleFloor'
  BY DEF NoStaleFloor, CostmapDeactivateBegin, nodeVars, execVars, On, Valid, CostmapTypes, FloorTimerInv, FirstRunInv
<1> QED BY <1>1, <1>2, <1>3, <1>4, <1>5, <1>6, <1>7 DEF CostmapInv

\* A plan begins.
LEMMA PlanBeginKeeps ==
  ASSUME CostmapInv, NEW x \in Planned, PlanBegin(x)
  PROVE  CostmapInv'
<1> USE CostmapAssumption DEF CostmapInv
<1>1. CostmapTypes'
  BY DEF CostmapTypes, PlanBegin, nodeVars, execVars, RoomStates, Floors, Objects
<1>2. ReaderInv'
  BY DEF ReaderInv, PlanBegin, nodeVars, execVars, CostmapTypes, Exclusive, Valid
<1>3. PublisherInv'
  BY DEF PublisherInv, PlanBegin, nodeVars, execVars, CostmapTypes
<1>0. FloorInHand' = FloorInHand
  BY DEF FloorInHand, On, Floors, PlanBegin, execVars
<1>4. FloorTimerInv'
  BY <1>0 DEF FloorTimerInv, PlanBegin, nodeVars, execVars, CostmapTypes
<1>5. FirstRunInv'
  BY DEF FirstRunInv, PlanBegin, nodeVars, execVars, CostmapTypes
<1>6. BlankInv'
  BY DEF BlankInv, PlanBegin, nodeVars, execVars, CostmapTypes
<1>7. NoStaleFloor'
  BY DEF NoStaleFloor, PlanBegin, nodeVars, execVars, On, Valid, CostmapTypes, FloorTimerInv, FirstRunInv
<1> QED BY <1>1, <1>2, <1>3, <1>4, <1>5, <1>6, <1>7 DEF CostmapInv

\* A plan ends.
LEMMA PlanEndKeeps ==
  ASSUME CostmapInv, PlanEnd
  PROVE  CostmapInv'
<1> USE CostmapAssumption DEF CostmapInv
<1>1. CostmapTypes'
  BY DEF CostmapTypes, PlanEnd, nodeVars, execVars, RoomStates, Floors, Objects
<1>2. ReaderInv'
  BY DEF ReaderInv, PlanEnd, nodeVars, execVars, CostmapTypes, Exclusive, Valid
<1>3. PublisherInv'
  BY DEF PublisherInv, PlanEnd, nodeVars, execVars, CostmapTypes
<1>0. FloorInHand' = FloorInHand
  BY DEF FloorInHand, On, Floors, PlanEnd, execVars
<1>4. FloorTimerInv'
  BY <1>0 DEF FloorTimerInv, PlanEnd, nodeVars, execVars, CostmapTypes
<1>5. FirstRunInv'
  BY DEF FirstRunInv, PlanEnd, nodeVars, execVars, CostmapTypes
<1>6. BlankInv'
  BY DEF BlankInv, PlanEnd, nodeVars, execVars, CostmapTypes
<1>7. NoStaleFloor'
  BY DEF NoStaleFloor, PlanEnd, nodeVars, execVars, On, Valid, CostmapTypes, FloorTimerInv, FirstRunInv
<1> QED BY <1>1, <1>2, <1>3, <1>4, <1>5, <1>6, <1>7 DEF CostmapInv

\* The rooms are dropped.
LEMMA CleanupKeeps ==
  ASSUME CostmapInv, on_cleanup
  PROVE  CostmapInv'
<1> USE CostmapAssumption DEF CostmapInv
<1>1. CostmapTypes'
  BY DEF CostmapTypes, on_cleanup, NewRoom, nodeVars, execVars, RoomStates, Floors, Objects
<1>2. ReaderInv'
  BY DEF ReaderInv, on_cleanup, NewRoom, nodeVars, execVars, CostmapTypes, Exclusive, Valid
<1>3. PublisherInv'
  BY DEF PublisherInv, on_cleanup, NewRoom, nodeVars, execVars, CostmapTypes
<1>4. FloorTimerInv'
  BY DEF FloorTimerInv, on_cleanup, NewRoom, nodeVars, execVars, On, CostmapTypes, MayCreate, RoomReady, Floors, FloorInHand
<1>5. FirstRunInv'
  BY DEF FirstRunInv, on_cleanup, NewRoom, nodeVars, execVars, CostmapTypes
<1>6. BlankInv'
  BY DEF BlankInv, on_cleanup, NewRoom, nodeVars, execVars, CostmapTypes
<1>7. NoStaleFloor'
  BY DEF NoStaleFloor, on_cleanup, NewRoom, nodeVars, execVars, On, Valid, CostmapTypes, FloorTimerInv, FirstRunInv
<1> QED BY <1>1, <1>2, <1>3, <1>4, <1>5, <1>6, <1>7 DEF CostmapInv

\* A step of another part of the node.
LEMMA StutterKeeps ==
  ASSUME CostmapInv, UNCHANGED costmapVars
  PROVE  CostmapInv'
BY DEF CostmapInv, CostmapTypes, ReaderInv, PublisherInv, FloorTimerInv, FirstRunInv, BlankInv, NoStaleFloor,
   FloorInHand, On, Valid, costmapVars, nodeVars, execVars

\* A map blanks the grid of its room.
LEMMA IncomingMapKeeps ==
  ASSUME CostmapInv, incomingMap
  PROVE  CostmapInv'
<1> USE DEF CostmapInv
<1> DEFINE i == item[1]
<1>a. i \in DOMAIN rooms /\ CostmapTypes
  BY SMTT(30) DEF incomingMap, CostmapTypes
<1>b. /\ SameObjects
      /\ \A r \in DOMAIN rooms : rooms'[r].pub = rooms[r].pub /\ rooms'[r].changed = rooms[r].changed
      /\ \A r \in DOMAIN rooms : rooms'[r].data => rooms[r].data
  <2>1. CASE rooms' = rooms
    BY <2>1, <1>a DEF SameObjects, CostmapTypes
  <2>2. CASE rooms' = [rooms EXCEPT ![i].map = TRUE, ![i].data = FALSE]
    <3> HIDE DEF i
    <3>1. /\ SameObjects
          /\ \A r \in DOMAIN rooms : r # i => rooms'[r] = rooms[r]
          /\ ~rooms'[i].data /\ rooms'[i].pub = rooms[i].pub /\ rooms'[i].changed = rooms[i].changed
      BY ONLY <1>a, <2>2, MapIs, Zenon
    <3> QED BY <3>1, SMTT(30)
  <2> QED BY <2>1, <2>2 DEF incomingMap
<1>1. CostmapTypes'
  BY <1>b DEF CostmapTypes, RoomStates, Objects, SameObjects, incomingMap, nodeVars, execVars
<1>2. ReaderInv'
  BY <1>b DEF ReaderInv, SameObjects, incomingMap, nodeVars, execVars
<1>3. PublisherInv'
  BY <1>b DEF PublisherInv, SameObjects, incomingMap, nodeVars, execVars
<1>4. FloorTimerInv'
  BY <1>b DEF FloorTimerInv, SameObjects, incomingMap, nodeVars, execVars
<1>5. FirstRunInv'
  BY <1>b DEF FirstRunInv, incomingMap, nodeVars, execVars
<1>6. BlankInv'
  BY <1>b DEF BlankInv, SameObjects, CostmapTypes, incomingMap, nodeVars, execVars
<1>7. NoStaleFloor'
  BY <1>b DEF NoStaleFloor, On, Valid, SameObjects, FloorTimerInv, FirstRunInv, CostmapTypes, incomingMap, nodeVars, execVars
<1> QED BY <1>1, <1>2, <1>3, <1>4, <1>5, <1>6, <1>7 DEF CostmapInv

\* A height changes neither the grid nor the publisher of its room.
LEMMA MinZResponseKeeps ==
  ASSUME CostmapInv, MinZResponse
  PROVE  CostmapInv'
<1> USE DEF CostmapInv
<1> DEFINE i == item[1]
<1>a. i \in DOMAIN rooms /\ CostmapTypes
  BY DEF MinZResponse, CostmapTypes
<1>b. /\ SameObjects
      /\ \A r \in DOMAIN rooms : rooms'[r].pub = rooms[r].pub /\ rooms'[r].changed = rooms[r].changed
      /\ \A r \in DOMAIN rooms : rooms'[r].data = rooms[r].data
  <2>1. CASE rooms' = rooms
    BY <2>1, <1>a DEF SameObjects, CostmapTypes
  <2>2. CASE rooms' = [rooms EXCEPT ![i].z = TRUE]
    <3> HIDE DEF i
    <3>1. /\ SameObjects
          /\ \A r \in DOMAIN rooms : r # i => rooms'[r] = rooms[r]
          /\ rooms'[i].data = rooms[i].data /\ rooms'[i].map = rooms[i].map
          /\ rooms'[i].pub = rooms[i].pub /\ rooms'[i].changed = rooms[i].changed
      BY ONLY <1>a, <2>2, MinZIs, Zenon
    <3> QED BY <3>1
  <2> QED BY <2>1, <2>2 DEF MinZResponse
<1>1. CostmapTypes'
  BY <1>b DEF CostmapTypes, RoomStates, Objects, SameObjects, MinZResponse, nodeVars, execVars
<1>2. ReaderInv'
  BY <1>b DEF ReaderInv, SameObjects, MinZResponse, nodeVars, execVars
<1>3. PublisherInv'
  BY <1>b DEF PublisherInv, SameObjects, MinZResponse, nodeVars, execVars
<1>4. FloorTimerInv'
  BY <1>b DEF FloorTimerInv, SameObjects, MinZResponse, nodeVars, execVars
<1>5. FirstRunInv'
  BY <1>b DEF FirstRunInv, MinZResponse, nodeVars, execVars
<1>6. BlankInv'
  BY <1>b DEF BlankInv, SameObjects, CostmapTypes, MinZResponse, nodeVars, execVars
<1>7. NoStaleFloor'
  BY <1>b DEF NoStaleFloor, On, Valid, SameObjects, FloorTimerInv, FirstRunInv, CostmapTypes, MinZResponse, nodeVars, execVars
<1> QED BY <1>1, <1>2, <1>3, <1>4, <1>5, <1>6, <1>7 DEF CostmapInv

\* A room that is published is not published again; its grid stays.
LEMMA MarkPublishedKeeps ==
  ASSUME CostmapInv, MarkPublished
  PROVE  CostmapInv'
<1> USE DEF CostmapInv
<1> DEFINE i == item[1]
<1>a. i \in DOMAIN rooms /\ CostmapTypes
  BY DEF MarkPublished, CostmapTypes
<1>b. /\ SameObjects
      /\ \A r \in DOMAIN rooms : rooms'[r].pub = rooms[r].pub /\ rooms'[r].changed = rooms[r].changed
      /\ \A r \in DOMAIN rooms : rooms'[r].data = rooms[r].data
  <2>2. rooms' = [rooms EXCEPT ![i].published = TRUE]
    BY DEF MarkPublished
  <2> HIDE DEF i
  <2>1. /\ SameObjects
        /\ \A r \in DOMAIN rooms : r # i => rooms'[r] = rooms[r]
        /\ rooms'[i].data = rooms[i].data /\ rooms'[i].map = rooms[i].map
        /\ rooms'[i].pub = rooms[i].pub /\ rooms'[i].changed = rooms[i].changed
    BY ONLY <1>a, <2>2, PublishedIs, Zenon
  <2> QED BY <2>1
<1>1. CostmapTypes'
  BY <1>b DEF CostmapTypes, RoomStates, Objects, SameObjects, MarkPublished, nodeVars, execVars
<1>2. ReaderInv'
  BY <1>b DEF ReaderInv, SameObjects, MarkPublished, nodeVars, execVars
<1>3. PublisherInv'
  BY <1>b DEF PublisherInv, SameObjects, MarkPublished, nodeVars, execVars
<1>4. FloorTimerInv'
  BY <1>b DEF FloorTimerInv, SameObjects, MarkPublished, nodeVars, execVars
<1>5. FirstRunInv'
  BY <1>b DEF FirstRunInv, MarkPublished, nodeVars, execVars
<1>6. BlankInv'
  BY <1>b DEF BlankInv, SameObjects, CostmapTypes, MarkPublished, nodeVars, execVars
<1>7. NoStaleFloor'
  BY <1>b DEF NoStaleFloor, On, Valid, SameObjects, FloorTimerInv, FirstRunInv, CostmapTypes, MarkPublished, nodeVars, execVars
<1> QED BY <1>1, <1>2, <1>3, <1>4, <1>5, <1>6, <1>7 DEF CostmapInv

\* A publication with an active publisher tells the floor timer.
LEMMA PublishGridKeeps ==
  ASSUME CostmapInv, PublishGrid
  PROVE  CostmapInv'
<1> USE DEF CostmapInv
<1> DEFINE i == item[1]
<1>a. i \in DOMAIN rooms /\ CostmapTypes
  BY DEF PublishGrid, CostmapTypes
<1>b. /\ SameObjects
      /\ \A r \in DOMAIN rooms : rooms'[r].pub = rooms[r].pub /\ rooms'[r].data = rooms[r].data
      /\ \A r \in DOMAIN rooms : rooms[r].changed => rooms'[r].changed
      /\ rooms[i].pub => rooms'[i].changed
  <2>2. rooms' = [rooms EXCEPT ![i].changed = @ \/ rooms[i].pub]
    BY DEF PublishGrid, publishCostmap
  <2> HIDE DEF i
  <2>1. /\ SameObjects
        /\ \A r \in DOMAIN rooms : r # i => rooms'[r] = rooms[r]
        /\ rooms'[i].data = rooms[i].data /\ rooms'[i].map = rooms[i].map
        /\ rooms'[i].pub = rooms[i].pub
        /\ rooms'[i].changed <=> rooms[i].changed \/ rooms[i].pub
    BY ONLY <1>a, <2>2, ChangedIs, Zenon
  <2> QED BY <2>1
<1>1. CostmapTypes'
  BY <1>b DEF CostmapTypes, RoomStates, Objects, SameObjects, PublishGrid, nodeVars, execVars
<1>2. ReaderInv'
  BY <1>b DEF ReaderInv, SameObjects, PublishGrid, nodeVars, execVars
<1>3. PublisherInv'
  BY <1>b DEF PublisherInv, SameObjects, PublishGrid, nodeVars, execVars
<1>4. FloorTimerInv'
  BY <1>b DEF FloorTimerInv, SameObjects, PublishGrid, nodeVars, execVars
<1>5. FirstRunInv'
  BY <1>b DEF FirstRunInv, PublishGrid, nodeVars, execVars
<1>6. BlankInv'
  BY <1>b, SMTT(30) DEF BlankInv, SameObjects, CostmapTypes, PublishGrid, nodeVars, execVars
<1>7. NoStaleFloor'
  BY <1>b DEF NoStaleFloor, On, Valid, SameObjects, FloorTimerInv, FirstRunInv, CostmapTypes, PublishGrid, nodeVars, execVars
<1> QED BY <1>1, <1>2, <1>3, <1>4, <1>5, <1>6, <1>7 DEF CostmapInv

\* An updateMap adds data and leaves the rest of the rooms.
LEMMA UpdateMapIs ==
  ASSUME CostmapTypes, NEW w, w[1] \in DOMAIN rooms, rooms' = updateMap(w)
  PROVE  /\ SameObjects
         /\ \A r \in DOMAIN rooms : r # w[1] => rooms'[r] = rooms[r]
         /\ \A r \in DOMAIN rooms : rooms[r].data => rooms'[r].data
         /\ \A r \in DOMAIN rooms : rooms'[r].pub = rooms[r].pub /\ rooms'[r].changed = rooms[r].changed
<1> DEFINE i == w[1]  g == w[2]
<1>1. i \in DOMAIN rooms /\ CostmapTypes /\ rooms' = [rooms EXCEPT ![i].data = @ \/ (rooms[i].gen = g /\ rooms[i].map)]
  BY DEF updateMap
<1> HIDE DEF i, g
<1>2. /\ SameObjects
      /\ \A r \in DOMAIN rooms : r # i => rooms'[r] = rooms[r]
      /\ rooms'[i].map = rooms[i].map /\ rooms'[i].pub = rooms[i].pub /\ rooms'[i].changed = rooms[i].changed
      /\ rooms'[i].data <=> rooms[i].data \/ (rooms[i].gen = g /\ rooms[i].map)
  BY ONLY <1>1, UpdateIs, Zenon
<1> QED BY <1>2 DEF i

\* The room timer updates the next room, or is through with them.
LEMMA PublishRoomKeeps ==
  ASSUME CostmapInv, PublishRoom
  PROVE  CostmapInv'
<1> USE DEF CostmapInv
<1>a. CASE rooms' = rooms /\ item' = item /\ work' \in {work, {}} /\ exec' \in {"idle", "current"}
  <2>1. CostmapTypes'
    BY <1>a DEF CostmapTypes, FloorTimerInv, FirstRunInv, On, Valid, PublishRoom, nodeVars, execVars
  <2>2. ReaderInv'
    BY <1>a DEF ReaderInv, CostmapTypes, FloorTimerInv, FirstRunInv, On, Valid, PublishRoom, nodeVars, execVars
  <2>3. PublisherInv'
    BY <1>a DEF PublisherInv, CostmapTypes, FloorTimerInv, FirstRunInv, On, Valid, PublishRoom, nodeVars, execVars
  <2>4. FloorTimerInv'
    BY <1>a DEF FloorTimerInv, CostmapTypes, FirstRunInv, On, Valid, PublishRoom, nodeVars, execVars
  <2>5. FirstRunInv'
    BY <1>a DEF FirstRunInv, CostmapTypes, FloorTimerInv, On, Valid, PublishRoom, nodeVars, execVars
  <2>6. BlankInv'
    BY <1>a DEF BlankInv, CostmapTypes, FloorTimerInv, FirstRunInv, On, Valid, PublishRoom, nodeVars, execVars
  <2>7. NoStaleFloor'
    BY <1>a DEF NoStaleFloor, CostmapTypes, FloorTimerInv, FirstRunInv, On, Valid, PublishRoom, nodeVars, execVars
  <2> QED BY <2>1, <2>2, <2>3, <2>4, <2>5, <2>6, <2>7 DEF CostmapInv
<1>b. ASSUME NEW w \in work, rooms' = updateMap(w), work' = work \ {w}, item' = w, exec' = "publishing"
      PROVE  CostmapInv'
  <2>a. CostmapTypes /\ w[1] \in DOMAIN rooms /\ rooms' = updateMap(w) /\ w \in Objects
    BY <1>b DEF CostmapTypes
  <2>b. /\ SameObjects
        /\ \A r \in DOMAIN rooms : r # w[1] => rooms'[r] = rooms[r]
        /\ \A r \in DOMAIN rooms : rooms[r].data => rooms'[r].data
        /\ \A r \in DOMAIN rooms : rooms'[r].pub = rooms[r].pub /\ rooms'[r].changed = rooms[r].changed
    BY ONLY <2>a, UpdateMapIs
  <2>1. CostmapTypes'
    BY <1>b, <2>a, <2>b DEF CostmapTypes, RoomStates, Objects, SameObjects, PublishRoom, nodeVars, execVars
  <2>2. ReaderInv'
    BY <1>b, <2>a, <2>b DEF ReaderInv, SameObjects, PublishRoom, nodeVars, execVars
  <2>3. PublisherInv'
    BY <1>b, <2>a, <2>b DEF PublisherInv, SameObjects, PublishRoom, nodeVars, execVars
  <2>4. FloorTimerInv'
    BY <1>b, <2>a, <2>b DEF FloorTimerInv, SameObjects, PublishRoom, nodeVars, execVars
  <2>5. FirstRunInv'
    BY <1>b, <2>a, <2>b DEF FirstRunInv, PublishRoom, nodeVars, execVars
  <2>6. BlankInv'
    BY <1>b, <2>a, <2>b, SMTT(30) DEF BlankInv, SameObjects, CostmapTypes, PublishRoom, nodeVars, execVars
  <2>7. NoStaleFloor'
    BY <1>b, <2>a, <2>b DEF NoStaleFloor, On, Valid, SameObjects, FloorTimerInv, FirstRunInv, CostmapTypes, PublishRoom, nodeVars, execVars
  <2> QED BY <2>1, <2>2, <2>3, <2>4, <2>5, <2>6, <2>7 DEF CostmapInv
<1> QED BY <1>a, <1>b DEF PublishRoom

\* The room timer updates the current room.
LEMMA UpdateCurrentKeeps ==
  ASSUME CostmapInv, UpdateCurrent
  PROVE  CostmapInv'
<1> USE DEF CostmapInv
<1>a. CASE rooms' = rooms /\ exec' = "idle"
  <2>1. CostmapTypes'
    BY <1>a DEF CostmapTypes, FloorTimerInv, FirstRunInv, On, Valid, UpdateCurrent, nodeVars, execVars
  <2>2. ReaderInv'
    BY <1>a DEF ReaderInv, CostmapTypes, FloorTimerInv, FirstRunInv, On, Valid, UpdateCurrent, nodeVars, execVars
  <2>3. PublisherInv'
    BY <1>a DEF PublisherInv, CostmapTypes, FloorTimerInv, FirstRunInv, On, Valid, UpdateCurrent, nodeVars, execVars
  <2>4. FloorTimerInv'
    BY <1>a DEF FloorTimerInv, CostmapTypes, FirstRunInv, On, Valid, UpdateCurrent, nodeVars, execVars
  <2>5. FirstRunInv'
    BY <1>a DEF FirstRunInv, CostmapTypes, FloorTimerInv, On, Valid, UpdateCurrent, nodeVars, execVars
  <2>6. BlankInv'
    BY <1>a DEF BlankInv, CostmapTypes, FloorTimerInv, FirstRunInv, On, Valid, UpdateCurrent, nodeVars, execVars
  <2>7. NoStaleFloor'
    BY <1>a DEF NoStaleFloor, CostmapTypes, FloorTimerInv, FirstRunInv, On, Valid, UpdateCurrent, nodeVars, execVars
  <2> QED BY <2>1, <2>2, <2>3, <2>4, <2>5, <2>6, <2>7 DEF CostmapInv
<1>b. CASE rooms' = updateMap(item) /\ exec' = "publishing_current"
  <2>a. CostmapTypes /\ item[1] \in DOMAIN rooms /\ rooms' = updateMap(item)
    BY <1>b DEF CostmapTypes, UpdateCurrent
  <2>b. /\ SameObjects
        /\ \A r \in DOMAIN rooms : r # item[1] => rooms'[r] = rooms[r]
        /\ \A r \in DOMAIN rooms : rooms[r].data => rooms'[r].data
        /\ \A r \in DOMAIN rooms : rooms'[r].pub = rooms[r].pub /\ rooms'[r].changed = rooms[r].changed
    BY ONLY <2>a, UpdateMapIs
  <2>1. CostmapTypes'
    BY <1>b, <2>a, <2>b DEF CostmapTypes, RoomStates, Objects, SameObjects, UpdateCurrent, nodeVars, execVars
  <2>2. ReaderInv'
    BY <1>b, <2>a, <2>b DEF ReaderInv, SameObjects, UpdateCurrent, nodeVars, execVars
  <2>3. PublisherInv'
    BY <1>b, <2>a, <2>b DEF PublisherInv, SameObjects, UpdateCurrent, nodeVars, execVars
  <2>4. FloorTimerInv'
    BY <1>b, <2>a, <2>b, SMTT(30) DEF FloorTimerInv, SameObjects, UpdateCurrent, nodeVars, execVars
  <2>5. FirstRunInv'
    BY <1>b, <2>a, <2>b DEF FirstRunInv, UpdateCurrent, nodeVars, execVars
  <2>6. BlankInv'
    BY <1>b, <2>a, <2>b, SMTT(30) DEF BlankInv, SameObjects, CostmapTypes, UpdateCurrent, nodeVars, execVars
  <2>7. NoStaleFloor'
    BY <1>b, <2>a, <2>b DEF NoStaleFloor, On, Valid, SameObjects, FloorTimerInv, FirstRunInv, CostmapTypes, UpdateCurrent, nodeVars, execVars
  <2> QED BY <2>1, <2>2, <2>3, <2>4, <2>5, <2>6, <2>7 DEF CostmapInv
<1> QED BY <1>a, <1>b DEF UpdateCurrent

\* Setting one field of all rooms.
LEMMA AllChangedIs ==
  ASSUME CostmapTypes, rooms' = [r \in DOMAIN rooms |-> [rooms[r] EXCEPT !.changed = FALSE]]
  PROVE  /\ SameObjects
         /\ \A r \in DOMAIN rooms : rooms'[r].pub = rooms[r].pub /\ rooms'[r].data = rooms[r].data
<1>1. ASSUME NEW r \in DOMAIN rooms
      PROVE  /\ rooms'[r] \in RoomStates /\ rooms'[r].gen = rooms[r].gen
             /\ rooms'[r].data => rooms'[r].map
             /\ rooms'[r].pub = rooms[r].pub /\ rooms'[r].data = rooms[r].data
  <2>1. rooms[r] \in RoomStates /\ (rooms[r].data => rooms[r].map)
    BY DEF CostmapTypes
  <2>2. rooms'[r] = [rooms[r] EXCEPT !.changed = FALSE]
    OBVIOUS
  <2> QED BY ONLY <2>1, <2>2, Zenon DEF RoomStates
<1> QED BY <1>1 DEF SameObjects

LEMMA AllPubIs ==
  ASSUME CostmapTypes, NEW on \in BOOLEAN, rooms' = SetPublishers(on)
  PROVE  /\ SameObjects
         /\ \A r \in DOMAIN rooms : rooms'[r].changed = rooms[r].changed /\ rooms'[r].data = rooms[r].data
         /\ \A r \in DOMAIN rooms : rooms'[r].pub = on /\ rooms'[r].map = rooms[r].map
<1>1. ASSUME NEW r \in DOMAIN rooms
      PROVE  /\ rooms'[r] \in RoomStates /\ rooms'[r].gen = rooms[r].gen
             /\ rooms'[r].data => rooms'[r].map
             /\ rooms'[r].changed = rooms[r].changed /\ rooms'[r].data = rooms[r].data
             /\ rooms'[r].pub = on /\ rooms'[r].map = rooms[r].map
  <2>1. rooms[r] \in RoomStates /\ (rooms[r].data => rooms[r].map)
    BY DEF CostmapTypes
  <2>2. rooms'[r] = [rooms[r] EXCEPT !.pub = on]
    BY DEF SetPublishers
  <2> QED BY ONLY <2>1, <2>2, on \in BOOLEAN DEF RoomStates
<1> QED BY <1>1 DEF SameObjects, SetPublishers

\* The floor in hand depends on the objects and their data.
LEMMA FloorInHandIs ==
  ASSUME CostmapTypes, SameObjects, work' = work,
         \A r \in DOMAIN rooms : rooms'[r].changed = rooms[r].changed /\ rooms'[r].data = rooms[r].data
  PROVE  FloorInHand => FloorInHand'
<1> SUFFICES ASSUME FloorInHand PROVE FloorInHand'
  OBVIOUS
<1>1. PICK f \in Floors :
        /\ work # {} /\ \A w \in work : FloorOf[w[1]] = f
        /\ \A w \in work : rooms[w[1]].data \/ rooms[w[1]].gen > 1
        /\ \A r \in On(f) : rooms[r].data => \E w \in work : w[1] = r
  BY DEF FloorInHand
<1>2. \A w \in work : w[1] \in DOMAIN rooms
  BY DEF CostmapTypes
<1>3. \A w \in work : rooms'[w[1]].data \/ rooms'[w[1]].gen > 1
  BY <1>1, <1>2 DEF SameObjects
<1>4. \A r \in On(f)' : rooms'[r].data => \E w \in work : w[1] = r
  BY <1>1, <1>2 DEF On, SameObjects
<1> QED BY <1>1, <1>3, <1>4 DEF FloorInHand, Floors

\* The marks the floor timer clears are in its hand.
LEMMA CollectChangedKeeps ==
  ASSUME CostmapInv, CollectChanged
  PROVE  CostmapInv'
<1> USE DEF CostmapInv
<1>b. /\ SameObjects
      /\ \A r \in DOMAIN rooms : rooms'[r].pub = rooms[r].pub /\ rooms'[r].data = rooms[r].data
  <2>1. CostmapTypes /\ rooms' = [r \in DOMAIN rooms |-> [rooms[r] EXCEPT !.changed = FALSE]]
    BY DEF CollectChanged
  <2> QED BY ONLY <2>1, AllChangedIs
<1>c. node_state # "cleaned"
  BY DEF CollectChanged, CostmapTypes
<1>1. CostmapTypes'
  BY <1>b, <1>c DEF CostmapTypes, RoomStates, Objects, SameObjects, CollectChanged, nodeVars, execVars
<1>2. ReaderInv'
  BY <1>b, <1>c DEF ReaderInv, SameObjects, CollectChanged, nodeVars, execVars
<1>3. PublisherInv'
  BY <1>b, <1>c DEF PublisherInv, SameObjects, CollectChanged, nodeVars, execVars
<1>4. FloorTimerInv'
  BY <1>b, <1>c DEF FloorTimerInv, SameObjects, CollectChanged, nodeVars, execVars
<1>5. FirstRunInv'
  BY <1>b, <1>c DEF FirstRunInv, CollectChanged, nodeVars, execVars
<1>6. BlankInv'
  BY <1>b, <1>c DEF BlankInv, SameObjects, CostmapTypes, CollectChanged, nodeVars, execVars
<1>7. NoStaleFloor'
  BY <1>b, <1>c DEF NoStaleFloor, On, Valid, SameObjects, FloorTimerInv, FirstRunInv, CostmapTypes, CollectChanged, nodeVars, execVars
<1> QED BY <1>1, <1>2, <1>3, <1>4, <1>5, <1>6, <1>7 DEF CostmapInv

\* on_activate switches the publishers on; before it there are no floors.
LEMMA ActivateBodyKeeps ==
  ASSUME CostmapInv, ActivateBody
  PROVE  CostmapInv'
<1> USE DEF CostmapInv
<1>b. /\ SameObjects
      /\ \A r \in DOMAIN rooms : rooms'[r].changed = rooms[r].changed /\ rooms'[r].data = rooms[r].data
      /\ \A r \in DOMAIN rooms : rooms'[r].pub = TRUE /\ rooms'[r].map = rooms[r].map
  <2>1. CostmapTypes /\ rooms' = SetPublishers(TRUE)
    BY DEF ActivateBody
  <2> QED BY ONLY <2>1, AllPubIs, Zenon
<1>0. FloorInHand => FloorInHand'
  <2>1. CostmapTypes /\ work' = work
    BY DEF ActivateBody, execVars
  <2> QED BY ONLY <2>1, <1>b, FloorInHandIs
<1>1. CostmapTypes'
  BY <1>0, <1>b, Zenon DEF CostmapTypes, RoomStates, Objects, SameObjects, ActivateBody, nodeVars, execVars
<1>2. ReaderInv'
  BY <1>0, <1>b, Zenon DEF ReaderInv, SameObjects, ActivateBody, nodeVars, execVars
<1>3. PublisherInv'
  BY <1>0, <1>b DEF PublisherInv, SameObjects, ActivateBody, nodeVars, execVars
<1>4. FloorTimerInv'
  BY <1>0, <1>b, Zenon DEF FloorTimerInv, SameObjects, ActivateBody, nodeVars, execVars
<1>5. FirstRunInv'
  BY <1>0, <1>b DEF FirstRunInv, ActivateBody, nodeVars, execVars
<1>6. BlankInv'
  BY <1>0, <1>b, Zenon DEF BlankInv, SameObjects, CostmapTypes, ActivateBody, nodeVars, execVars
<1>7. NoStaleFloor'
  BY <1>0, <1>b DEF NoStaleFloor, On, Valid, SameObjects, FloorTimerInv, FirstRunInv, CostmapTypes, ActivateBody, nodeVars, execVars
<1> QED BY <1>1, <1>2, <1>3, <1>4, <1>5, <1>6, <1>7 DEF CostmapInv

\* on_deactivate switches the publishers off.
LEMMA DeactivateBodyKeeps ==
  ASSUME CostmapInv, DeactivateBody
  PROVE  CostmapInv'
<1> USE DEF CostmapInv
<1>b. /\ SameObjects
      /\ \A r \in DOMAIN rooms : rooms'[r].changed = rooms[r].changed /\ rooms'[r].data = rooms[r].data
      /\ \A r \in DOMAIN rooms : rooms'[r].pub = FALSE /\ rooms'[r].map = rooms[r].map
  <2>1. CostmapTypes /\ rooms' = SetPublishers(FALSE)
    BY DEF DeactivateBody
  <2> QED BY ONLY <2>1, AllPubIs, Zenon
<1>0. FloorInHand => FloorInHand'
  <2>1. CostmapTypes /\ work' = work
    BY DEF DeactivateBody, execVars
  <2> QED BY ONLY <2>1, <1>b, FloorInHandIs
<1>1. CostmapTypes'
  BY <1>0, <1>b, Zenon DEF CostmapTypes, RoomStates, Objects, SameObjects, DeactivateBody, nodeVars, execVars
<1>2. ReaderInv'
  BY <1>0, <1>b, Zenon DEF ReaderInv, SameObjects, DeactivateBody, nodeVars, execVars
<1>3. PublisherInv'
  BY <1>0, <1>b, Zenon DEF PublisherInv, SameObjects, DeactivateBody, nodeVars, execVars
<1>4. FloorTimerInv'
  BY <1>0, <1>b, Zenon DEF FloorTimerInv, SameObjects, DeactivateBody, nodeVars, execVars
<1>5. FirstRunInv'
  BY <1>0, <1>b DEF FirstRunInv, DeactivateBody, nodeVars, execVars
<1>6. BlankInv'
  BY <1>0, <1>b, Zenon DEF BlankInv, SameObjects, CostmapTypes, DeactivateBody, nodeVars, execVars
<1>7. NoStaleFloor'
  BY <1>0, <1>b DEF NoStaleFloor, On, Valid, SameObjects, FloorTimerInv, FirstRunInv, CostmapTypes, DeactivateBody, nodeVars, execVars
<1> QED BY <1>1, <1>2, <1>3, <1>4, <1>5, <1>6, <1>7 DEF CostmapInv

\* The rooms created are blank, and of a later make where there was one before.
LEMMA InsertedIs ==
  ASSUME CostmapTypes, NEW made \in SUBSET Rooms, NEW mapped \in SUBSET made,
         rooms' = Inserted(made, mapped)
  PROVE  /\ rooms' \in [DOMAIN rooms \cup made -> RoomStates] /\ DOMAIN rooms' = DOMAIN rooms \cup made
         /\ \A r \in DOMAIN rooms : rooms'[r].gen >= rooms[r].gen
         /\ \A r \in DOMAIN rooms \cap made : rooms'[r].gen > 1
         /\ \A r \in DOMAIN rooms \ made : rooms'[r] = rooms[r]
         /\ \A r \in made : ~rooms'[r].data /\ (rooms'[r].pub <=> node_state = "active")
<1>1. DOMAIN rooms' = DOMAIN rooms \cup made
  BY DEF Inserted
<1>2. \A r \in DOMAIN rooms \ made : rooms'[r] = rooms[r] /\ rooms[r] \in RoomStates /\ rooms[r].gen \in Nat
  BY DEF Inserted, CostmapTypes, RoomStates
<1>3. ASSUME NEW r \in made
      PROVE  /\ rooms'[r] \in RoomStates /\ ~rooms'[r].data /\ (rooms'[r].pub <=> node_state = "active")
             /\ r \in DOMAIN rooms => rooms'[r].gen >= rooms[r].gen /\ rooms'[r].gen > 1
  <2> DEFINE g == IF r \in DOMAIN rooms THEN rooms[r].gen + 1 ELSE 1
             p == node_state = "active"
             m == r \in mapped
  <2>1. rooms'[r] = NewRoom(g, p, m)
    BY DEF Inserted
  <2>2. g \in Nat \ {0} /\ p \in BOOLEAN /\ m \in BOOLEAN
    BY DEF CostmapTypes, RoomStates
  <2>3. r \in DOMAIN rooms => g >= rooms[r].gen /\ g > 1
    BY DEF CostmapTypes, RoomStates
  <2>4. p <=> node_state = "active"
    OBVIOUS
  <2> HIDE DEF g, p, m
  <2>5. rooms'[r] \in RoomStates /\ rooms'[r].gen = g /\ rooms'[r].pub = p /\ ~rooms'[r].data
    BY ONLY <2>1, <2>2 DEF NewRoom, RoomStates
  <2> QED BY ONLY <2>3, <2>4, <2>5
<1>4. rooms' = [r \in DOMAIN rooms \cup made |-> rooms'[r]]
  BY DEF Inserted
<1>5. \A r \in DOMAIN rooms \cup made : rooms'[r] \in RoomStates
  BY <1>2, <1>3
<1>6. rooms' \in [DOMAIN rooms \cup made -> RoomStates]
  BY <1>4, <1>5
<1>7. \A r \in DOMAIN rooms : rooms'[r].gen >= rooms[r].gen
  BY <1>2, <1>3
<1> QED BY <1>1, <1>2, <1>3, <1>6, <1>7

\* A creation inserts blank rooms, which no floor in the making is waiting for.
LEMMA DeferredKeeps ==
  ASSUME CostmapInv, NEW d \in deferred, createRoomCostmapsDeferred(d)
  PROVE  CostmapInv'
<1> USE DEF CostmapInv
<1>a. PICK made \in SUBSET d.rooms : \E mapped \in SUBSET made : rooms' = Inserted(made, mapped)
  BY DEF createRoomCostmapsDeferred
<1>b. PICK mapped \in SUBSET made : rooms' = Inserted(made, mapped)
  BY <1>a
<1>c. CostmapTypes /\ made \in SUBSET Rooms
  BY <1>a DEF CostmapTypes
<1>d. /\ rooms' \in [DOMAIN rooms \cup made -> RoomStates] /\ DOMAIN rooms' = DOMAIN rooms \cup made
      /\ \A r \in DOMAIN rooms : rooms'[r].gen >= rooms[r].gen
      /\ \A r \in DOMAIN rooms \cap made : rooms'[r].gen > 1
      /\ \A r \in DOMAIN rooms \ made : rooms'[r] = rooms[r]
      /\ \A r \in made : ~rooms'[r].data /\ (rooms'[r].pub <=> node_state = "active")
  BY ONLY <1>b, <1>c, mapped \in SUBSET made, InsertedIs, Zenon
<1>e. \A r \in DOMAIN rooms : rooms[r].gen \in Nat /\ rooms'[r].gen \in Nat
  BY <1>c, <1>d, SMTT(30) DEF CostmapTypes, RoomStates
<1>f. /\ node_state' = node_state /\ timers' = timers /\ stops' = stops /\ floors' = floors
      /\ exec' = exec /\ work' = work /\ item' = item /\ affected' = affected /\ reader' = reader
  BY Zenon DEF createRoomCostmapsDeferred, nodeVars, execVars
<1>0. FloorInHand => FloorInHand'
  <2> SUFFICES ASSUME FloorInHand PROVE FloorInHand'
    BY SMTT(30)
  <2>1. PICK f \in Floors :
          /\ work # {} /\ \A w \in work : FloorOf[w[1]] = f
          /\ \A w \in work : rooms[w[1]].data \/ rooms[w[1]].gen > 1
          /\ \A r \in On(f) : rooms[r].data => \E w \in work : w[1] = r
    BY DEF FloorInHand
  <2>2. work' = work /\ (\A w \in work : w[1] \in DOMAIN rooms)
    BY SMTT(30) DEF createRoomCostmapsDeferred, execVars, CostmapTypes
  <2>3. \A w \in work : rooms'[w[1]].data \/ rooms'[w[1]].gen > 1
    BY <2>1, <2>2, <1>d, <1>e
  <2>4. \A r \in On(f)' : rooms'[r].data => \E w \in work : w[1] = r
    BY <2>1, <2>2, <1>d, SMTT(30) DEF On
  <2> QED BY <2>1, <2>2, <2>3, <2>4 DEF FloorInHand, Floors
<1>1. CostmapTypes'
  BY <1>0, <1>c, <1>d, <1>e, SMTT(30) DEF CostmapTypes, RoomStates, Objects, SameObjects, createRoomCostmapsDeferred, Exclusive, nodeVars, execVars
<1>2. ReaderInv'
  BY <1>0, <1>c, <1>d, <1>e DEF ReaderInv, SameObjects, createRoomCostmapsDeferred, Exclusive, nodeVars, execVars
<1>3. PublisherInv'
  BY ONLY PublisherInv, <1>d, <1>f, SMTT(30) DEF PublisherInv
<1>4. FloorTimerInv'
  BY ONLY FloorTimerInv, <1>0, <1>d, <1>f, Zenon DEF FloorTimerInv
<1>5. FirstRunInv'
  BY ONLY FirstRunInv, <1>f, Zenon DEF FirstRunInv
<1>6. BlankInv'
  BY ONLY BlankInv, <1>d, <1>e, <1>f, SMTT(30) DEF BlankInv
<1>7. NoStaleFloor'
  BY ONLY NoStaleFloor, <1>d, <1>f, SMTT(30) DEF NoStaleFloor, On, Valid, Floors
<1> QED BY <1>1, <1>2, <1>3, <1>4, <1>5, <1>6, <1>7 DEF CostmapInv

\* A floor is updated with a room that has data, or becomes invalid.
LEMMA UpdateFloorKeeps ==
  ASSUME CostmapInv, UpdateFloor
  PROVE  CostmapInv'
<1> USE DEF CostmapInv
<1>a. PICK r \in affected : /\ Valid(FloorOf[r]) /\ floors' = UpdateRegion(r)
                            /\ affected' = affected \ {r}
  BY DEF UpdateFloor
<1>b. /\ exec' = exec /\ work' = work /\ rooms' = rooms /\ item' = item /\ node_state' = node_state
      /\ stops' = stops /\ exec = "floors" /\ timers' = timers /\ reader' = reader
      /\ shutting_down' = shutting_down /\ deferred' = deferred /\ zrequests' = zrequests
  BY SMTT(30) DEF UpdateFloor, nodeVars
<1> DEFINE f == FloorOf[r]
<1>c. /\ floors' \in [DOMAIN floors -> FloorEntries] /\ DOMAIN floors' = DOMAIN floors
      /\ \A x \in DOMAIN floors : /\ floors'[x].blank \subseteq floors[x].blank
                                  /\ floors'[x].regions = floors[x].regions
                                  /\ floors'[x].outside = floors[x].outside
                                  /\ floors'[x].valid => floors[x].valid
      /\ floors'[f].valid => (RoomReady(r) => r \in floors[f].regions)
  <2>0. f \in DOMAIN floors /\ floors \in [DOMAIN floors -> FloorEntries]
    BY <1>a DEF CostmapTypes, Valid
  <2> HIDE DEF f
  <2>1. CASE floors' = floors /\ ~RoomReady(r)
    BY <2>0, <2>1
  <2>2. CASE floors' = [floors EXCEPT ![f].blank = @ \ {r}] /\ r \in floors[f].regions
    BY <2>0, <2>2 DEF FloorEntries
  <2>3. CASE floors' = [floors EXCEPT ![f].valid = FALSE]
    BY <2>0, <2>3, Zenon DEF FloorEntries
  <2> QED BY <1>a, <2>1, <2>2, <2>3 DEF UpdateRegion, f
<1>1. CostmapTypes'
  BY <1>a, <1>b, <1>c DEF CostmapTypes, Objects, Floors
<1>2. ReaderInv'
  BY <1>b DEF ReaderInv, Floors
<1>3. PublisherInv'
  BY <1>b DEF PublisherInv
<1>4. FloorTimerInv'
  BY <1>a, <1>b DEF FloorTimerInv
<1>5. FirstRunInv'
  BY <1>b, <1>c DEF FirstRunInv
<1>6. BlankInv'
  BY <1>b, <1>c, SMTT(30) DEF BlankInv
<1>7. NoStaleFloor'
  BY <1>a, <1>b, <1>c DEF NoStaleFloor, Valid, On, Floors, RoomReady, CostmapTypes
<1> QED BY <1>1, <1>2, <1>3, <1>4, <1>5, <1>6, <1>7 DEF CostmapInv

\* A floor is to be created when all its rooms are ready.
LEMMA ValidateFloorKeeps ==
  ASSUME CostmapInv, ValidateFloor
  PROVE  CostmapInv'
<1> USE DEF CostmapInv
<1>a. PICK f \in {FloorOf[r] : r \in affected} :
        /\ ~Valid(f) /\ affected' = {r \in affected : FloorOf[r] # f}
        /\ IF MayCreate(f) THEN exec' = "create" /\ work' = {<<r, rooms[r].gen>> : r \in On(f)}
           ELSE exec' = exec /\ work' = work
  BY DEF ValidateFloor
<1>b. /\ floors' = floors /\ rooms' = rooms /\ item' = item /\ node_state' = node_state
      /\ stops' = stops /\ exec = "floors" /\ timers' = timers /\ reader' = reader
      /\ shutting_down' = shutting_down /\ deferred' = deferred /\ zrequests' = zrequests
  BY DEF ValidateFloor, nodeVars
<1>c. f \in Floors /\ On(f) # {} /\ affected # {} /\ work = {}
  <2>1. PICK r \in affected : f = FloorOf[r]
    BY <1>a
  <2>2. r \in DOMAIN rooms /\ r \in Rooms
    BY <2>1 DEF FloorTimerInv, CostmapTypes
  <2> QED BY <2>1, <2>2, <1>b DEF Floors, On, CostmapTypes
<1>d. ASSUME MayCreate(f)
      PROVE  /\ FloorInHand' /\ work' \subseteq Objects
             /\ \A w \in work' : w[1] \in DOMAIN rooms
  <2>1. work' = {<<r, rooms[r].gen>> : r \in On(f)}
    BY <1>a, <1>d
  <2>2. \A r \in On(f) : r \in DOMAIN rooms /\ r \in Rooms /\ rooms[r].gen \in Nat \ {0}
                         /\ FloorOf[r] = f /\ rooms[r].data
    BY <1>d DEF MayCreate, RoomReady, On, CostmapTypes, RoomStates
  <2>3. \A w \in work' : \E r \in On(f) : w = <<r, rooms[r].gen>>
    BY <2>1
  <2>4. \A w \in work' : /\ w \in Objects /\ w[1] \in DOMAIN rooms
                         /\ FloorOf[w[1]] = f /\ rooms[w[1]].data
    BY <2>2, <2>3 DEF Objects
  <2>5. \A r \in On(f) : <<r, rooms[r].gen>> \in work'
    BY <2>1
  <2>6. \A r \in On(f) : \E w \in work' : w[1] = r
    BY <2>5, Zenon
  <2>7. work' # {}
    BY <1>c, <2>5, Zenon
  <2>8. f \in Floors /\ On(f)' = On(f)
    BY <1>b, <1>c DEF On
  <2> QED BY <1>b, <2>4, <2>6, <2>7, <2>8 DEF FloorInHand, Floors
<1>1. CostmapTypes'
  BY <1>a, <1>b, <1>d DEF CostmapTypes, Floors
<1>2. ReaderInv'
  BY <1>b DEF ReaderInv, Floors
<1>3. PublisherInv'
  BY <1>b, SMTT(30) DEF PublisherInv
<1>4. FloorTimerInv'
  BY <1>a, <1>b, <1>c, <1>d DEF FloorTimerInv
<1>5. FirstRunInv'
  BY <1>a, <1>b DEF FirstRunInv
<1>6. BlankInv'
  BY <1>b, SMTT(30) DEF BlankInv
<1>7. NoStaleFloor'
  BY <1>a, <1>b DEF NoStaleFloor, Valid, On, Floors
<1> QED BY <1>1, <1>2, <1>3, <1>4, <1>5, <1>6, <1>7 DEF CostmapInv

\* The floor that is created has every room that has data, and no blank one but of a second
\* make.
LEMMA CreateFloorKeeps ==
  ASSUME CostmapInv, CreateFloor
  PROVE  CostmapInv'
<1> USE DEF CostmapInv
<1> DEFINE rs == {w[1] : w \in work}
           f == CHOOSE f \in Floors : \E r \in rs : FloorOf[r] = f
<1>a. PICK g \in Floors :
        /\ work # {} /\ \A w \in work : FloorOf[w[1]] = g
        /\ \A w \in work : rooms[w[1]].data \/ rooms[w[1]].gen > 1
        /\ \A r \in On(g) : rooms[r].data => \E w \in work : w[1] = r
  BY SMTT(30) DEF CreateFloor, FloorTimerInv, FloorInHand
<1>b. /\ rooms' = rooms /\ item' = item /\ node_state' = node_state
      /\ stops' = stops /\ exec = "create" /\ timers' = timers /\ reader' = reader
      /\ shutting_down' = shutting_down /\ deferred' = deferred /\ zrequests' = zrequests
      /\ work' = {} /\ exec' = "floors" /\ affected' = affected
  BY Zenon DEF CreateFloor, nodeVars
<1>i. PICK fits \in SUBSET rs :
        floors' = [x \in DOMAIN floors \cup {f} |->
                     IF x = f THEN [valid |-> TRUE, regions |-> fits, outside |-> rs \ fits,
                                    blank |-> {r \in rs : ~rooms[r].data}]
                     ELSE floors[x]]
  BY Zenon DEF CreateFloor
<1> DEFINE entry == [valid |-> TRUE, regions |-> fits, outside |-> rs \ fits,
                     blank |-> {r \in rs : ~rooms[r].data}]
<1>c. floors' = [x \in DOMAIN floors \cup {f} |-> IF x = f THEN entry ELSE floors[x]]
  BY <1>i
<1>d. f = g
  <2>1. \A r \in rs : FloorOf[r] = g
    BY <1>a
  <2>2. rs # {}
    BY <1>a
  <2> HIDE DEF rs
  <2> QED BY <2>1, <2>2
<1>e. rs \subseteq Rooms /\ \A r \in rs : r \in DOMAIN rooms /\ (rooms[r].data \/ rooms[r].gen > 1)
  BY <1>a DEF CostmapTypes, Objects
<1>f. \A r \in On(g) : rooms[r].data => r \in rs
  BY <1>a
<1> HIDE DEF rs, f
<1>g. /\ entry \in FloorEntries /\ entry.regions \cup entry.outside = rs
      /\ \A r \in entry.blank : r \in DOMAIN rooms /\ rooms[r].gen > 1
  BY <1>e DEF FloorEntries
<1> HIDE DEF entry
<1>h. /\ DOMAIN floors' = DOMAIN floors \cup {f} /\ floors'[f] = entry
      /\ \A x \in DOMAIN floors : x # f => floors'[x] = floors[x]
      /\ floors' \in [DOMAIN floors \cup {f} -> FloorEntries]
  BY <1>c, <1>g, SMTT(30) DEF CostmapTypes
<1>1. CostmapTypes'
  BY <1>b, <1>d, <1>h DEF CostmapTypes, Floors
<1>2. ReaderInv'
  BY <1>b DEF ReaderInv, Floors
<1>3. PublisherInv'
  BY <1>b DEF PublisherInv
<1>4. FloorTimerInv'
  BY <1>b DEF FloorTimerInv
<1>5. FirstRunInv'
  BY <1>b DEF FirstRunInv
<1>6. BlankInv'
  BY <1>b, <1>g, <1>h, SMTT(30) DEF BlankInv
<1>7. NoStaleFloor'
  BY <1>b, <1>d, <1>f, <1>g, <1>h, SMTT(30) DEF NoStaleFloor, Valid, On, Floors
<1> QED BY <1>1, <1>2, <1>3, <1>4, <1>5, <1>6, <1>7, SMTT(30) DEF CostmapInv

\* CostmapInv holds initially.
LEMMA CostmapInitInv == CostmapInit => CostmapInv
BY CostmapAssumption DEF CostmapInit, CostmapInv, CostmapTypes, ReaderInv, PublisherInv, FloorTimerInv,
   FirstRunInv, BlankInv, NoStaleFloor, Objects, Valid

\* Every step of the costmap keeps CostmapInv.
LEMMA CostmapNextInv ==
  ASSUME CostmapInv, [CostmapNext]_costmapVars
  PROVE  CostmapInv'
<1>1. ASSUME NEW E \in Environments, onEnvironmentUpdate(E) PROVE CostmapInv'
  BY <1>1, EnvironmentUpdateKeeps
<1>2. ASSUME NEW r \in Rooms, MapArrives(r) \/ MinZArrives(r) \/ MinZFails(r) PROVE CostmapInv'
  BY <1>2, MapArrivesKeeps, MinZArrivesKeeps, MinZFailsKeeps
<1>3. ASSUME NEW r \in Tracked, onCurrentRoomUpdate(r) PROVE CostmapInv'
  BY <1>3, CurrentRoomKeeps
<1>4. CASE CollectRooms \/ CollectChanged
  BY <1>4, CollectRoomsKeeps, CollectChangedKeeps
<1>5. CASE InCallback
  BY <1>5, FutureAssignedKeeps, IncomingMapKeeps, MinZResponseKeeps, PublishRoomKeeps,
     PublishGridKeeps, MarkPublishedKeeps, LookUpCurrentKeeps, UpdateCurrentKeeps,
     UpdateFloorKeeps, ValidateFloorKeeps, CreateFloorKeeps, FloorsDoneKeeps DEF InCallback
<1>6. ASSUME NEW d \in deferred, createRoomCostmapsDeferred(d) PROVE CostmapInv'
  BY <1>6, DeferredKeeps
<1>7. CASE CostmapLifecycleNext
  BY <1>7, ActivateBeginKeeps, ActivateBodyKeeps, TransitionEndKeeps, DeactivateBeginKeeps,
     DeactivateBodyKeeps, CleanupKeeps DEF CostmapLifecycleNext
<1>8. CASE PlannerNext
  BY <1>8, PlanBeginKeeps, PlanEndKeeps DEF PlannerNext
<1>9. CASE UNCHANGED costmapVars
  BY <1>9, StutterKeeps
<1> QED BY <1>1, <1>2, <1>3, <1>4, <1>5, <1>6, <1>7, <1>8, <1>9 DEF CostmapNext

\* The grid the planner holds, of a floor or of a room, is the same after the step.
GridStays ==
  IF reader \in Floors THEN floors'[reader] = floors[reader]
  ELSE /\ rooms'[reader].gen = rooms[reader].gen
       /\ rooms'[reader].map = rooms[reader].map
       /\ rooms'[reader].data = rooms[reader].data

\* No step changes the grid of a planner that goes on planning.
LEMMA PlannedGridStays ==
  ASSUME CostmapInv, [CostmapNext]_costmapVars, reader # NoRoom, reader' = reader
  PROVE  GridStays
<1> USE DEF CostmapInv
<1>0. /\ CostmapTypes
      /\ reader \notin Floors => reader \in DOMAIN rooms /\ rooms[reader].gen \in Nat \ {0}
  BY DEF ReaderInv, CostmapTypes, RoomStates
<1>a. ASSUME rooms' = rooms, floors' = floors PROVE GridStays
  BY <1>a DEF GridStays
<1>1. ASSUME NEW E \in Environments, onEnvironmentUpdate(E) PROVE GridStays
  BY <1>1, <1>a DEF onEnvironmentUpdate
<1>2. ASSUME NEW r \in Rooms, MapArrives(r) \/ MinZArrives(r) \/ MinZFails(r) PROVE GridStays
  BY <1>2, <1>a DEF MapArrives, MinZArrives, MinZFails
<1>3. ASSUME NEW r \in Tracked, onCurrentRoomUpdate(r) PROVE GridStays
  BY <1>3, <1>a, SMTT(30) DEF onCurrentRoomUpdate
<1>4. CASE CollectRooms \/ FutureAssigned \/ LookUpCurrent \/ ValidateFloor \/ FloorsDone
  BY <1>4, <1>a DEF CollectRooms, FutureAssigned, LookUpCurrent, ValidateFloor, FloorsDone
<1>5. CASE CollectChanged
  <2>1. \A r \in DOMAIN rooms : /\ rooms'[r].gen = rooms[r].gen /\ rooms'[r].map = rooms[r].map
                                /\ rooms'[r].data = rooms[r].data
    <3> SUFFICES ASSUME NEW r \in DOMAIN rooms
                 PROVE  /\ rooms'[r].gen = rooms[r].gen /\ rooms'[r].map = rooms[r].map
                        /\ rooms'[r].data = rooms[r].data
      OBVIOUS
    <3>1. rooms'[r] = [rooms[r] EXCEPT !.changed = FALSE] /\ rooms[r] \in RoomStates
      BY <1>5 DEF CollectChanged, CostmapTypes
    <3> QED BY ONLY <3>1 DEF RoomStates
  <2> QED BY <2>1, <1>0, <1>5 DEF GridStays, CollectChanged
<1>6. CASE incomingMap
  <2> DEFINE i == item[1]
  <2>1. /\ i \in DOMAIN rooms /\ item = <<item[1], item[2]>> /\ floors' = floors
        /\ GridFree(item)
    BY <1>6 DEF incomingMap, CostmapTypes, Objects
  <2>2. CASE rooms' = rooms
    BY <2>1, <2>2, <1>a
  <2>3. CASE rooms[i].gen = item[2] /\ rooms' = [rooms EXCEPT ![i].map = TRUE, ![i].data = FALSE]
    <3>1. reader # i \/ reader \in Floors
      BY <2>1, <2>3, <1>0 DEF GridFree
    <3> HIDE DEF i
    <3>2. \A r \in DOMAIN rooms : r # i => rooms'[r] = rooms[r]
      BY <2>3, <1>0 DEF CostmapTypes
    <3> QED BY <2>1, <3>1, <3>2, <1>0 DEF GridStays
  <2> QED BY <1>6, <2>2, <2>3 DEF incomingMap
<1>7. CASE MinZResponse \/ MarkPublished
  <2>1. rooms' = rooms \/ Exclusive
    BY <1>7 DEF MinZResponse, MarkPublished
  <2> QED BY <2>1, <1>a, <1>7 DEF Exclusive, MinZResponse, MarkPublished
<1>8. ASSUME NEW w, w \in Objects, w[1] \in DOMAIN rooms, GridFree(w), rooms' = updateMap(w), floors' = floors
      PROVE  GridStays
  <2> DEFINE i == w[1]  g == w[2]
  <2>1. /\ i \in DOMAIN rooms /\ CostmapTypes /\ w = <<i, g>>
        /\ rooms' = [rooms EXCEPT ![i].data = @ \/ (rooms[i].gen = g /\ rooms[i].map)]
    BY <1>0, <1>8, SMTT(30) DEF updateMap, Objects
  <2>2. CASE rooms[i].gen # g
    <3> HIDE DEF i, g
    <3>1. rooms[i] \in RoomStates /\ rooms' = [rooms EXCEPT ![i].data = @]
      BY <2>1, <2>2, Zenon DEF CostmapTypes, RoomStates
    <3>2. /\ \A r \in DOMAIN rooms : r # i => rooms'[r] = rooms[r]
          /\ rooms'[i].map = rooms[i].map /\ rooms'[i].gen = rooms[i].gen /\ rooms'[i].data = rooms[i].data
      BY <2>1, <3>1 DEF RoomStates, CostmapTypes
    <3> QED BY <1>0, <1>8, <3>2 DEF GridStays
  <2>3. CASE rooms[i].gen = g
    <3>1. reader # i \/ reader \in Floors
      BY <2>1, <2>3, <1>0, <1>8 DEF GridFree
    <3> HIDE DEF i, g
    <3>2. \A r \in DOMAIN rooms : r # i => rooms'[r] = rooms[r]
      BY <2>1
    <3> QED BY <1>8, <3>1, <3>2, <1>0 DEF GridStays
  <2> QED BY <2>2, <2>3
<1>9. CASE PublishRoom
  <2>1. CASE rooms' = rooms
    BY <2>1, <1>9, <1>a, SMTT(30) DEF PublishRoom
  <2>2. ASSUME NEW w \in work, GridFree(w), rooms' = updateMap(w) PROVE GridStays
    <3>1. w \in Objects /\ w[1] \in DOMAIN rooms /\ floors' = floors
      BY <1>9 DEF CostmapTypes, PublishRoom
    <3> QED BY <3>1, <2>2, <1>8, SMTT(30)
  <2> QED BY <1>9, <2>1, <2>2 DEF PublishRoom
<1>10. CASE UpdateCurrent
  <2>1. CASE rooms' = rooms
    BY <2>1, <1>10, <1>a DEF UpdateCurrent
  <2>2. CASE GridFree(item) /\ rooms' = updateMap(item)
    <3>1. item \in Objects /\ item[1] \in DOMAIN rooms /\ floors' = floors
      BY <1>10 DEF CostmapTypes, UpdateCurrent
    <3> QED BY <3>1, <2>2, <1>8
  <2> QED BY <1>10, <2>1, <2>2 DEF UpdateCurrent
<1>11. CASE PublishGrid
  <2> DEFINE i == item[1]
  <2>1. i \in DOMAIN rooms /\ CostmapTypes /\ rooms' = [rooms EXCEPT ![i].changed = @ \/ rooms[i].pub]
        /\ floors' = floors
    BY <1>11 DEF PublishGrid, CostmapTypes, publishCostmap
  <2> HIDE DEF i
  <2>2. /\ SameObjects
        /\ \A r \in DOMAIN rooms : r # i => rooms'[r] = rooms[r]
        /\ rooms'[i].data = rooms[i].data /\ rooms'[i].map = rooms[i].map
        /\ rooms'[i].pub = rooms[i].pub
        /\ rooms'[i].changed <=> rooms[i].changed \/ rooms[i].pub
    BY ONLY <2>1, ChangedIs, Zenon
  <2> QED BY <1>0, <2>1, <2>2 DEF GridStays, SameObjects
<1>12. CASE UpdateFloor
  <2>1. PICK r \in affected : (RoomReady(r) => FloorsExclusive) /\ floors' = UpdateRegion(r)
    BY <1>12 DEF UpdateFloor
  <2>2. floors' = floors \/ reader \notin Floors
    BY <2>1, SMTT(30) DEF UpdateRegion, FloorsExclusive
  <2> QED BY <1>12, <2>2 DEF GridStays, UpdateFloor
<1>13. CASE CreateFloor
  BY <1>13 DEF GridStays, CreateFloor, FloorsExclusive
<1>14. ASSUME NEW d \in deferred, createRoomCostmapsDeferred(d) PROVE GridStays
  BY <1>14, SMTT(30) DEF createRoomCostmapsDeferred, Exclusive
<1>15. CASE CostmapLifecycleNext
  BY <1>15, <1>a, Zenon DEF CostmapLifecycleNext, ActivateBegin, ActivateBody, TransitionEnd,
     CostmapDeactivateBegin, DeactivateBody, on_cleanup, Exclusive
<1>16. CASE PlannerNext
  BY <1>16 DEF PlannerNext, PlanBegin, PlanEnd
<1>17. CASE UNCHANGED costmapVars
  BY <1>17, <1>a DEF costmapVars
<1> QED BY <1>1, <1>2, <1>3, <1>4, <1>5, <1>6, <1>7, <1>9, <1>10, <1>11, <1>12, <1>13, <1>14,
           <1>15, <1>16, <1>17, SMTT(30) DEF CostmapNext, InCallback

-----------------------------------------------------------------------------
(* Theorems *)

\* The inductive invariant of the multi-room costmap holds in every state, for any rooms
\* and floors and any number of messages, faults and stops.
THEOREM CostmapInvariant == CostmapSpec => []CostmapInv
<1>1. CostmapInv /\ [CostmapNext]_costmapVars => CostmapInv'
  BY CostmapNextInv
<1> QED BY <1>1, CostmapInitInv, PTL DEF CostmapSpec

\* A floor that is served was merged from the maps of all its rooms, and lacks no room
\* that was published since, but for those that the next update is about to merge
\* (updateFloorCostmaps, validateFloorCostmap).
LEMMA FloorsFromInv == CostmapInv => FloorHasRealData /\ NoStaleFloor
BY DEF CostmapInv, FloorHasRealData, BlankInv, Valid

\* A node that is not active publishes no room (createRoomCostmapsDeferred against
\* on_deactivate).
LEMMA PublishersFromInv == CostmapInv => InactivePublishesNothing
BY DEF CostmapInv, PublisherInv, InactivePublishesNothing

\* The grid of the floor or the room that a planner holds stays as it is
\* (getFloorCostmap, getRoomCostmap and their shared locks).
LEMMA PlannedGridUnchanged ==
  ASSUME CostmapInv, [CostmapNext]_costmapVars
  PROVE  [reader # NoRoom /\ reader' = reader =>
           IF reader \in Floors THEN floors'[reader] = floors[reader]
           ELSE /\ rooms'[reader].gen = rooms[reader].gen
                /\ rooms'[reader].map = rooms[reader].map
                /\ rooms'[reader].data = rooms[reader].data]_costmapVars
BY PlannedGridStays DEF GridStays

\* What a planner plans on does not change under it, through maps that arrive, timers
\* and rooms created anew.
THEOREM CostmapGridsStay == CostmapSpec => UpdatesBlockedWhilePlanning
<1>1. CostmapInv /\ [CostmapNext]_costmapVars =>
        [reader # NoRoom /\ reader' = reader =>
          IF reader \in Floors THEN floors'[reader] = floors[reader]
          ELSE /\ rooms'[reader].gen = rooms[reader].gen
               /\ rooms'[reader].map = rooms[reader].map
               /\ rooms'[reader].data = rooms[reader].data]_costmapVars
  BY PlannedGridUnchanged
<1> QED BY <1>1, CostmapInvariant, PTL DEF CostmapSpec, UpdatesBlockedWhilePlanning

-----------------------------------------------------------------------------
(* The observation buffer *)

\* A set of natural numbers has a least element.
LEMMA SomeIsLeast ==
  ASSUME NEW T \in SUBSET Nat, T # {}
  PROVE  \E x \in T : \A y \in T : x <= y
<1>1. IsWellFoundedOn(OpToRel(<, Nat), Nat)
  BY NatLessThanWellFounded, Zenon
<1>2. PICK x \in T : \A y \in T : ~ (<<y, x>> \in OpToRel(<, Nat))
  BY <1>1, WFMin, Zenon
<1>3. \A y \in T : ~ (y < x)
  BY <1>2, Zenon DEF OpToRel
<1> QED BY <1>3

\* The members of the buffer; as long as the clouds came in order the list is sorted, and what
\* was returned last is young enough.
InOrder(list) == \A i, j \in 1 .. Len(list) : i <= j => list[i] >= list[j]
BufferStates ==
  [at : {"run", "read"}, now : Int, list : Seq(Int), keep : Nat, answer : Seq(Int), disorder : BOOLEAN]
BufferInv ==
  /\ st \in BufferStates
  /\ ~st.disorder => InOrder(st.list)

\* purgeStaleObservations keeps the front of the list, nothing that is stale, and everything that
\* is young with all that lies before it.
LEMMA PurgedIs ==
  ASSUME NEW list \in Seq(Int), NEW now \in Int, NEW keep \in Nat
  PROVE  /\ purged(list, now, keep) \in Seq(Int)
         /\ Len(purged(list, now, keep)) <= Len(list)
         /\ \A i \in 1 .. Len(purged(list, now, keep)) : purged(list, now, keep)[i] = list[i]
         /\ keep > 0 => \A i \in 1 .. Len(list) :
              (\A j \in 1 .. i : now - list[j] <= keep) => i <= Len(purged(list, now, keep))
<1>1. CASE list = <<>>
  <2>1. purged(list, now, keep) = list
    BY <1>1 DEF purged
  <2>2. Len(list) = 0
    BY <1>1
  <2> QED BY <2>1, <2>2
<1>2. CASE list # <<>> /\ keep = 0
  <2>1. purged(list, now, keep) = <<Head(list)>>
    BY <1>2 DEF purged
  <2>2. <<Head(list)>> \in Seq(Int) /\ Len(<<Head(list)>>) = 1 /\ <<Head(list)>>[1] = list[1]
        /\ Len(list) >= 1
    BY <1>2
  <2> QED BY <2>1, <2>2, <1>2
<1>3. CASE list # <<>> /\ keep > 0
  <2> DEFINE stale == {i \in DOMAIN list : now - list[i] > keep}
  <2>1. CASE stale = {}
    <3>1. purged(list, now, keep) = list
      BY <1>3, <2>1 DEF purged
    <3> QED BY <3>1
  <2>2. CASE stale # {}
    <3> DEFINE k == CHOOSE i \in stale : \A j \in stale : i <= j
    <3>1. stale \in SUBSET Nat
      OBVIOUS
    <3>2. \E i \in stale : \A j \in stale : i <= j
      BY <3>1, <2>2, SomeIsLeast, Zenon
    <3>3. k \in stale /\ \A j \in stale : k <= j
      BY <3>2, Zenon
    <3>0. ~(keep = 0)
      BY <1>3
    <3>4. purged(list, now, keep) = SubSeq(list, 1, k - 1)
      BY <1>3, <2>2, <3>0, Zenon DEF purged
    <3>5. k \in 1 .. Len(list) /\ now - list[k] > keep
      BY <3>3
    <3> HIDE DEF k, stale
    <3>6. /\ SubSeq(list, 1, k - 1) \in Seq(Int) /\ Len(SubSeq(list, 1, k - 1)) = k - 1
          /\ \A i \in 1 .. k - 1 : SubSeq(list, 1, k - 1)[i] = list[i]
      BY ONLY <3>5, list \in Seq(Int)
    <3>7. ASSUME NEW i \in 1 .. Len(list), \A j \in 1 .. i : now - list[j] <= keep
          PROVE  i <= k - 1
      <4>1. \A j \in 1 .. i : j # k
        BY ONLY <3>5, <3>7, list \in Seq(Int), now \in Int, keep \in Nat
      <4> QED BY <4>1, <3>5
    <3> QED BY <3>4, <3>5, <3>6, <3>7
  <2> QED BY <2>1, <2>2
<1> QED BY <1>1, <1>2, <1>3

\* What is young in a sorted list is kept by purgeStaleObservations.
LEMMA YoungIsKept ==
  ASSUME NEW list \in Seq(Int), NEW now \in Int, NEW keep \in Nat, keep > 0, InOrder(list),
         NEW i \in 1 .. Len(list), now - list[i] <= keep
  PROVE  /\ i \in 1 .. Len(purged(list, now, keep))
         /\ purged(list, now, keep)[i] = list[i]
<1>1. \A j \in 1 .. i : now - list[j] <= keep
  <2> TAKE j \in 1 .. i
  <2>1. j \in 1 .. Len(list) /\ list[j] >= list[i] /\ list[j] \in Int /\ list[i] \in Int
    BY DEF InOrder
  <2> QED BY <2>1
<1>2. i <= Len(purged(list, now, keep))
  BY <1>1, PurgedIs
<1>3. Len(purged(list, now, keep)) \in Nat
  BY PurgedIs
<1> QED BY <1>2, <1>3, PurgedIs

\* The front of a sorted list is sorted.
LEMMA PurgedInOrder ==
  ASSUME NEW list \in Seq(Int), NEW now \in Int, NEW keep \in Nat, InOrder(list)
  PROVE  InOrder(purged(list, now, keep))
<1> DEFINE p == purged(list, now, keep)
<1>1. p \in Seq(Int) /\ Len(p) <= Len(list) /\ \A i \in 1 .. Len(p) : p[i] = list[i]
  BY PurgedIs
<1> HIDE DEF p
<1>2. InOrder(p)
  <2>1. SUFFICES ASSUME NEW i \in 1 .. Len(p), NEW j \in 1 .. Len(p), i <= j PROVE p[i] >= p[j]
    BY DEF InOrder
  <2>2. Len(p) \in Nat /\ Len(list) \in Nat
    BY <1>1
  <2>3. i \in 1 .. Len(list) /\ j \in 1 .. Len(list)
    BY ONLY <1>1, <2>1, <2>2, SMTT(30)
  <2>4. list[i] >= list[j]
    BY <2>1, <2>3 DEF InOrder
  <2> QED BY <1>1, <2>4
<1> QED BY <1>2 DEF p

\* BufferInv holds when the buffer is created.
LEMMA BufferInitInv == st \in ObservationBufferInit => BufferInv
<1> SUFFICES ASSUME st \in ObservationBufferInit PROVE BufferInv
  OBVIOUS
<1>1. PICK keep \in ObKeeps :
        st = [at |-> "run", now |-> 1, list |-> <<>>, keep |-> keep, answer |-> <<>>, disorder |-> FALSE]
  BY Zenon DEF ObservationBufferInit
<1>2. keep \in Nat /\ <<>> \in Seq(Int) /\ InOrder(<<>>)
  BY ObservationAssumption DEF InOrder
<1> DEFINE one == 1
           none == <<>>
<1>3. one \in Int /\ none \in Seq(Int) /\ InOrder(none)
      /\ st = [at |-> "run", now |-> one, list |-> none, keep |-> keep, answer |-> none, disorder |-> FALSE]
  BY <1>1, <1>2
<1> HIDE DEF one, none
<1> QED BY ONLY <1>2, <1>3 DEF BufferInv, BufferStates

\* A cloud in front of the list: in order if none before it is younger.
LEMMA CloudInFront ==
  ASSUME NEW list \in Seq(Int), NEW stamp \in Int
  PROVE  /\ <<stamp>> \o list \in Seq(Int)
         /\ Len(<<stamp>> \o list) = Len(list) + 1
         /\ \A i \in 1 .. Len(list) : (<<stamp>> \o list)[i + 1] = list[i]
         /\ InOrder(list) /\ (\A i \in 1 .. Len(list) : ~(list[i] > stamp)) => InOrder(<<stamp>> \o list)
<1> DEFINE l == <<stamp>> \o list
<1>1. l \in Seq(Int) /\ Len(l) = Len(list) + 1 /\ l[1] = stamp
      /\ \A i \in 1 .. Len(list) : l[i + 1] = list[i]
  OBVIOUS
<1> HIDE DEF l
<1>2. ASSUME InOrder(list), \A i \in 1 .. Len(list) : ~(list[i] > stamp)
      PROVE  InOrder(l)
  <2>0. Len(l) \in Nat /\ Len(list) \in Nat
    BY <1>1
  <2>1. \A j \in 2 .. Len(l) : j - 1 \in 1 .. Len(list) /\ l[j] = list[j - 1] /\ l[j] \in Int
    BY <1>1
  <2>2. SUFFICES ASSUME NEW i \in 1 .. Len(l), NEW j \in 1 .. Len(l), i <= j PROVE l[i] >= l[j]
    BY DEF InOrder
  <2>3. CASE i = 1 /\ j = 1
    BY <2>3, <1>1
  <2>4. CASE i = 1 /\ j >= 2
    <3>1. j \in 2 .. Len(l)
      BY ONLY <2>4, <2>0, j \in 1 .. Len(l)
    <3>2. j - 1 \in 1 .. Len(list) /\ l[j] = list[j - 1] /\ l[j] \in Int
      BY <3>1, <2>1
    <3>3. ~(list[j - 1] > stamp)
      BY <1>2, <3>2
    <3>4. l[i] = stamp /\ l[j] \in Int /\ ~(l[j] > stamp)
      BY <3>2, <3>3, <2>4, <1>1, SMTT(30)
    <3> QED BY ONLY <3>4, stamp \in Int
  <2>5. CASE i >= 2
    <3>1. i \in 2 .. Len(l) /\ j \in 2 .. Len(l)
      BY ONLY <2>5, <2>2, <2>0, i \in 1 .. Len(l), j \in 1 .. Len(l)
    <3>a. i - 1 \in 1 .. Len(list) /\ j - 1 \in 1 .. Len(list)
      BY <3>1, <2>1
    <3>b. i - 1 <= j - 1
      BY ONLY <2>2, <2>0, i \in 1 .. Len(l), j \in 1 .. Len(l)
    <3>2. list[i - 1] >= list[j - 1]
      BY <3>a, <3>b, <1>2, Zenon DEF InOrder
    <3> QED BY <3>1, <3>2, <2>1
  <2> QED BY <2>3, <2>4, <2>5
<1>3. InOrder(list) /\ (\A i \in 1 .. Len(list) : ~(list[i] > stamp)) => InOrder(l)
  BY <1>2
<1> QED BY <1>1, <1>3 DEF l

\* Every step of the buffer keeps BufferInv, and one that takes no older cloud in throws nothing
\* young away.
LEMMA BufferStep ==
  ASSUME BufferInv, ObservationBufferNext
  PROVE  /\ BufferInv'
         /\ st.at = "run" /\ ~st'.disorder /\ st.keep > 0 =>
              \A i \in DOMAIN st.list : st'.now - st.list[i] <= st.keep =>
                 \E j \in DOMAIN st'.list : st'.list[j] = st.list[i]
<1>0. st \in BufferStates /\ (~st.disorder => InOrder(st.list))
  BY DEF BufferInv
<1>a. st.now \in Int /\ st.list \in Seq(Int) /\ st.keep \in Nat /\ st.disorder \in BOOLEAN
  BY <1>0 DEF BufferStates
<1>1. CASE Ob_bufferCloud
  <2>1. PICK stamp \in {st.now - 2, st.now - 1, st.now} :
          st' = [st EXCEPT !.list = purged(<<stamp>> \o @, st.now, st.keep),
                           !.disorder = @ \/ \E i \in DOMAIN st.list : st.list[i] > stamp]
    BY <1>1, Zenon DEF Ob_bufferCloud, Become
  <2>2. stamp \in Int
    BY <1>a
  <2> DEFINE l == <<stamp>> \o st.list
             p == purged(l, st.now, st.keep)
             d == st.disorder \/ \E i \in DOMAIN st.list : st.list[i] > stamp
  <2>3. st' = [st EXCEPT !.list = p, !.disorder = d]
    BY <2>1
  <2>4. /\ l \in Seq(Int) /\ Len(l) = Len(st.list) + 1
        /\ \A i \in 1 .. Len(st.list) : l[i + 1] = st.list[i]
        /\ InOrder(st.list) /\ (\A i \in 1 .. Len(st.list) : ~(st.list[i] > stamp)) => InOrder(l)
    BY <1>a, <2>2, CloudInFront
  <2>5. d \in BOOLEAN /\ (~d => InOrder(l))
    BY <1>0, <1>a, <2>4
  <2> HIDE DEF l, d
  <2>6. p \in Seq(Int) /\ (~d => InOrder(p))
    BY <2>4, <2>5, <1>a, PurgedIs, PurgedInOrder, Zenon
  <2>8. ASSUME ~d, st.keep > 0, NEW i \in 1 .. Len(st.list), st.now - st.list[i] <= st.keep
        PROVE  \E j \in 1 .. Len(p) : p[j] = st.list[i]
    <3>0. Len(st.list) \in Nat
      BY <1>a
    <3>a. i + 1 \in 1 .. Len(l)
      BY ONLY <3>0, <2>4, i \in 1 .. Len(st.list)
    <3>1. i + 1 \in 1 .. Len(l) /\ l[i + 1] = st.list[i] /\ InOrder(l)
      BY <3>a, <2>4, <2>5, <2>8, Zenon
    <3>2. i + 1 \in 1 .. Len(p) /\ p[i + 1] = l[i + 1]
      BY <3>1, <2>8, <2>4, <1>a, YoungIsKept, Zenon
    <3> QED BY <3>1, <3>2
  <2> HIDE DEF p
  <2>7. st' \in BufferStates /\ st'.list = p /\ st'.disorder = d /\ st'.now = st.now
    BY ONLY <1>0, <2>3, <2>5, <2>6, Zenon DEF BufferStates
  <2>9. BufferInv'
    BY <2>6, <2>7 DEF BufferInv
  <2>10. DOMAIN st.list = 1 .. Len(st.list) /\ DOMAIN p = 1 .. Len(p)
    BY <1>a, <2>6
  <2> QED BY <2>7, <2>8, <2>9, <2>10, Zenon
<1>2. CASE Ob_getObservations
  <2> DEFINE p == purged(st.list, st.now, st.keep)
  <2>1. st' = [st EXCEPT !.list = p, !.answer = p, !.at = "read"]
    BY <1>2, Zenon DEF Ob_getObservations, Become
  <2>2. p \in Seq(Int) /\ (InOrder(st.list) => InOrder(p))
    BY <1>a, PurgedIs, PurgedInOrder
  <2>3. ASSUME InOrder(st.list), st.keep > 0, NEW i \in 1 .. Len(st.list), st.now - st.list[i] <= st.keep
        PROVE  \E j \in 1 .. Len(p) : p[j] = st.list[i]
    BY <2>3, <1>a, YoungIsKept
  <2> HIDE DEF p
  <2>4. st' \in BufferStates /\ st'.list = p /\ st'.disorder = st.disorder /\ st'.now = st.now
    BY ONLY <1>0, <2>1, <2>2, Zenon DEF BufferStates
  <2>5. BufferInv'
    BY <1>0, <2>2, <2>4 DEF BufferInv
  <2>6. DOMAIN st.list = 1 .. Len(st.list) /\ DOMAIN p = 1 .. Len(p)
    BY <1>a, <2>2
  <2> QED BY <1>0, <2>3, <2>4, <2>5, <2>6, Zenon
<1>3. CASE Ob_read
  <2>1. st' = [st EXCEPT !.at = "run", !.answer = <<>>] /\ st.at = "read"
    BY <1>3, Zenon DEF Ob_read, Become, In
  <2> DEFINE none == <<>>
  <2>3. none \in Seq(Int) /\ st' = [st EXCEPT !.at = "run", !.answer = none]
    BY <2>1
  <2> HIDE DEF none
  <2>4. st' \in BufferStates /\ st'.list = st.list /\ st'.disorder = st.disorder
    BY ONLY <1>0, <2>3, Zenon DEF BufferStates
  <2>2. BufferInv'
    BY <1>0, <2>4, Zenon DEF BufferInv
  <2> QED BY <2>1, <2>2
<1>4. CASE Ob_time
  <2>1. st' = [st EXCEPT !.now = st.now + 1]
    BY <1>4, Zenon DEF Ob_time, Become, In
  <2> DEFINE n == st.now + 1
  <2>2. n \in Int /\ st' = [st EXCEPT !.now = n]
    BY <1>a, <2>1
  <2> HIDE DEF n
  <2>3. st' \in BufferStates /\ st'.list = st.list /\ st'.disorder = st.disorder
    BY ONLY <1>0, <2>2, Zenon DEF BufferStates
  <2> QED BY <1>0, <2>3, Zenon DEF BufferInv
<1> QED BY <1>1, <1>2, <1>3, <1>4, Zenon DEF ObservationBufferNext

\* A step of the buffer in the sum, which may leave it alone.
LEMMA BufferNextInv ==
  ASSUME BufferInv, ObservationBufferNext \/ st' = st
  PROVE  BufferInv'
<1>1. CASE st' = st
  BY <1>1 DEF BufferInv
<1> QED BY <1>1, BufferStep, Zenon

\* No step of the buffer drops what is young, unless an older cloud comes after it.
LEMMA FreshKept ==
  ASSUME part \in ObservationBuffers => BufferInv,
         part' = part,
         part \in ObservationBuffers => ObservationBufferNext \/ st' = st
  PROVE  [st.at = "run" /\ part \in ObservationBuffers /\ ~st'.disorder /\ st.keep > 0 =>
            \A i \in DOMAIN st.list : st'.now - st.list[i] <= st.keep =>
              \E j \in DOMAIN st'.list : st'.list[j] = st.list[i]]_componentVars
<1>1. CASE st' = st
  BY <1>1, Zenon DEF componentVars
<1>2. CASE part \in ObservationBuffers /\ ObservationBufferNext
  <2>1. BufferInv
    BY <1>2, Zenon
  <2> QED BY <1>2, <2>1, BufferStep, Zenon
<1>3. CASE part \notin ObservationBuffers
  BY <1>3
<1> QED BY <1>1, <1>2, <1>3, Zenon
=============================================================================
