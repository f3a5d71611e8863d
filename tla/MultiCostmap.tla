----------------------------- MODULE MultiCostmap -----------------------------
(***************************************************************************)
(* MultiCostmap2DROS: one layered costmap per room, created by a thread of *)
(* its own when an environments message arrives, and one aggregated        *)
(* costmap per floor, built from the rooms by a timer.  Four threads meet  *)
(* here: the executor of the costmap's callback group (messages, services  *)
(* and both timers, one callback at a time), the threads that create       *)
(* rooms, the lifecycle thread, and the room planner, which holds          *)
(* costmap_mutex_ shared while it plans, and the mutex of the grid it      *)
(* plans on.  An action is what happens between two releases of a lock;    *)
(* actions that lock costmap_mutex_ exclusively, or that grid, wait for    *)
(* the planner.                                                            *)
(*                                                                         *)
(* A room's grid is blank until its map has been received and an updateMap *)
(* has copied it; contents beyond that, z-coordinates and the publishers   *)
(* of floors are left out.                                                 *)
(***************************************************************************)
EXTENDS Naturals, FiniteSets

CONSTANTS
  Rooms, FloorOf,     \* rooms, and the floor each belongs to
  Environments,       \* the sets of rooms an environments message can list
  Tracked,            \* the rooms the room tracker reports the robot in
  Planned,            \* the rooms and floors a plan is asked for
  MaxMessages,        \* bound on environments messages
  MaxFaults,          \* bound on rooms not created, regions that do not fit and
                      \* failed get_min_z calls
  MaxStops,           \* bound on deactivations
  ActivationTimeout,  \* the 10 s wait of on_activate for rooms may run out
  NoRoom

ASSUME CostmapAssumption ==
  /\ NoRoom \notin Rooms
  /\ \A E \in Environments : E \subseteq Rooms
  /\ Tracked \subseteq Rooms
  /\ ActivationTimeout \in BOOLEAN
  /\ MaxMessages \in Nat /\ MaxFaults \in Nat /\ MaxStops \in Nat

VARIABLES
  node_state,     \* state of the node; on_activate and on_deactivate in three steps
  shutting_down, \* is_shutting_down_
  timers,        \* both timers exist and are not cancelled
  rooms,         \* room_costmaps_ and costmap_pubs_
  floors,        \* floor_costmap_cache_
  current_room,  \* current_room_id_
  exec,          \* where the executor thread is
  work,          \* rooms_to_publish: rooms and the costmap objects held for them
  item,          \* the one being published
  affected,      \* affected_floors_to_rooms
  zrequests,     \* get_min_z requests under way
  deferred,      \* room creations under way
  reader,        \* the room, or the floor, the planner is planning in
  messages, faults, stops  \* bounded counters

nodeVars == <<node_state, shutting_down, timers, stops>>
execVars == <<exec, work, item, affected>>
costmapVars == <<nodeVars, rooms, floors, current_room, execVars, zrequests, deferred, reader,
          messages, faults>>

Floors == {FloorOf[r] : r \in Rooms}
On(f) == {r \in DOMAIN rooms : FloorOf[r] = f}
\* static_layer->isCurrent() and some cell that is not NO_INFORMATION
RoomReady(r) == rooms[r].map /\ rooms[r].data

\* costmap_mutex_ can be locked exclusively.
Exclusive == reader = NoRoom

\* The mutex of the grid object held for a room: the planner keeps it while it
\* plans there, updateMap and resizeMap of LayeredCostmap take it.
GridFree(w) == w # <<reader, IF reader \in DOMAIN rooms THEN rooms[reader].gen ELSE 0>>

\* Mistake: the floors are written without their mutex.
FloorsAlwaysExclusive == TRUE

\* floor_cache_mutex_ can be locked exclusively: a planner on a room lets go of it.
FloorsExclusive == reader \notin Floors

-----------------------------------------------------------------------------
(* Rooms are created *)

\* A room as createRoomCostmapData and createRoomCostmapsDeferred leave it: gen
\* tells the objects created for the same room apart.
NewRoom(gen, pub, map) ==
  [gen |-> gen, pub |-> pub, published |-> FALSE, z |-> FALSE, changed |-> FALSE,
   map |-> map, data |-> FALSE]

\* The message is compared with the rooms there are; a thread is started for the
\* others.  The future of an earlier thread is waited for when it is replaced.
\* Rooms no longer listed get is_active = false, which nothing reads.
onEnvironmentUpdate(E) ==
  LET rooms_to_create == E \ DOMAIN rooms IN
  /\ exec = "idle" /\ node_state # "cleaned" /\ messages < MaxMessages
  /\ messages' = messages + 1
  /\ deferred' = IF rooms_to_create = {} THEN deferred
                 ELSE deferred \cup {[id |-> messages', rooms |-> rooms_to_create]}
  /\ exec' = IF rooms_to_create # {} /\ deferred # {} THEN "blocked" ELSE "idle"
  /\ UNCHANGED <<nodeVars, rooms, floors, current_room, work, item, affected, zrequests,
                 reader, faults>>

FutureAssigned ==
  /\ exec = "blocked"
  /\ \A d \in deferred : d.id = messages
  /\ exec' = "idle"
  /\ UNCHANGED <<nodeVars, rooms, floors, current_room, work, item, affected, zrequests,
                 deferred, reader, messages, faults>>

\* All rooms made are inserted under one lock, over an older object if there is one;
\* the map subscription is older, so some rooms (mapped) have their map already.
Inserted(made, mapped) ==
  [r \in DOMAIN rooms \cup made |->
     IF r \in made
     THEN NewRoom(IF r \in DOMAIN rooms THEN rooms[r].gen + 1 ELSE 1, node_state = "active",
                  r \in mapped)
     ELSE rooms[r]]

createRoomCostmapsDeferred(d) ==
  /\ d \in deferred /\ Exclusive
  /\ deferred' = deferred \ {d}
  /\ \E made \in SUBSET d.rooms :
       /\ faults' = faults + Cardinality(d.rooms \ made) /\ faults' <= MaxFaults
       /\ \E mapped \in SUBSET made : rooms' = Inserted(made, mapped)
  /\ UNCHANGED <<nodeVars, floors, current_room, execVars, zrequests, reader, messages>>

\* The map of a room is delivered; the callback waits for the mutex of the grid.
MapArrives(r) ==
  /\ exec = "idle" /\ node_state # "cleaned"
  /\ r \in DOMAIN rooms /\ ~rooms[r].map
  /\ exec' = "map" /\ item' = <<r, rooms[r].gen>>
  /\ UNCHANGED <<nodeVars, rooms, floors, current_room, work, affected, zrequests, deferred,
                 reader, messages, faults>>

\* StaticLayer::incomingMap: the grid is resized, which blanks it.
incomingMap ==
  /\ exec = "map" /\ GridFree(item)
  /\ rooms' = IF rooms[item[1]].gen = item[2]
              THEN [rooms EXCEPT ![item[1]].map = TRUE, ![item[1]].data = FALSE]
              ELSE rooms
  /\ exec' = "idle"
  /\ UNCHANGED <<nodeVars, floors, current_room, work, item, affected, zrequests, deferred,
                 reader, messages, faults>>

onCurrentRoomUpdate(r) ==
  /\ exec = "idle" /\ node_state # "cleaned" /\ Exclusive
  /\ current_room # r
  /\ current_room' = r
  /\ UNCHANGED <<nodeVars, rooms, floors, execVars, zrequests, deferred, reader, messages,
                 faults>>

-----------------------------------------------------------------------------
(* updateCurrentRoomMap, the room timer *)

\* First pass, collecting under the lock; the z requests are sent right after.
CollectRooms ==
  /\ exec = "idle" /\ timers /\ ~shutting_down
  /\ work' = {<<r, rooms[r].gen>> :
                r \in {r \in DOMAIN rooms : rooms[r].map /\ rooms[r].z /\ ~rooms[r].published}}
  /\ zrequests' = zrequests \cup {r \in DOMAIN rooms : rooms[r].map /\ ~rooms[r].z}
  /\ exec' = "publish"
  /\ UNCHANGED <<nodeVars, rooms, floors, current_room, item, affected, deferred, reader,
                 messages, faults>>

\* The answer to get_min_z is delivered; the callback waits for costmap_mutex_.
MinZArrives(r) ==
  /\ exec = "idle" /\ node_state # "cleaned" /\ r \in zrequests
  /\ zrequests' = zrequests \ {r}
  /\ exec' = "z" /\ item' = <<r, rooms[r].gen>>
  /\ UNCHANGED <<nodeVars, rooms, floors, current_room, work, affected, deferred, reader,
                 messages, faults>>

MinZResponse ==
  /\ exec = "z"
  /\ IF shutting_down THEN UNCHANGED rooms
     ELSE Exclusive /\ rooms' = [rooms EXCEPT ![item[1]].z = TRUE]
  /\ exec' = "idle"
  /\ UNCHANGED <<nodeVars, floors, current_room, work, item, affected, zrequests, deferred,
                 reader, messages, faults>>

\* The service is not there, or refuses: the next tick asks again.
MinZFails(r) ==
  /\ exec = "idle" /\ node_state # "cleaned" /\ r \in zrequests
  /\ faults < MaxFaults /\ faults' = faults + 1
  /\ zrequests' = zrequests \ {r}
  /\ UNCHANGED <<nodeVars, rooms, floors, current_room, execVars, deferred, reader, messages>>

\* LayeredCostmap::updateMap on the object held for a room, which may no longer be
\* the one the room has.
updateMap(w) ==
  [rooms EXCEPT ![w[1]].data = @ \/ (rooms[w[1]].gen = w[2] /\ rooms[w[1]].map)]

\* Mistake: the floor timer is not told.
publishCostmapQuietly(r) == rooms

\* publishCostmap looks the room up by name, without the lock; it returns early
\* when the publisher is not activated.
publishCostmap(r) == [rooms EXCEPT ![r].changed = @ \/ rooms[r].pub]

\* The loop over rooms_to_publish; costmap_mutex_ is not held.
PublishRoom ==
  /\ exec = "publish"
  /\ IF shutting_down
     THEN exec' = "idle" /\ work' = {} /\ UNCHANGED <<rooms, item>>
     ELSE IF work = {}
     THEN exec' = "current" /\ UNCHANGED <<rooms, work, item>>
     ELSE \E w \in work :
            /\ GridFree(w)
            /\ rooms' = updateMap(w)
            /\ work' = work \ {w} /\ item' = w
            /\ exec' = "publishing"
  /\ UNCHANGED <<nodeVars, floors, current_room, affected, zrequests, deferred, reader,
                 messages, faults>>

\* The executor is in publishCostmap, called from the first or the second pass.
PublishGrid ==
  /\ exec \in {"publishing", "publishing_current"}
  /\ rooms' = publishCostmap(item[1])
  /\ exec' = IF exec = "publishing" THEN "mark" ELSE "idle"
  /\ UNCHANGED <<nodeVars, floors, current_room, work, item, affected, zrequests, deferred,
                 reader, messages, faults>>

MarkPublished ==
  /\ exec = "mark" /\ Exclusive
  /\ rooms' = [rooms EXCEPT ![item[1]].published = TRUE]
  /\ exec' = "publish"
  /\ UNCHANGED <<nodeVars, floors, current_room, work, item, affected, zrequests, deferred,
                 reader, messages, faults>>

\* Second pass: the current room is looked up under the lock ...
LookUpCurrent ==
  /\ exec = "current"
  /\ IF shutting_down \/ current_room \notin DOMAIN rooms
     THEN exec' = "idle" /\ UNCHANGED item
     ELSE exec' = "update" /\ item' = <<current_room, rooms[current_room].gen>>
  /\ UNCHANGED <<nodeVars, rooms, floors, current_room, work, affected, zrequests, deferred,
                 reader, messages, faults>>

\* ... and updated and published without it, if the robot's pose is known.
UpdateCurrent ==
  /\ exec = "update"
  /\ \/ exec' = "idle" /\ UNCHANGED rooms
     \/ GridFree(item) /\ exec' = "publishing_current" /\ rooms' = updateMap(item)
  /\ UNCHANGED <<nodeVars, floors, current_room, work, item, affected, zrequests, deferred,
                 reader, messages, faults>>

-----------------------------------------------------------------------------
(* updateFloorCostmaps, the floor timer *)

\* The marks of changed rooms are collected and cleared.
CollectChanged ==
  /\ exec = "idle" /\ timers /\ ~shutting_down
  /\ affected' = {r \in DOMAIN rooms : rooms[r].changed}
  /\ affected' # {}
  /\ rooms' = [r \in DOMAIN rooms |-> [rooms[r] EXCEPT !.changed = FALSE]]
  /\ exec' = "floors"
  /\ UNCHANGED <<nodeVars, floors, current_room, work, item, zrequests, deferred, reader,
                 messages, faults>>

\* What getCostmapForFloor returns a costmap for.
Valid(f) == f \in DOMAIN floors /\ floors[f].valid

\* Mistake: a room the floor has no region for is skipped.
UpdateRegionSkips(r) ==
  IF RoomReady(r) THEN [floors EXCEPT ![FloorOf[r]].blank = @ \ {r}] ELSE floors

\* updateFloorCostmapRegion: a room the floor has no region for invalidates it.
UpdateRegion(r) ==
  IF ~RoomReady(r) THEN floors
  ELSE IF r \in floors[FloorOf[r]].regions
       THEN [floors EXCEPT ![FloorOf[r]].blank = @ \ {r}]
       ELSE [floors EXCEPT ![FloorOf[r]].valid = FALSE]

UpdateFloor ==
  /\ exec = "floors"
  /\ \E r \in affected :
       /\ Valid(FloorOf[r])
       /\ RoomReady(r) => FloorsExclusive
       /\ floors' = UpdateRegion(r)
       /\ affected' = affected \ {r}
  /\ UNCHANGED <<nodeVars, rooms, current_room, exec, work, item, zrequests, deferred, reader,
                 messages, faults>>

\* createFloorCostmap up to the end of the validation: a floor that has an entry is
\* left alone, and all rooms of the floor must be ready.
MayCreate(f) == f \notin DOMAIN floors /\ \A r \in On(f) : RoomReady(r)

ValidateFloor ==
  /\ exec = "floors"
  /\ \E f \in {FloorOf[r] : r \in affected} :
       /\ ~Valid(f)
       /\ affected' = {r \in affected : FloorOf[r] # f}
       /\ IF MayCreate(f)
          THEN exec' = "create" /\ work' = {<<r, rooms[r].gen>> : r \in On(f)}
          ELSE UNCHANGED <<exec, work>>
  /\ UNCHANGED <<nodeVars, rooms, floors, current_room, item, zrequests, deferred, reader,
                 messages, faults>>

\* The rest of it: the grids are copied under a second lock, merged and cached.  A room
\* whose cells, rounded to the floor's, reach beyond the floor is merged but gets no
\* region ("Skip this room to prevent corruption").
CreateFloor ==
  /\ exec = "create" /\ FloorsExclusive
  /\ LET rs == {w[1] : w \in work}
         f == CHOOSE f \in Floors : \E r \in rs : FloorOf[r] = f
         entry(fits) == [valid |-> TRUE, regions |-> fits, outside |-> rs \ fits,
                         blank |-> {r \in rs : ~rooms[r].data}]
     IN \E fits \in SUBSET rs :
          /\ faults' = faults + Cardinality(rs \ fits) /\ faults' <= MaxFaults
          /\ floors' = [x \in DOMAIN floors \cup {f} |->
                          IF x = f THEN entry(fits) ELSE floors[x]]
  /\ work' = {}
  /\ exec' = "floors"
  /\ UNCHANGED <<nodeVars, rooms, current_room, item, affected, zrequests, deferred, reader,
                 messages>>

\* The affected floors are published.
FloorsDone ==
  /\ exec = "floors" /\ affected = {}
  /\ exec' = "idle"
  /\ UNCHANGED <<nodeVars, rooms, floors, current_room, work, item, affected, zrequests,
                 deferred, reader, messages, faults>>

-----------------------------------------------------------------------------
(* Lifecycle thread *)

ActivateBegin ==
  /\ node_state = "inactive"
  /\ node_state' = "activating"
  /\ shutting_down' = FALSE
  /\ UNCHANGED <<timers, stops, rooms, floors, current_room, execVars, zrequests,
                 deferred, reader, messages, faults>>

SetPublishers(on) == [r \in DOMAIN rooms |-> [rooms[r] EXCEPT !.pub = on]]

\* The body of on_activate under the lock, once there are rooms or the wait is over.
ActivateBody ==
  /\ node_state = "activating" /\ Exclusive
  /\ DOMAIN rooms # {} \/ ActivationTimeout
  /\ rooms' = SetPublishers(TRUE)
  /\ timers' = TRUE
  /\ node_state' = "activated"
  /\ UNCHANGED <<shutting_down, stops, floors, current_room, execVars, zrequests,
                 deferred, reader, messages, faults>>

\* The state machine of the node leaves the transition after the callback.
TransitionEnd ==
  /\ node_state \in {"activated", "deactivated"}
  /\ node_state' = IF node_state = "activated" THEN "active" ELSE "inactive"
  /\ UNCHANGED <<shutting_down, timers, stops, rooms, floors, current_room, execVars,
                 zrequests, deferred, reader, messages, faults>>

CostmapDeactivateBegin ==
  /\ node_state = "active" /\ stops < MaxStops
  /\ stops' = stops + 1
  /\ node_state' = "deactivating"
  /\ timers' = FALSE
  /\ shutting_down' = TRUE
  /\ UNCHANGED <<rooms, floors, current_room, execVars, zrequests, deferred, reader, messages,
                 faults>>

DeactivateBody ==
  /\ node_state = "deactivating" /\ Exclusive
  /\ rooms' = SetPublishers(FALSE)
  /\ node_state' = "deactivated"
  /\ UNCHANGED <<shutting_down, timers, stops, floors, current_room, execVars,
                 zrequests, deferred, reader, messages, faults>>

\* Costmap2DROS::on_cleanup joins the executor thread; the floor cache is kept.
on_cleanup ==
  /\ node_state = "inactive" /\ exec = "idle" /\ Exclusive
  /\ node_state' = "cleaned"
  /\ shutting_down' = TRUE
  /\ rooms' = [r \in {} |-> NewRoom(1, FALSE, FALSE)]
  /\ UNCHANGED <<timers, stops, floors, current_room, execVars, zrequests, deferred,
                 reader, messages, faults>>

-----------------------------------------------------------------------------
(* Room planner thread: computePlanInRoom from the locks to their release *)

PlanBegin(x) ==
  /\ reader = NoRoom /\ node_state = "active"
  /\ x \in DOMAIN rooms \/ Valid(x)
  /\ reader' = x
  /\ UNCHANGED <<nodeVars, rooms, floors, current_room, execVars, zrequests, deferred,
                 messages, faults>>

PlanEnd ==
  /\ reader # NoRoom
  /\ reader' = NoRoom
  /\ UNCHANGED <<nodeVars, rooms, floors, current_room, execVars, zrequests, deferred,
                 messages, faults>>

-----------------------------------------------------------------------------
CostmapInit ==
  /\ node_state = "inactive" /\ shutting_down = FALSE /\ timers = FALSE /\ stops = 0
  /\ rooms = [r \in {} |-> NewRoom(1, FALSE, FALSE)]
  /\ floors = [f \in {} |-> [valid |-> FALSE, regions |-> {}, outside |-> {}, blank |-> {}]]
  /\ current_room = NoRoom
  /\ exec = "idle" /\ work = {} /\ item = <<NoRoom, 0>> /\ affected = {}
  /\ zrequests = {} /\ deferred = {} /\ reader = NoRoom
  /\ messages = 0 /\ faults = 0

\* What the executor goes on with by itself once a callback has begun.
InCallback ==
  \/ FutureAssigned \/ incomingMap \/ MinZResponse \/ PublishRoom \/ PublishGrid
  \/ MarkPublished \/ LookUpCurrent \/ UpdateCurrent
  \/ UpdateFloor \/ ValidateFloor \/ CreateFloor \/ FloorsDone

CostmapLifecycleNext ==
  \/ ActivateBegin \/ ActivateBody \/ TransitionEnd
  \/ CostmapDeactivateBegin \/ DeactivateBody \/ on_cleanup

PlannerNext == (\E x \in Planned : PlanBegin(x)) \/ PlanEnd

CostmapNext ==
  \/ \E E \in Environments : onEnvironmentUpdate(E)
  \/ \E r \in Rooms : MapArrives(r) \/ MinZArrives(r) \/ MinZFails(r)
  \/ \E r \in Tracked : onCurrentRoomUpdate(r)
  \/ CollectRooms \/ CollectChanged \/ InCallback
  \/ \E d \in deferred : createRoomCostmapsDeferred(d)
  \/ CostmapLifecycleNext \/ PlannerNext

CostmapSpec == CostmapInit /\ [][CostmapNext]_costmapVars

-----------------------------------------------------------------------------
(* Properties *)

RoomRecords == [gen : 1..MaxMessages, pub : BOOLEAN, published : BOOLEAN, z : BOOLEAN,
                changed : BOOLEAN, map : BOOLEAN, data : BOOLEAN]
Held == Rooms \X (1..MaxMessages)

\* Type correctness; a room's grid has data only once its map is there.
CostmapTypeOK ==
  /\ node_state \in {"inactive", "activating", "activated", "active", "deactivating",
                    "deactivated", "cleaned"}
  /\ shutting_down \in BOOLEAN /\ timers \in BOOLEAN
  /\ DOMAIN rooms \subseteq Rooms
  /\ \A r \in DOMAIN rooms : rooms[r] \in RoomRecords /\ (rooms[r].data => rooms[r].map)
  /\ DOMAIN floors \subseteq Floors
  /\ \A f \in DOMAIN floors :
       floors[f] \in [valid : BOOLEAN, regions : SUBSET Rooms, outside : SUBSET Rooms,
                      blank : SUBSET Rooms]
  /\ current_room \in Rooms \cup {NoRoom} /\ reader \in Rooms \cup Floors \cup {NoRoom}
  /\ exec \in {"idle", "blocked", "map", "z", "publish", "publishing", "mark", "current", "update",
               "publishing_current", "floors", "create"}
  /\ work \subseteq Held /\ item \in Held \cup {<<NoRoom, 0>>}
  /\ affected \subseteq Rooms /\ zrequests \subseteq Rooms
  /\ deferred \subseteq [id : 1..MaxMessages, rooms : SUBSET Rooms]
  /\ messages \in 0..MaxMessages /\ faults \in 0..MaxFaults
  /\ stops \in 0..MaxStops

\* A node that is not active publishes no room: createRoomCostmapsDeferred looks at
\* the state of the node under the lock that on_deactivate takes, so a room created
\* during a deactivation is not left with an active publisher.
InactivePublishesNothing ==
  node_state \in {"deactivated", "inactive", "cleaned"} => \A r \in DOMAIN rooms : ~rooms[r].pub

\* A floor costmap that is served has been merged from the map of every room it
\* covers, none from the blank grid a room starts with ("Check that ALL rooms on
\* floor are ready before creating"), unless the room was created a second time.
FloorHasRealData ==
  \A f \in Floors : Valid(f) /\ node_state # "cleaned" =>
    \A r \in floors[f].blank : rooms[r].gen > 1

\* A floor costmap that is served lacks no room that has been published, unless
\* the room is marked for, or in the middle of, the next floor update: the marks
\* that updateFloorCostmaps clears are not lost (until the first deactivation, which
\* ends a running update).
NoStaleFloor ==
  \A f \in Floors : Valid(f) /\ stops = 0 =>
    \A r \in On(f) : rooms[r].pub /\ rooms[r].data =>
      \/ r \in floors[f].regions \cup floors[f].outside
      \/ rooms[r].changed \/ r \in affected
      \/ exec \in {"publishing", "publishing_current"} /\ item[1] = r

\* What keeps a floor that has no costmap yet from getting one: the node is stopped (a
\* room that was published before is not published again), a room of the floor replaced
\* another one (which may have been published in its place), or was inserted between the
\* body of on_activate and the end of the transition, so that its publisher stays off.
FloorMissed(f) ==
  \/ node_state = "cleaned" \/ stops > 0
  \/ \E r \in On(f) : \/ rooms[r].gen > 1
                      \/ ~rooms[r].pub /\ node_state \in {"activated", "active"}

\* A floor that has rooms and no costmap is served in the end, unless it is missed ("It
\* will be created asynchronously by updateFloorCostmaps timer").  A floor that has one
\* stops being served for good when a room that has no region in it is updated, one that
\* was added later or did not fit (FloorRegenerated, which does not hold).
FloorServed ==
  \A f \in Floors : (On(f) # {} /\ f \notin DOMAIN floors) ~> (Valid(f) \/ FloorMissed(f))

\* A floor costmap marked as invalid is generated again, unless the node is cleaned
\* up (is_valid is "False if needs regeneration").
\* It does not hold: README, Disagreements.
FloorRegenerated ==
  \A f \in Floors : (f \in DOMAIN floors /\ ~Valid(f)) ~> (Valid(f) \/ node_state = "cleaned")

\* The grid the planner plans on, of a room or of a floor, does not change under it
\* ("Multiple planners can read concurrently (shared locks), but updates are
\* blocked"): neither a map that arrives, nor the timers, nor a room created anew.
UpdatesBlockedWhilePlanning ==
  [][reader # NoRoom /\ reader' = reader =>
       IF reader \in Floors THEN floors'[reader] = floors[reader]
       ELSE /\ rooms'[reader].gen = rooms[reader].gen
            /\ rooms'[reader].map = rooms[reader].map
            /\ rooms'[reader].data = rooms[reader].data]_costmapVars

=============================================================================
