----------------------------- MODULE Costmap2D ------------------------------
(***************************************************************************)
(* The costmap node, the layers it updates, the topics on which its        *)
(* costmap is copied, single layers and filters, and the buffer of         *)
(* observations that layers take their data from.                          *)
(***************************************************************************)
EXTENDS Component, Integers, FiniteSetsExt, Sequences, FiniteSets, SequencesExt

-----------------------------------------------------------------------------
(***************************************************************************)
(* nav2_costmap_2d::Costmap2DROS: the lifecycle thread, the thread of      *)
(* mapUpdateLoop, the parameter callback and a caller of pause and resume. *)
(*                                                                         *)
(*   at          lifecycle state, or the place inside a transition         *)
(*   loop        place of the update thread ("none": not running)          *)
(*   stopped, stop_updates, initialized, shutdown   the members            *)
(*   frequency   map_update_frequency_ is not zero                         *)
(*   pose        getRobotPose succeeds                                     *)
(*   pubs        the publishers are active                                 *)
(*   locked      the size of the map is locked by the static layer         *)
(*   caller      "runs", "paused" or "resuming": the user of pause         *)
(*   fresh       an update has completed since updates were switched on    *)
(*   late        initialized was set by an update switched off meanwhile   *)
(***************************************************************************)

CostmapNodes == {"costmap_2d_ros"}

CostmapNodeInit ==
  [at : {"unconfigured"}, loop : {"none"}, stopped : {TRUE}, stop_updates : {FALSE},
   initialized : {FALSE}, shutdown : {FALSE}, frequency : BOOLEAN, pose : BOOLEAN, pubs : {FALSE},
   locked : {FALSE}, caller : {"runs"}, fresh : {FALSE}, late : {FALSE}]

\* on_configure: a plugin that cannot be loaded fails it.
Cr_on_configure ==
  /\ In(CostmapNodes, "unconfigured")
  /\ \E next \in {"unconfigured", "inactive"}, b \in BOOLEAN :
       Become([st EXCEPT !.at = next, !.locked = b])

\* on_activate: no transform within initial_transform_timeout_ fails it; otherwise the
\* update thread starts, and returns at once when the frequency is zero.
Cr_on_activate ==
  /\ In(CostmapNodes, "inactive")
  /\ st.pose
  /\ Become([st EXCEPT !.at = "start", !.pubs = TRUE, !.stopped = TRUE, !.stop_updates = FALSE,
               !.shutdown = FALSE, !.loop = IF st.frequency THEN "top" ELSE "none"])

\* start: activates the layers, then waits for initialized_.
Cr_start ==
  /\ In(CostmapNodes, "start")
  /\ Become([st EXCEPT !.at = "waiting", !.stopped = FALSE, !.stop_updates = FALSE, !.fresh = FALSE])
Cr_started ==
  /\ In(CostmapNodes, "waiting")
  /\ st.initialized
  /\ Become([st EXCEPT !.at = "active"])

\* on_deactivate: stop, then the thread is told to end and is joined.
Cr_stop ==
  \/ In(CostmapNodes, "active") /\ Become([st EXCEPT !.at = "stop", !.stop_updates = TRUE])
  \/ /\ In(CostmapNodes, "stop")
     /\ Become([st EXCEPT !.at = "join", !.initialized = FALSE, !.late = FALSE, !.stopped = TRUE,
                  !.shutdown = TRUE])
Cr_on_deactivate ==
  /\ In(CostmapNodes, "join")
  /\ st.loop = "none"
  /\ Become([st EXCEPT !.at = "inactive", !.pubs = FALSE, !.caller = "runs"])
Cr_on_cleanup == In(CostmapNodes, "inactive") /\ Become([st EXCEPT !.at = "unconfigured"])

\* pause and resume, from another thread of an active node.
Cr_pause ==
  /\ In(CostmapNodes, "active")
  /\ st.caller = "runs"
  /\ Become([st EXCEPT !.caller = "paused", !.stop_updates = TRUE, !.initialized = FALSE, !.late = FALSE])
Cr_resume ==
  /\ part \in CostmapNodes
  /\ \/ /\ st.at = "active" /\ st.caller = "paused"
        /\ Become([st EXCEPT !.caller = "resuming", !.stop_updates = FALSE, !.fresh = FALSE])
     \/ st.caller = "resuming" /\ st.initialized /\ Become([st EXCEPT !.caller = "runs"])

\* updateMap: the test of stop_updates_ and what follows it, LayeredCostmap::updateMap included.
UpdateMapTest(next) ==
  Become([st EXCEPT !.loop = IF ~st.stop_updates /\ st.pose THEN "updating" ELSE next])
UpdateMapDone(s) ==
  [s EXCEPT !.initialized = TRUE, !.fresh = @ \/ ~s.stop_updates, !.late = s.stop_updates]

\* mapUpdateLoop: one step per access to the shared members.
Cr_mapUpdateLoop ==
  /\ part \in CostmapNodes
  /\ \/ st.loop = "top" /\ st.shutdown /\ Become([st EXCEPT !.loop = "none"])
     \/ st.loop = "top" /\ ~st.shutdown /\ ~st.stopped /\ Become([st EXCEPT !.loop = "update"])
     \/ st.loop = "update" /\ UpdateMapTest("publish")
     \/ st.loop = "updating" /\ Become([UpdateMapDone(st) EXCEPT !.loop = "publish"])
     \/ st.loop = "publish" /\ Become([st EXCEPT !.loop = "top"])

\* dynamicParametersCallback: a new size calls updateMap, under the mutex the loop holds
\* from its test of stopped_ to the end of its publishing.
Cr_dynamicParameters ==
  /\ In(CostmapNodes, "active")
  /\ st.loop \in {"none", "top"}
  /\ ~st.locked /\ ~st.stop_updates /\ st.pose
  /\ Become(UpdateMapDone(st))

\* getRobotPose: the transform comes and goes.
Cr_getRobotPose == part \in CostmapNodes /\ Become([st EXCEPT !.pose = ~@])

CostmapNodeNext ==
  \/ Cr_on_configure \/ Cr_on_activate \/ Cr_start \/ Cr_started \/ Cr_stop \/ Cr_on_deactivate
  \/ Cr_on_cleanup \/ Cr_pause \/ Cr_resume \/ Cr_mapUpdateLoop \/ Cr_dynamicParameters
  \/ Cr_getRobotPose

-----------------------------------------------------------------------------
\* "block until the costmap is re-initialized.. meaning one update cycle has run"
\* (start): an activated costmap has been updated since it was started.
\* It does not hold: README, Disagreements.
StartedIsUpdated == part \in CostmapNodes /\ st.at = "active" /\ st.caller = "runs" => st.fresh

\* The same, but for the one case in which the code breaks it: an update that was under
\* way when stop or pause cleared initialized_ and set it again afterwards.
StartedIsUpdatedOrLate ==
  part \in CostmapNodes /\ st.at = "active" /\ st.caller = "runs" => st.fresh \/ st.late

\* The update thread publishes only on active publishers: on_deactivate joins it first.
PublishesWhileActive == part \in CostmapNodes /\ st.loop = "publish" => st.pubs

\* A start ends when the robot can be located and the update frequency is not zero.
StartWaits == part \in CostmapNodes /\ st.at = "waiting" /\ st.frequency
StartEnds == part \in CostmapNodes /\ (st.at = "active" \/ ~st.pose)

-----------------------------------------------------------------------------
(***************************************************************************)
(* nav2_costmap_2d::LayeredCostmap with a static, an obstacle and an       *)
(* inflation layer and a keepout filter, over one row of cells.  A cost is *)
(* the byte of the code; a window is a set of cells, empty for the bounds  *)
(* (max, lowest) that updateMap starts from.  The costmap does not roll,   *)
(* and a mask has its frame and its resolution, but may lie anywhere.      *)
(*                                                                         *)
(*   map, buffer, received  StaticLayer::costmap_, map_buffer_, map_received_ *)
(*   obstacles       ObstacleLayer::costmap_                               *)
(*   scan            the observation in its buffer: the cell hit (None: a  *)
(*                   reading beyond the range, Nothing: no observation)    *)
(*   recent          ObservationBuffer::isCurrent                          *)
(*   mask            KeepoutFilter::filter_mask_ (Nothing: null)           *)
(*   updated         the layers whose has_updated_data_ is set             *)
(*   extra           the layers with extra bounds (always the whole map)   *)
(*   enabled, current, was_reset   the layers these members are TRUE in    *)
(*   last, reinflate InflationLayer::last_min_x_.., need_reinflation_      *)
(*   primary, combined   the two costmaps                                  *)
(*   stale           something has changed outside every window since (see *)
(*                   UpdateIsComplete)                                     *)
(***************************************************************************)

CONSTANTS
  LcCells,    \* number of cells of the row
  LcMaps,     \* the maps a map server sends: functions from cells to costs
  LcMasks,    \* the keepout masks: functions from the cells they lie on to costs
  LcHits,     \* the cells an observation may hit
  LcInputs    \* bound on the messages, requests and parameter changes of a behaviour

ASSUME LayeredCostmapAssumption == LcCells \in Nat /\ LcCells >= 3 /\ LcInputs \in Nat

LayeredCostmaps == {"layered_costmap"}
Row == 0 .. LcCells - 1
FREE_SPACE == 0
INSCRIBED_INFLATED_OBSTACLE == 253
LETHAL_OBSTACLE == 254
NO_INFORMATION == 255
Nothing == <<>>
None == -1
Robot == 0          \* the robot and its sensor stand in the first cell
Radius == 1         \* cell_inflation_radius_
Plugins == {"static", "obstacle", "inflation"}

Hull(w) == IF w = {} THEN {} ELSE Min(w) .. Max(w)
Larger(a, b) == IF a > b THEN a ELSE b
Reset(grid, w) == [c \in Row |-> IF c \in w THEN NO_INFORMATION ELSE grid[c]]

-----------------------------------------------------------------------------
\* CostmapLayer: the ways of merging a layer into the master within a window.
updateWithTrueOverwrite(master, layer, w) == [c \in Row |-> IF c \in w THEN layer[c] ELSE master[c]]
updateWithMax(master, layer, w) ==
  [c \in Row |-> IF c \in w /\ layer[c] # NO_INFORMATION
                      /\ (master[c] = NO_INFORMATION \/ master[c] < layer[c])
                 THEN layer[c] ELSE master[c]]

\* InflationLayer::computeCost, decreasing with the distance, and updateCosts: the sources are
\* the lethal cells of the window and of Radius cells around it, the window alone is written.
computeCost(d) == IF d = 0 THEN LETHAL_OBSTACLE ELSE 100 - d
Distance(a, b) == Larger(a - b, b - a)
Around(w) == {c \in Row : \E x \in w : Distance(c, x) <= Radius}
inflate(master, w) ==
  LET sources == {c \in Around(w) : master[c] = LETHAL_OBSTACLE}
      reached(c) == {s \in sources : Distance(c, s) <= Radius}
      cost(c) == computeCost(Min({Distance(c, s) : s \in reached(c)})) IN
  [c \in Row |-> IF c \notin w \/ reached(c) = {} THEN master[c]
                 ELSE IF master[c] = NO_INFORMATION
                      THEN IF cost(c) >= INSCRIBED_INFLATED_OBSTACLE THEN cost(c) ELSE NO_INFORMATION
                      ELSE Larger(master[c], cost(c))]

\* KeepoutFilter::process, without override_lethal_cost.
keepout(master, mask, w) ==
  [c \in Row |-> IF mask # Nothing /\ c \in w /\ c \in DOMAIN mask /\ mask[c] # NO_INFORMATION
                      /\ (mask[c] > master[c] \/ master[c] = NO_INFORMATION)
                 THEN mask[c] ELSE master[c]]

-----------------------------------------------------------------------------
LayeredCostmapInit ==
  [at : {"run"}, map : {[c \in Row |-> NO_INFORMATION]}, buffer : {Nothing}, received : {FALSE},
   obstacles : {[c \in Row |-> NO_INFORMATION]}, scan : {Nothing}, recent : {TRUE}, mask : {Nothing},
   updated : {{}}, extra : {{}}, enabled : {Plugins \cup {"keepout"}},
   current : {{"inflation"}}, was_reset : {FALSE}, last : {Row}, reinflate : {FALSE},
   primary : {[c \in Row |-> NO_INFORMATION]}, combined : {[c \in Row |-> NO_INFORMATION]}, stale : {FALSE},
   inputs : {0}]

Input(s) == st.inputs < LcInputs /\ Become([s EXCEPT !.inputs = @ + 1])

\* StaticLayer::incomingMap: the first map is used at once (the sizes are locked by it), a
\* later one is kept for updateBounds; incomingUpdate writes into the map directly.
Lc_incomingMap ==
  /\ In(LayeredCostmaps, "run")
  /\ \E m \in LcMaps :
       Input(IF ~st.received
              THEN [st EXCEPT !.map = m, !.received = TRUE, !.updated = @ \cup {"static"},
                      !.current = @ \cup {"static"}]
              ELSE [st EXCEPT !.buffer = m])
Lc_incomingUpdate ==
  /\ In(LayeredCostmaps, "run")
  /\ st.received
  /\ \E c \in LcHits : Input([st EXCEPT !.map[c] = FREE_SPACE, !.updated = @ \cup {"static"}])

\* ObservationBuffer::bufferCloud and the time that passes until it is no longer current.
Lc_bufferCloud ==
  /\ In(LayeredCostmaps, "run")
  /\ \E h \in LcHits \cup {None} : Input([st EXCEPT !.scan = <<h>>, !.recent = TRUE])
Lc_time == In(LayeredCostmaps, "run") /\ Input([st EXCEPT !.recent = FALSE])

\* The bounds a new mask asks for: its own indexes, from 0 to its width, are taken for those
\* of the costmap.
maskWindow(m) == (0 .. Cardinality(DOMAIN m)) \cap Row

\* KeepoutFilter::maskCallback; outside these bounds the last mask stays and the new one is
\* not yet seen.
Lc_maskCallback ==
  /\ In(LayeredCostmaps, "run")
  /\ \E m \in LcMasks :
       Input([st EXCEPT !.mask = m, !.updated = @ \cup {"keepout"},
                 !.stale = @ \/ ~(DOMAIN st.mask \cup DOMAIN m \subseteq maskWindow(m))])

\* The "enabled" parameters, and enableCallback of the filter.  A change of the static and of
\* the inflation layer asks for a full window, one of the other two does not.
Lc_enable ==
  /\ In(LayeredCostmaps, "run")
  /\ \E l \in Plugins \cup {"keepout"} :
       LET e == IF l \in st.enabled THEN st.enabled \ {l} ELSE st.enabled \cup {l} IN
       Input([st EXCEPT !.enabled = e,
                 !.current = IF l = "keepout" THEN @ ELSE @ \ {l},
                 !.updated = IF l = "static" THEN @ \cup {l} ELSE @,
                 !.reinflate = @ \/ l = "inflation",
                 !.stale = @ \/ l \in {"obstacle", "keepout"}])

\* ClearCostmapService: clearArea on the obstacle layer, with the bounds of the whole map ...
Lc_clearRegion ==
  /\ In(LayeredCostmaps, "run")
  /\ \E area \in {{0, 1}, Row \ {0, 1}} :
       Input([st EXCEPT !.obstacles = Reset(@, area), !.current = @ \ {"obstacle"},
                 !.extra = @ \cup {"obstacle"}])
\* ... and clearEntirely: resetLayers, with the reset of every layer and of the filter.
Lc_clearEntirely ==
  /\ In(LayeredCostmaps, "run")
  /\ Input([st EXCEPT !.combined = Reset(@, Row), !.updated = @ \cup {"static"},
               !.obstacles = Reset(@, Row), !.recent = TRUE, !.was_reset = TRUE,
               !.current = {}, !.reinflate = TRUE])

-----------------------------------------------------------------------------
(* One cycle of LayeredCostmap::updateMap.  Bounds of the layers, in order: *)

\* StaticLayer::updateBounds, with processMap for a map that was kept.
staticMap == IF st.received /\ st.buffer # Nothing THEN st.buffer ELSE st.map
staticBounds == IF st.received /\ (st.buffer # Nothing \/ "static" \in st.updated) THEN Row ELSE {}

\* ObstacleLayer::raytraceFreespace and the marking of updateBounds: the cells up to the hit are
\* free, the hit is lethal; updateFootprint touches the cell of the robot.
Ray == IF st.scan = Nothing THEN {}
       ELSE IF st.scan[1] = None THEN Robot .. LcCells - 1 ELSE Robot .. st.scan[1]
obstacleMap ==
  IF "obstacle" \notin st.enabled THEN st.obstacles
  ELSE [c \in Row |-> IF st.scan = <<c>> THEN LETHAL_OBSTACLE
                      ELSE IF c \in Ray THEN FREE_SPACE ELSE st.obstacles[c]]
obstacleBounds ==
  IF "obstacle" \notin st.enabled THEN {}
  ELSE (IF "obstacle" \in st.extra THEN Row ELSE {}) \cup Ray \cup {Robot}

\* InflationLayer::updateBounds: everything after a change, otherwise this window and the last
\* one, grown by the radius.
\* Mistake: the window is not grown.
inflationBoundsTight(w) == IF st.reinflate THEN Row ELSE Hull(w \cup st.last)
inflationBounds(w) == IF st.reinflate THEN Row ELSE Around(Hull(w \cup st.last))

keepoutBounds ==
  IF "keepout" \in st.enabled /\ "keepout" \in st.updated THEN maskWindow(st.mask) ELSE {}

\* setConvexPolygonCost under the footprint, in ObstacleLayer::updateCosts.
footprintCleared(grid) == [grid EXCEPT ![Robot] = FREE_SPACE]

\* The updateCosts of the plugins, from the maps m and o of the first two, over a window.
Merge(master, m, o, w) ==
  LET s == IF "static" \in st.enabled /\ st.received THEN updateWithTrueOverwrite(master, m, w)
           ELSE master
      b == IF "obstacle" \in st.enabled THEN updateWithMax(s, o, w) ELSE s IN
  IF "inflation" \in st.enabled THEN inflate(b, w) ELSE b
Filter(master, w) == IF "keepout" \in st.enabled THEN keepout(master, st.mask, w) ELSE master

\* The layers that are current after the cycle: the obstacle layer if its observations are
\* recent, or if it was reset; every other layer that is enabled and has written its costs.
CurrentAfter(wrote) ==
  {l \in Plugins \cup {"keepout"} :
     IF l = "obstacle" THEN IF l \notin st.enabled THEN l \in st.current
                            ELSE st.recent \/ (wrote /\ st.was_reset)
     ELSE \/ l \in st.current
          \/ l = "static" /\ st.received /\ st.buffer # Nothing
          \/ wrote /\ l \in st.enabled /\ (l = "static" => st.received)}

Lc_updateMap ==
  /\ In(LayeredCostmaps, "run")
  /\ LET plugins == Hull(staticBounds \cup obstacleBounds)
         w == Hull(inflationBounds(plugins) \cup keepoutBounds)
         o == IF "obstacle" \in st.enabled /\ w # {} THEN footprintCleared(obstacleMap) ELSE obstacleMap
         p == Merge(Reset(st.primary, w), staticMap, o, w) IN
     Become([st EXCEPT
       !.map = staticMap, !.buffer = Nothing, !.obstacles = o,
       !.updated = {l \in @ : (l = "static" /\ ~st.received) \/ (l = "keepout" /\ l \notin st.enabled)},
       !.extra = IF "obstacle" \in st.enabled THEN {} ELSE @,
       !.last = IF st.reinflate THEN {} ELSE plugins,
       !.reinflate = FALSE,
       !.primary = p,
       !.combined = Filter(updateWithTrueOverwrite(@, p, w), w),
       !.current = CurrentAfter(w # {}),
       !.was_reset = @ /\ (w = {} \/ "obstacle" \notin st.enabled \/ st.recent),
       !.stale = @ /\ w # Row,
       !.at = "updated"])
Lc_read == In(LayeredCostmaps, "updated") /\ Become([st EXCEPT !.at = "run"])

LayeredCostmapNext ==
  \/ Lc_incomingMap \/ Lc_incomingUpdate \/ Lc_bufferCloud \/ Lc_time \/ Lc_maskCallback \/ Lc_enable
  \/ Lc_clearRegion \/ Lc_clearEntirely \/ Lc_updateMap \/ Lc_read

-----------------------------------------------------------------------------
\* Updating only a window gives what updating the whole map would give, however maps,
\* observations, masks, clearings and resets are interleaved.  Three operations leave old
\* costs outside the window until something else asks for the whole map: switching the
\* obstacle layer or the filter, and a mask that is smaller than the one it replaces or that
\* does not begin where the costmap does.
UpdateIsComplete ==
  part \in LayeredCostmaps /\ st.at = "updated" /\ ~st.stale =>
    LET p == Merge(Reset(st.primary, Row), st.map, st.obstacles, Row) IN
    st.primary = p /\ st.combined = Filter(p, Row)

\* A new mask is seen with the next update, wherever it lies.  It does not hold: README,
\* Disagreements.
MaskIsSeen ==
  part \in LayeredCostmaps /\ st.at = "updated" /\ "keepout" \in st.enabled =>
    \A c \in DOMAIN st.mask :
      st.mask[c] # NO_INFORMATION => st.combined[c] >= st.mask[c]

\* LayeredCostmap::isCurrent: a costmap that says it is current has the map in it, and its
\* observations are recent unless it was cleared since.
CurrentHasMap ==
  part \in LayeredCostmaps /\ st.enabled \subseteq st.current /\ "static" \in st.enabled => st.received

-----------------------------------------------------------------------------
(***************************************************************************)
(* A costmap sent to another process: Costmap2DPublisher on one side,      *)
(* CostmapSubscriber on the other, and two topics between them, a full map *)
(* (depth 1) and updates of a window.  Each topic keeps its order, nothing *)
(* orders one against the other.                                           *)
(*                                                                         *)
(*   map, moves      the costmap: a row of cells, and how often its origin *)
(*                   has moved                                             *)
(*   saved           saved_origin_x_, as the moves it was taken at (-1)    *)
(*   window          x0_ .. xn_ - 1                                        *)
(*   joined          get_subscription_count() > 0                          *)
(*   full, updates   the messages on their way                             *)
(*   msg, copy       costmap_msg_, costmap_ (Nobody: not received)         *)
(*   crossed         the last full map that an update passed on its way    *)
(*                   or was written into after another one, as moves       *)
(***************************************************************************)

CONSTANTS
  TpCells,    \* cells of the row
  TpMoves,    \* bound on the moves of the origin
  TpDepth     \* depth of the update topic

CostmapTopics == {"costmap_topic"}
TpRow == 0 .. TpCells - 1
Nobody == <<>>
Full(s) == [cells |-> s.map, moves |-> s.moves]

CostmapTopicInit ==
  [at : {"run"}, map : {[c \in TpRow |-> 0]}, moves : {0}, saved : {-1}, window : {{}}, joined : BOOLEAN,
   full : {Nobody}, updates : {<<>>}, msg : {Nobody}, copy : {Nobody}, crossed : {-1}]

\* A cycle of the costmap writes a cell, or moves the origin of a rolling window; updateBounds
\* of the publisher gets its window.
Tp_mapChanges ==
  /\ In(CostmapTopics, "run")
  /\ \/ \E c \in TpRow :
          Become([st EXCEPT !.map[c] = 1 - @, !.window = Min(@ \cup {c}) .. Max(@ \cup {c})])
     \/ /\ st.moves < TpMoves
        /\ Become([st EXCEPT !.moves = @ + 1, !.window = TpRow,
                     !.map = [c \in TpRow |-> IF c + 1 \in TpRow THEN @[c + 1] ELSE 0]])

\* publishCostmap: the full map when the origin has moved, otherwise the window; to nobody if
\* nobody has subscribed.
publishedWindow(s) ==
  [s EXCEPT !.updates = IF s.joined /\ s.window # {}
              THEN Append(@, [cells |-> [c \in s.window |-> s.map[c]], moves |-> s.moves]) ELSE @,
            !.window = {}]
Tp_publishCostmap ==
  /\ In(CostmapTopics, "run")
  /\ Len(st.updates) < TpDepth
  /\ Become(IF st.saved # st.moves
            THEN [st EXCEPT !.saved = st.moves, !.full = IF st.joined THEN Full(st) ELSE @, !.window = {}]
            ELSE publishedWindow(st))

Tp_subscribe == In(CostmapTopics, "run") /\ ~st.joined /\ Become([st EXCEPT !.joined = TRUE])

\* processCurrentCostmapMsg
processed(s) == [s EXCEPT !.copy = s.msg, !.msg = Nobody]

\* costmapCallback: the first map is taken at once, the others when they are needed.
Tp_costmapCallback ==
  /\ In(CostmapTopics, "run")
  /\ st.full # Nobody
  /\ LET s == [st EXCEPT !.msg = st.full, !.full = Nobody] IN
     Become(IF s.copy = Nobody THEN processed(s) ELSE s)

\* costmapUpdateCallback: dropped without a map, otherwise written over the last one.
Tp_costmapUpdateCallback ==
  /\ In(CostmapTopics, "run")
  /\ st.updates # <<>>
  /\ LET u == Head(st.updates)
         s == [st EXCEPT !.updates = Tail(@)]
         m == IF s.copy # Nobody /\ s.msg # Nobody THEN processed(s) ELSE s
         of == IF m.copy = Nobody THEN -1 ELSE m.copy.moves
         marked == [m EXCEPT !.crossed = IF u.moves = of THEN @ ELSE Max({@, u.moves, of})] IN
     Become(IF m.copy = Nobody THEN marked
            ELSE [marked EXCEPT !.copy.cells =
                    [c \in TpRow |-> IF c \in DOMAIN u.cells THEN u.cells[c] ELSE @[c]]])

\* getCostmap
Tp_getCostmap ==
  /\ In(CostmapTopics, "run")
  /\ st.copy # Nobody /\ st.msg # Nobody
  /\ Become(processed(st))

CostmapTopicNext ==
  \/ Tp_mapChanges \/ Tp_publishCostmap \/ Tp_subscribe \/ Tp_costmapCallback
  \/ Tp_costmapUpdateCallback \/ Tp_getCostmap

-----------------------------------------------------------------------------
\* When everything is published and delivered the copy is the costmap, although only windows
\* were sent: unless an update overtook, or was overtaken by, the full map it belongs to.
CopyIsCostmap ==
  /\ part \in CostmapTopics
  /\ st.window = {} /\ st.saved = st.moves /\ st.full = Nobody /\ st.updates = <<>> /\ st.msg = Nobody
  /\ st.copy # Nobody /\ st.copy.moves > st.crossed
  => st.copy = Full(st)

-----------------------------------------------------------------------------
(***************************************************************************)
(* The costmap filters that tell the rest of the system where the robot    *)
(* is: SpeedFilter and BinaryFilter, on CostmapFilter.  A place is what    *)
(* the mask holds under the robot: -1 (unknown), 0 (no limit) or a value;  *)
(* or Off (outside the mask), or Lost (no transform).                      *)
(*                                                                         *)
(*   info, mask_sub   filter_info_sub_, mask_sub_                          *)
(*   mask             filter_mask_ is set                                  *)
(*   scale            <<percentage_, multiplier_>> (base_ is 0)            *)
(*   value            speed_limit_ / binary_state_                         *)
(*   prev             speed_limit_prev_                                    *)
(*   told             what the subscribers of the topic were sent last     *)
(*   rescaled         the scale has changed since they were                *)
(***************************************************************************)

CONSTANTS FilterScales, FilterPlaces

SpeedFilters == {"speed_filter"}
BinaryFilters == {"binary_filter"}
Filters == SpeedFilters \cup BinaryFilters
NO_SPEED_LIMIT == 0
Unknown == -1
Off == -2
Lost == -3
flip_threshold == 50
FilterScaleDefault == <<FALSE, 1>>

\* BinaryFilter::binary_state_ starts as FALSE, whatever default_state_ is.
CostmapFilterInit ==
  [at : {"inactive"}, info : {FALSE}, mask_sub : {FALSE}, mask : {FALSE}, scale : {FilterScaleDefault},
   value : {0}, prev : {0}, told : {<<FALSE, 0>>}, rescaled : {FALSE}, enabled : {TRUE}, place : {Off},
   default_state : IF part \in BinaryFilters THEN {0, 1} ELSE {0}]

\* initializeFilter: new subscription and publisher, the default scale; the binary filter
\* publishes its state.
speedInitialized(s) ==
  [s EXCEPT !.at = "active", !.info = TRUE, !.scale = FilterScaleDefault,
     !.rescaled = @ \/ s.scale # FilterScaleDefault]
binaryInitialized(s) ==
  [s EXCEPT !.at = "active", !.info = TRUE, !.scale = FilterScaleDefault, !.told = <<FALSE, s.value>>]
initialized(s) == IF part \in BinaryFilters THEN binaryInitialized(s) ELSE speedInitialized(s)
\* resetFilter: the binary filter publishes its state; no subscriptions any more.  The mask and
\* the last value stay.
resetted(s) ==
  [s EXCEPT !.at = "inactive", !.info = FALSE, !.mask_sub = FALSE,
            !.told = IF part \in BinaryFilters THEN <<FALSE, s.value>> ELSE @]

Cf_activate == In(Filters, "inactive") /\ Become(initialized(st))
Cf_deactivate == In(Filters, "active") /\ Become(resetted(st))
Cf_reset == In(Filters, "active") /\ Become(initialized(resetted(st)))
Cf_enableCallback == In(Filters, "active") /\ Become([st EXCEPT !.enabled = ~@])

\* filterInfoCallback: the subscription to the old mask ends; a message of another type is
\* refused after that, for the speed filter also after its scale is taken.
speedFilterInfo(s, scale, ok) ==
  [s EXCEPT !.mask_sub = ok, !.scale = IF ok THEN scale ELSE <<@[1], scale[2]>>,
            !.rescaled = @ \/ (ok /\ s.scale[1] # scale[1])]
binaryFilterInfo(s, scale, ok) ==
  [s EXCEPT !.mask_sub = ok, !.scale = IF ok THEN scale ELSE @]
Cf_filterInfoCallback ==
  /\ In(Filters, "active")
  /\ st.info
  /\ \E scale \in FilterScales, ok \in BOOLEAN :
       Become(IF part \in SpeedFilters THEN speedFilterInfo(st, scale, ok) ELSE binaryFilterInfo(st, scale, ok))
Cf_maskCallback ==
  In(Filters, "active") /\ st.mask_sub /\ Become([st EXCEPT !.mask = TRUE])

Cf_robotMoves ==
  /\ In(Filters, "active")
  /\ \E p \in FilterPlaces : Become([st EXCEPT !.place = p])

-----------------------------------------------------------------------------
\* The limit of the mask under the robot: none for a value that makes no sense.
LimitAt(s) ==
  LET v == s.place * s.scale[2] IN
  IF s.place = 0 \/ v < 0 \/ (s.scale[1] /\ v > 100) THEN NO_SPEED_LIMIT ELSE v

\* The end of SpeedFilter::process: a limit is published when it differs from the last one.
publishedLimit(s, limit) ==
  IF limit = s.prev THEN [s EXCEPT !.value = limit]
  ELSE [s EXCEPT !.value = limit, !.prev = limit, !.told = <<s.scale[1], limit>>, !.rescaled = FALSE]

\* BinaryFilter::changeState, and the flips of process.
changeState(s, v) == [s EXCEPT !.value = v, !.told = <<FALSE, v>>]
Flipped(s) == s.place * s.scale[2] > flip_threshold
binaryProcessed(s) ==
  LET v == IF Flipped(s) THEN 1 - s.default_state ELSE s.default_state IN
  IF v = s.value THEN s ELSE changeState(s, v)

\* CostmapFilter::updateCosts with the process of each filter.  Off the mask the speed filter
\* changes nothing, the binary filter goes to its default state.
Cf_updateCosts ==
  /\ In(Filters, "active")
  /\ st.enabled
  /\ Become([(IF ~st.mask \/ st.place \in {Lost, Unknown} THEN st
              ELSE IF st.place = Off
              THEN IF part \in BinaryFilters THEN changeState(st, st.default_state) ELSE st
              ELSE IF part \in SpeedFilters THEN publishedLimit(st, LimitAt(st)) ELSE binaryProcessed(st))
             EXCEPT !.at = "processed"])
Cf_nextCycle == In(Filters, "processed") /\ Become([st EXCEPT !.at = "active"])

CostmapFilterNext ==
  \/ Cf_activate \/ Cf_deactivate \/ Cf_reset \/ Cf_enableCallback \/ Cf_filterInfoCallback
  \/ Cf_maskCallback \/ Cf_robotMoves \/ Cf_updateCosts \/ Cf_nextCycle

-----------------------------------------------------------------------------
\* After a cycle over a known place of the mask, what the subscribers were told last is what
\* the mask says there, whatever activations, resets and mask changes came before (the
\* publishers are silent when the value is the one of the cycle before).  One exception: a
\* limit whose number stays the same while its unit changes is not published again.
FilterToldTruth ==
  part \in Filters /\ st.at = "processed" /\ st.mask /\ st.place \notin {Off, Lost, Unknown} =>
    IF part \in SpeedFilters
    THEN st.told[2] = LimitAt(st) /\ (st.told[1] # st.scale[1] => st.rescaled \/ LimitAt(st) = NO_SPEED_LIMIT)
    ELSE st.told[2] = (IF Flipped(st) THEN 1 - st.default_state ELSE st.default_state)

-----------------------------------------------------------------------------
(***************************************************************************)
(* VoxelLayer over nav2_voxel_grid: a row of columns of voxels and the     *)
(* costs of the columns.  A column has two sets of bits, as the two halves *)
(* of its word: a voxel in both is marked, in the lower half alone it is   *)
(* unknown, in none it is free.                                            *)
(*                                                                         *)
(*   high, low   the halves of voxel_grid_'s words, per cell               *)
(*   cost        costmap_                                                  *)
(*   cut         the cells whose cost was overwritten without their voxels *)
(***************************************************************************)

CONSTANTS
  VxCells, VxLevels,     \* size of the grid
  VxMark, VxUnknown      \* mark_threshold_, unknown_threshold_

ASSUME VoxelLayerAssumption == VxCells \in Nat \ {0} /\ VxLevels \in 1 .. 16

VoxelLayers == {"voxel_layer"}
VxRow == 0 .. VxCells - 1
VxColumn == 0 .. VxLevels - 1
VxFree == 0
VxLethal == 254
VxNoInformation == 255

VoxelLayerInit ==
  [at : {"run"}, high : {[c \in VxRow |-> {}]}, low : {[c \in VxRow |-> VxColumn]},
   cost : {[c \in VxRow |-> VxNoInformation]}, cut : {{}}]

bitsBelowThreshold(bits, threshold) == Cardinality(bits) <= threshold
UnknownBits(s, c) == (s.low[c] \ s.high[c]) \cup (s.high[c] \ s.low[c])

\* markVoxelInMap, and the cost that updateBounds sets when it returns TRUE.
markVoxelInMap(s, v) ==
  LET m == [s EXCEPT !.high[v[1]] = @ \cup {v[2]}, !.low[v[1]] = @ \cup {v[2]}] IN
  IF bitsBelowThreshold(m.high[v[1]], VxMark) THEN m
  ELSE [m EXCEPT !.cost[v[1]] = VxLethal, !.cut = @ \ {v[1]}]

\* ClearVoxelInMap for the voxels of a ray.  A column may have several of them; bits are only
\* removed, so the cost after the last one is the one that stays.
clearVoxelLineInMap(s, ray) ==
  LET cells == {v[1] : v \in ray}
      gone(c) == {v[2] : v \in {w \in ray : w[1] = c}}
      m == [s EXCEPT !.high = [c \in VxRow |-> @[c] \ gone(c)], !.low = [c \in VxRow |-> @[c] \ gone(c)]]
      below == {c \in cells : bitsBelowThreshold(m.high[c], VxMark)} IN
  [m EXCEPT !.cost = [c \in VxRow |->
                        IF c \notin below THEN @[c]
                        ELSE IF bitsBelowThreshold(UnknownBits(m, c), VxUnknown) THEN VxFree
                        ELSE VxNoInformation],
            !.cut = @ \ below]

\* VoxelGrid::raytraceLine with bresenham3D, from the sensor at <<0, 0>> to a voxel.
VoxelRay(to) ==
  LET n == IF to[1] >= to[2] THEN to[1] ELSE to[2]
      m == IF to[1] >= to[2] THEN to[2] ELSE to[1]
      minor(k) == IF n = 0 THEN 0 ELSE ((n \div 2) + k * m) \div n IN
  {IF to[1] >= to[2] THEN <<k, minor(k)>> ELSE <<minor(k), k>> : k \in 0 .. n}

\* updateBounds with one observation: its ray is cleared up to two cells before the hit (to the
\* end of the row without a hit), then the hit is marked.
Vx_updateBounds ==
  /\ In(VoxelLayers, "run")
  /\ \E z \in VxColumn, x \in 2 .. VxCells :
       LET cleared == clearVoxelLineInMap(st, VoxelRay(<<IF x = VxCells THEN x - 1 ELSE x - 2, z>>)) IN
       Become(IF x = VxCells THEN cleared ELSE markVoxelInMap(cleared, <<x, z>>))

\* updateOrigin of a rolling window: costs and columns move together.
Vx_updateOrigin ==
  /\ In(VoxelLayers, "run")
  /\ \E by \in {-1, 1, VxCells} :
       LET kept(c) == c + by \in VxRow IN
       Become([st EXCEPT
         !.high = [c \in VxRow |-> IF kept(c) THEN @[c + by] ELSE {}],
         !.low = [c \in VxRow |-> IF kept(c) THEN @[c + by] ELSE VxColumn],
         !.cost = [c \in VxRow |-> IF kept(c) THEN @[c + by] ELSE VxNoInformation],
         !.cut = {c \in VxRow : c + by \in @}])

\* reset and matchSize.
Vx_reset ==
  /\ In(VoxelLayers, "run")
  /\ Become([st EXCEPT !.high = [c \in VxRow |-> {}], !.low = [c \in VxRow |-> VxColumn],
               !.cost = [c \in VxRow |-> VxNoInformation], !.cut = {}])

\* CostmapLayer::clearArea and the footprint of updateCosts know the costs alone.
Vx_clearArea ==
  /\ In(VoxelLayers, "run")
  /\ \E area \in {{0}, VxRow}, c \in {VxFree, VxNoInformation} :
       Become([st EXCEPT !.cost = [x \in VxRow |-> IF x \in area THEN c ELSE @[x]], !.cut = @ \cup area])

VoxelLayerNext == Vx_updateBounds \/ Vx_updateOrigin \/ Vx_reset \/ Vx_clearArea

-----------------------------------------------------------------------------
\* getVoxelColumn
getVoxelColumn(s, c) ==
  IF ~bitsBelowThreshold(s.high[c], VxMark) THEN "MARKED"
  ELSE IF ~bitsBelowThreshold(UnknownBits(s, c), VxUnknown) THEN "UNKNOWN" ELSE "FREE"

\* The cost of a column is the status of its voxels, through marking, clearing and moving, with
\* two exceptions: an unknown cost may be too careful, and clearing an area or the footprint
\* changes the cost and not the voxels (until an observation reaches the column again).
VoxelsMatchCosts ==
  part \in VoxelLayers =>
    /\ \A c \in VxRow : st.high[c] \subseteq st.low[c]
    /\ \A c \in VxRow \ st.cut :
         /\ st.cost[c] = VxLethal <=> getVoxelColumn(st, c) = "MARKED"
         /\ st.cost[c] = VxFree => getVoxelColumn(st, c) = "FREE"

=============================================================================
