--------------------------- MODULE UserInterfaces ---------------------------
(***************************************************************************)
(* What a user works with: the panels in RViz and the Python commander     *)
(* with its simulator.                                                     *)
(***************************************************************************)
EXTENDS Component, Integers, FiniteSets, Sequences

-----------------------------------------------------------------------------
(***************************************************************************)
(* The navigation panel and the docking panel of RViz.  Each is a Qt state *)
(* machine driven by buttons, by a 200 ms timer that looks at the status   *)
(* of its action goal, and by topics; its slots send, watch and cancel     *)
(* action goals.  The navigation panel cancels on another thread           *)
(* (QtConcurrent::run), so clicks fall between the parts of a cancel.      *)
(*                                                                         *)
(* A handle is "none", "live" (its goal executes), "dead" (the goal ended) *)
(* or "shared": live, with the result of the goal it replaced still to     *)
(* come, whose callback resets the handle whichever goal it stands for.    *)
(***************************************************************************)

CONSTANTS
  NpPoses,  \* poses the user gives a waypoint list; the panel may put one before them
  NpLoops,  \* the largest number of loops that is typed
  NpServers \* the sets of action servers that may be up

ASSUME PanelsAssumption == NpPoses \in Nat \ {0} /\ NpLoops \in Nat /\ NpServers \subseteq SUBSET {"nav", "wp", "ntp"}

NavPanels == {"nav2Panel"}
DockPanels == {"dockingPanel"}
GoalKinds == {"nav", "wp", "ntp"}
NotANumber == -1
Np_sent(s) == [s EXCEPT !.way = [index |-> s.index, left |-> s.loop_no]]

----------------------------------------------------------------------------
(* Navigation panel *)

Np_init(servers) ==
  [servers |-> servers, at |-> "pre_initial", command |-> "none", poses |-> 0, stored |-> 0, text |-> 0, loop_no |-> 0,
   loop_count |-> 0, counted |-> FALSE, index |-> 0, off |-> {}, handle |-> [k \in GoalKinds |-> "none"],
   timer |-> FALSE, cancel |-> "no", answered |-> {}, way |-> [index |-> 0, left |-> 0],
   initial |-> FALSE]

\* The buttons that lead out of a state, with the states they lead to; canceled, reset and
\* resumed are left at once, and what is connected to their exit is part of the click.
Np_clicks ==
  [initial |-> [start |-> "idle"],
   idle |-> [start |-> "reset", mode |-> "accumulating", pause |-> "paused"],
   running |-> [start |-> "canceled"],
   paused |-> [start |-> "reset", pause |-> "resumed"],
   accumulating |-> [start |-> "idle", mode |-> "accumulated_wp", pause |-> "accumulated_ntp"],
   accumulated_wp |-> [start |-> "canceled", pauseWp |-> "resumed_wp"],
   accumulated_ntp |-> [start |-> "canceled"],
   resumed_wp |-> [start |-> "canceled", pauseWp |-> "accumulated_wp"]]

\* The properties a state assigns to the widgets when it is entered.
Np_assigned(s, q) ==
  [s EXCEPT !.at = q, !.off = {},
            !.text = IF q \in {"initial", "idle", "accumulating", "running"} THEN 0 ELSE s.text]

\* Digits only: a sign is none.
isLoopValueValid(value) == value >= 0

onAccumulating(s) ==
  [s EXCEPT !.poses = 0, !.stored = 0, !.loop_count = 0, !.loop_no = 0, !.counted = TRUE, !.index = 0]

\* Sending a goal: no server, no answer in time (the handle is kept), a rejection (it is
\* lost), or an accepted goal, which the timer watches from now on.
Np_send(s, k) ==
  {s} \cup
  IF k \notin s.servers THEN {}
    ELSE {[s EXCEPT !.handle[k] = "none"],
          [s EXCEPT !.handle[k] = IF @ \in {"live", "shared"} THEN "shared" ELSE "live", !.timer = TRUE]}
startNavigation(s) == Np_send(s, "nav")
startNavThroughPoses(s) == Np_send(s, "ntp")
startWaypointFollowing(s) == Np_send(Np_sent(s), "wp")
onAccumulatedNTP(s) == startNavThroughPoses(s)

\* The waypoints are sent and stored; without waypoints or with a wrong number of loops the
\* panel accumulates again; without the robot's pose it stays here with nothing sent.
onAccumulatedWp(s) ==
  IF s.poses = 0 \/ ~isLoopValueValid(s.loop_no)
    THEN {onAccumulating(Np_assigned(s, "accumulating"))}
    ELSE LET fresh == s.stored = 0
             first == IF fresh THEN [s EXCEPT !.text = s.loop_no] ELSE s
             led == [first EXCEPT !.poses = @ + 1, !.index = IF s.loop_count = 0 THEN 1 ELSE @]
             kept(t) == [t EXCEPT !.stored = t.poses, !.poses = 0]
         IN IF fresh /\ s.initial
              THEN {first} \cup {kept(t) : t \in startWaypointFollowing(led)}
              ELSE {kept(t) : t \in startWaypointFollowing(first)}

\* Cancelling starts on its own thread.
onCancel(s) == [s EXCEPT !.cancel = "begun", !.stored = 0, !.poses = 0]
onResumedWp(s) ==
  [s EXCEPT !.cancel = "begun", !.poses = s.stored, !.loop_no = s.text - s.loop_count]

\* Entering a state, with the slots connected to it.
Np_entered(s, q) ==
  LET t == Np_assigned(s, q) IN
    CASE q = "accumulating" -> {onAccumulating(t)}
      [] q = "accumulated_wp" -> onAccumulatedWp(t)
      [] q = "accumulated_ntp" -> onAccumulatedNTP(t)
      [] q = "resumed_wp" -> {onResumedWp(t)}
      [] q = "paused" -> {[t EXCEPT !.command = "pause"]}
      [] q = "reset" -> {[Np_assigned(t, "initial") EXCEPT !.command = "reset", !.timer = FALSE]}
      [] q = "canceled" -> {Np_assigned(onCancel(t), "idle")}
      [] q = "resumed" -> {[Np_assigned(t, "idle") EXCEPT !.command = "resume"]}
      [] OTHER -> {[t EXCEPT !.command = IF s.at = "initial" THEN "startup" ELSE @]}

Np_click ==
  /\ part \in NavPanels /\ st.at \in DOMAIN Np_clicks
  /\ \E button \in DOMAIN Np_clicks[st.at] \ st.off :
       \E s \in Np_entered(st, Np_clicks[st.at][button]) : s.stored <= NpPoses + 1 /\ Become(s)

\* The initial thread has asked the lifecycle managers whether they are active.
Np_initialThread ==
  /\ In(NavPanels, "pre_initial")
  /\ \E active \in BOOLEAN :
       Become([Np_assigned(st, IF active THEN "idle" ELSE "initial") EXCEPT
                 !.command = IF active THEN "startup" ELSE @])

----------------------------------------------------------------------------
\* What the timer sees of a goal, and the transitions its event takes: the first of the three
\* that leave idle wins.
Np_event(s, active) ==
  CASE s.at = "idle" /\ active -> {Np_assigned(s, "running")}
    [] s.at = "running" /\ ~active -> {Np_assigned(s, "idle")}
    [] s.at = "accumulated_wp" /\ ~active -> {onAccumulating(Np_assigned(s, "accumulating"))}
    [] s.at = "accumulated_ntp" /\ ~active -> {Np_assigned(s, "idle")}
    [] OTHER -> {s}
Np_watched(s) ==
  CASE s.at = "accumulated_wp" -> "wp" [] s.at = "accumulated_ntp" -> "ntp" [] OTHER -> "nav"
Np_ticked(s, k) ==
  CASE s.handle[k] = "none" -> Np_event(s, FALSE)
    [] s.handle[k] = "dead" -> Np_event([s EXCEPT !.timer = FALSE], FALSE)
    [] s.handle[k] = "live" -> Np_event(s, TRUE)
    [] s.handle[k] = "shared" -> Np_event(s, TRUE) \cup {[s EXCEPT !.at = "crashed"]}
Np_timerEvent ==
  /\ part \in NavPanels /\ st.timer /\ st.at # "crashed"
  /\ \E t \in (IF st.at = "accumulated_wp" /\ st.handle["wp"] # "none"
                 THEN {st, [st EXCEPT !.index = st.way.index]} ELSE {st}) :
       \E s \in Np_ticked(t, Np_watched(t)) : Become(s)

\* A cancel asks the server for every handle there is, and resets the handles that then are
\* in their place when the server answered; then it stops the timer.
onCancelButtonPressed ==
  /\ part \in NavPanels /\ st.at # "crashed" /\ st.cancel = "begun"
  /\ \E answered \in SUBSET {k \in GoalKinds : st.handle[k] # "none"} :
       Become([st EXCEPT !.cancel = "asked", !.answered = answered])
Np_cancelled ==
  /\ part \in NavPanels /\ st.at # "crashed" /\ st.cancel = "asked"
  /\ Become([st EXCEPT !.cancel = "no", !.answered = {}, !.timer = FALSE,
                       !.handle = [k \in GoalKinds |-> IF k \in st.answered THEN "none" ELSE @[k]]])

onNewGoal ==
  /\ part \in NavPanels /\ st.at \notin {"pre_initial", "crashed"} /\ st.stored = 0
  /\ IF st.at = "accumulating"
       THEN st.poses < NpPoses /\ Become([st EXCEPT !.poses = @ + 1])
       ELSE \E s \in startNavigation([st EXCEPT !.poses = 0]) : Become(s)
loophandler ==
  /\ In(NavPanels, "accumulating")
  /\ \E value \in NotANumber .. NpLoops :
       Become([st EXCEPT !.text = value, !.loop_no = value,
                         !.off = CASE ~isLoopValueValid(value) -> @ \cup {"mode"}
                                   [] value = 0 -> {} [] OTHER -> {"pause"}])
initialStateHandler == In(NavPanels, "accumulating") /\ Become([st EXCEPT !.initial = ~@])
\* A saved list can be read back; a file that cannot be read leaves no waypoints.
handleGoalLoader ==
  In(NavPanels, "accumulating") /\ \E n \in 0 .. NpPoses : Become([st EXCEPT !.poses = n])

\* A navigation feedback counts the loops; it reads the number of loops from the text field,
\* which throws when that is no number.
Np_feedback ==
  /\ part \in NavPanels /\ st.at \notin {"pre_initial", "crashed"}
  /\ IF st.text = NotANumber THEN Become([st EXCEPT !.at = "crashed"])
     ELSE /\ st.text > 0
          /\ Become([st EXCEPT !.loop_count = IF st.index = 0 /\ ~st.counted THEN @ + 1 ELSE @,
                               !.counted = st.index = 0])
\* A navigation succeeded: at the last waypoint of the last loop the list is done.
Np_succeeded ==
  /\ part \in NavPanels /\ st.at \notin {"pre_initial", "crashed"}
  /\ IF st.text = NotANumber THEN Become([st EXCEPT !.at = "crashed"])
       ELSE /\ st.loop_count = st.text /\ st.index = st.stored - 1
            /\ Become([st EXCEPT !.stored = 0, !.loop_no = 0, !.loop_count = 0])

\* The servers: a goal ends, or the waypoint follower goes on to its next waypoint.
Np_goalEnds ==
  /\ part \in NavPanels /\ st.at # "crashed"
  /\ \E k \in GoalKinds : st.handle[k] = "live" /\ Become([st EXCEPT !.handle[k] = "dead"])
Np_nextWaypoint ==
  /\ part \in NavPanels /\ st.handle["wp"] = "live" /\ st.stored > 0 /\ st.at # "crashed"
  /\ IF st.way.index + 1 < st.stored THEN Become([st EXCEPT !.way.index = @ + 1])
       ELSE st.way.left > 0 /\ Become([st EXCEPT !.way = [index |-> 0, left |-> @.left - 1]])

Nav2PanelNext ==
  \/ Np_click \/ Np_initialThread \/ Np_timerEvent \/ onCancelButtonPressed \/ Np_cancelled
  \/ onNewGoal \/ loophandler \/ initialStateHandler \/ handleGoalLoader
  \/ Np_feedback \/ Np_succeeded \/ Np_goalEnds \/ Np_nextWaypoint

----------------------------------------------------------------------------
(* Docking panel *)

Dp_init ==
  [at |-> "pre_initial", timer |-> TRUE, plugins |-> FALSE, use_dock_id |-> TRUE, filled |-> FALSE,
   handle |-> [docking |-> "none", undocking |-> "none"]]
DpBusy == {"docking", "undocking"}

Dp_initialThread ==
  /\ In(DockPanels, "pre_initial")
  /\ \E loaded \in BOOLEAN : Become([st EXCEPT !.at = "idle", !.plugins = loaded])
dockIdCheckbox ==
  In(DockPanels, "idle") /\ Become([st EXCEPT !.use_dock_id = ~@, !.filled = FALSE])
Dp_filledIn == In(DockPanels, "idle") /\ Become([st EXCEPT !.filled = ~@])

\* Outcomes of sending: no answer in time, rejected, accepted.
Dp_send(s, k) ==
  {s, [s EXCEPT !.handle[k] = "none"], [s EXCEPT !.handle[k] = "live", !.timer = TRUE]}
onDockingButtonPressed(s) ==
  {s} \cup IF s.plugins /\ s.filled THEN Dp_send(s, "docking") ELSE {}
onUndockingButtonPressed(s) == {s} \cup IF s.plugins THEN Dp_send(s, "undocking") ELSE {}
Dp_click ==
  /\ In(DockPanels, "idle")
  /\ \/ \E s \in onDockingButtonPressed([st EXCEPT !.at = "docking"]) : Become(s)
     \/ \E s \in onUndockingButtonPressed([st EXCEPT !.at = "undocking"]) : Become(s)

\* A click on the same button cancels: the handle goes when the server answered.
onCancelDocking(s, answered) ==
  [s EXCEPT !.at = "idle", !.timer = FALSE, !.handle.docking = IF answered THEN "none" ELSE @]
onCancelUndocking(s, answered) ==
  [s EXCEPT !.at = "idle", !.timer = FALSE, !.handle.undocking = IF answered THEN "none" ELSE @]
Dp_cancel ==
  \E answered \in BOOLEAN :
    \/ In(DockPanels, "docking") /\ Become(onCancelDocking(st, answered))
    \/ In(DockPanels, "undocking") /\ Become(onCancelUndocking(st, answered))

Dp_timerEvent ==
  /\ part \in DockPanels /\ st.at \in DpBusy /\ st.timer
  /\ CASE st.handle[st.at] = "none" -> Become([st EXCEPT !.at = "idle"])
       [] st.handle[st.at] = "dead" -> Become([st EXCEPT !.at = "idle", !.timer = FALSE])
       [] OTHER -> FALSE
Dp_goalEnds ==
  /\ part \in DockPanels
  /\ \E k \in DpBusy : st.handle[k] = "live" /\ Become([st EXCEPT !.handle[k] = "dead"])

DockingPanelNext ==
  \/ Dp_initialThread \/ dockIdCheckbox \/ Dp_filledIn \/ Dp_click \/ Dp_cancel
  \/ Dp_timerEvent \/ Dp_goalEnds

PanelsInit ==
  \/ part \in NavPanels /\ st \in {Np_init(servers) : servers \in NpServers}
  \/ part \in DockPanels /\ st = Dp_init
PanelsNext == Nav2PanelNext \/ DockingPanelNext

----------------------------------------------------------------------------
\* The loops that are left when a paused list goes on (onResumedWp) are never negative:
\* the field the goal carries them in has no sign.
RemainingLoops == part \in NavPanels => st.way.left >= 0

\* The panel never shows a system it has paused or reset as running, nor the other way
\* round, whatever the user and the goals do in between (onStartup, onPause, onResume,
\* onShutdown).
ShowsLastCommand ==
  part \in NavPanels =>
    CASE st.at = "paused" -> st.command = "pause"
      [] st.at \in {"pre_initial", "initial"} -> st.command \in {"none", "reset"}
      [] st.at = "crashed" -> TRUE
      [] OTHER -> st.command \in {"startup", "resume"}

-----------------------------------------------------------------------------
(***************************************************************************)
(* NavBIM's RViz panels: the BIM panel, which chooses a model and a floor  *)
(* and lifts start and goal poses to that floor; the topological map panel *)
(* with its interactive markers; and the manager of the building elements' *)
(* markers.  All run on the Qt thread; answers of services arrive between  *)
(* the clicks, and what they change is drawn by a queued call.             *)
(***************************************************************************)

CONSTANTS
  TopoNodes,     \* the map's nodes: [id, type, name, floor]
  TopoEdges,     \* the map's edges: [id, type, source, target]
  ElementFiles   \* the lists of mesh files that are shown, without repetitions

BimPanelParts == {"bimPanel"}
TopoPanelParts == {"topomapPanel"}
ElementParts == {"ifcElements"}

----------------------------------------------------------------------------
(* BIM panel *)

FloorNames == {n.name : n \in {m \in TopoNodes : m.type = "floor"}}

\* A model given as a parameter starts the timer that loads its floors.
Bp_init(model) ==
  [at |-> "panel", model |-> model, floor |-> "", label |-> IF model = "" THEN "none" ELSE "loading",
   floors |-> {}, heights |-> {}, loaded |-> FALSE, timer |-> model # "", asked |-> 0, published |-> "",
   pose |-> [z |-> "none", of |-> ""], meshes |-> "none"]

\* The floors are asked for once the map server is active and its service is there.
Bp_tryLoadFloors(s) ==
  IF s.loaded THEN {[s EXCEPT !.timer = FALSE]}
    ELSE {s, [s EXCEPT !.timer = FALSE, !.asked = @ + 1]}
searchFloors(s) ==
  IF \/ s.loaded /\ s.floors # {}
     \/ s.timer
    THEN {s} ELSE Bp_tryLoadFloors(s)
tryLoadFloors ==
  /\ part \in BimPanelParts /\ st.timer
  /\ \E s \in Bp_tryLoadFloors(st) : Become(s)

\* The answer, in the queued call: floors replace the list; none or a failure is only told.
Bp_floorsGot(s, names) ==
  IF names = {} THEN [s EXCEPT !.label = "failed"]
    ELSE [s EXCEPT !.floors = names, !.heights = names, !.loaded = TRUE, !.label = "loaded"]
Bp_answer ==
  /\ part \in BimPanelParts /\ st.asked > 0
  /\ \E names \in {{}, FloorNames} : Become([Bp_floorsGot(st, names) EXCEPT !.asked = @ - 1])

\* Selecting a model: none, one without a navigation model, or one whose floors are loaded.
\* The floor that was selected stays selected in the last case, whatever the label says.
onBimModelsClicked ==
  /\ part \in BimPanelParts /\ st.asked < 2
  /\ \/ Become([st EXCEPT !.model = "", !.floor = "", !.label = "none"])
     \/ \E model \in {"A", "B"} :
          \E s \in searchFloors([st EXCEPT !.model = model, !.label = "none"]) : Become(s)
\* The meshes of a floor are those its list names, otherwise all of the model; no model, none.
displayIfcElements(s) ==
  {[s EXCEPT !.meshes = IF s.model = "" THEN @ ELSE m] : m \in {"listed", "all", s.meshes}}
onFloorsClicked ==
  /\ part \in BimPanelParts /\ st.floors # {}
  /\ \E f \in st.floors \cup {"None"} :
       \E s \in displayIfcElements(st) :
         Become([s EXCEPT !.floor = IF f = "None" THEN "" ELSE f, !.published = f,
                          !.label = IF f = "None" THEN "none" ELSE "selected"])

\* A pose the user sets is lifted to the selected floor, when that floor's height is known.
Bp_lifted(s) ==
  [z |-> CASE s.floor = "" -> "ground" [] s.floor \in s.heights -> "floor" [] OTHER -> "unknown",
   of |-> s.floor]
startPoseCallback == part \in BimPanelParts /\ Become([st EXCEPT !.pose = Bp_lifted(st)])
goalPoseCallback == startPoseCallback

BimPanelNext ==
  tryLoadFloors \/ Bp_answer \/ onBimModelsClicked \/ onFloorsClicked \/ goalPoseCallback

----------------------------------------------------------------------------
(* Topological map panel *)

NodeKinds == {"floor", "room", "transition"}
Tm_type(n) == IF n.type \in {"floor", "room"} THEN n.type ELSE "transition"
Tm_node(id) == CHOOSE n \in TopoNodes : n.id = id

Tm_init ==
  [at |-> "panel", nodes |-> NodeKinds, edges |-> NodeKinds, floor |-> "", hidden |-> {},
   map |-> FALSE, pruned |-> FALSE, redraw |-> FALSE, markers |-> {}, prunedMarkers |-> {}]

\* On the selected floor: a floor by its name, everything else by the floors it is on.
Tm_nodeOnFloor(s, n) ==
  s.floor \in {"", "None"} \/ IF n.type = "floor" THEN n.name = s.floor ELSE s.floor \in n.floor
Tm_edgeOnFloor(s, e) ==
  s.floor \in {"", "None"} \/ \E id \in {e.source, e.target} : s.floor \in Tm_node(id).floor

createNodeMarker(n) == <<Tm_type(n), "node", n.id>>
\* An edge's marker is named after the types of its ends, not after its own type.
createEdgeMarker(e) ==
  LET from == Tm_node(e.source).type
      to == Tm_node(e.target).type
  IN <<CASE {from, to} = {"transition"} -> "transition"
         [] {from, to} = {"transition", "room"} -> "room"
         [] "floor" \in {from, to} -> "floor"
         [] OTHER -> from, "edge", e.id>>

createInteractiveMarkers(s) ==
  IF ~s.map THEN {}
    ELSE {createNodeMarker(n) : n \in {m \in TopoNodes :
            Tm_nodeOnFloor(s, m) /\ Tm_type(m) \in s.nodes /\ createNodeMarker(m) \notin s.hidden}}
         \cup {createEdgeMarker(e) : e \in {f \in TopoEdges :
            Tm_edgeOnFloor(s, f) /\ f.type \in s.edges /\ <<f.type, "edge", f.id>> \notin s.hidden}}
\* The pruned map shows its hidden markers all the same.
createPrunedInteractiveMarkers(s) ==
  IF ~s.pruned THEN {}
    ELSE {createNodeMarker(n) : n \in {m \in TopoNodes : Tm_nodeOnFloor(s, m) /\ Tm_type(m) \in s.nodes}}
         \cup {createEdgeMarker(e) : e \in {f \in TopoEdges : Tm_edgeOnFloor(s, f) /\ f.type \in s.edges}}

Tm_drawn(s) ==
  [s EXCEPT !.markers = createInteractiveMarkers(s), !.prunedMarkers = createPrunedInteractiveMarkers(s)]

Tm_nodesToggled ==
  /\ part \in TopoPanelParts
  /\ \E k \in NodeKinds : Become(Tm_drawn([st EXCEPT !.nodes = (@ \cup {k}) \ (@ \cap {k})]))
Tm_edgesToggled ==
  /\ part \in TopoPanelParts
  /\ \E k \in NodeKinds : Become(Tm_drawn([st EXCEPT !.edges = (@ \cup {k}) \ (@ \cap {k})]))
Tm_floorSelected ==
  /\ part \in TopoPanelParts
  /\ \E f \in FloorNames \cup {"None"} : Become(Tm_drawn([st EXCEPT !.floor = f]))
Tm_prunedReceived ==
  /\ part \in TopoPanelParts
  /\ LET s == [st EXCEPT !.pruned = TRUE]
     IN Become([s EXCEPT !.prunedMarkers = createPrunedInteractiveMarkers(s)])
\* The map is read once, when the panel is made; it is drawn by a queued call.
loadTopologicalMap ==
  part \in TopoPanelParts /\ ~st.map /\ Become([st EXCEPT !.map = TRUE, !.redraw = TRUE])
Tm_redrawn ==
  /\ part \in TopoPanelParts /\ st.redraw
  /\ Become([st EXCEPT !.redraw = FALSE, !.markers = createInteractiveMarkers(st)])

\* The menu entry that hides a marker; at most one is hidden.
processFeedback ==
  /\ part \in TopoPanelParts /\ st.hidden = {}
  /\ \E name \in st.markers \cup st.prunedMarkers : Become(Tm_drawn([st EXCEPT !.hidden = @ \cup {name}]))

TopomapPanelNext ==
  \/ Tm_nodesToggled \/ Tm_edgesToggled \/ Tm_floorSelected \/ Tm_prunedReceived
  \/ loadTopologicalMap \/ Tm_redrawn \/ processFeedback

----------------------------------------------------------------------------
(* Markers of the building's elements: marker i shows the i-th file. *)

El_init == [at |-> "panel", markers |-> <<>>, elements |-> <<>>, menu |-> <<>>, told |-> "none"]
Guids(files) == {files[i] : i \in DOMAIN files}

createInteractiveMarker(guid) == [guid |-> guid, drawn |-> TRUE, alpha |-> 2]
displayElements ==
  /\ part \in ElementParts
  /\ \E files \in ElementFiles :
       Become([st EXCEPT
         !.markers = [i \in DOMAIN files |-> createInteractiveMarker(files[i])],
         !.elements = [g \in Guids(files) |->
           [marker |-> CHOOSE i \in DOMAIN files : files[i] = g, visible |-> TRUE, alpha |-> 2]]])
\* An element's marker follows its state.
updateElementDisplay(s, g) ==
  LET e == s.elements[g]
      m == s.markers[e.marker]
  IN [s EXCEPT !.markers[e.marker] = [m EXCEPT !.drawn = e.visible,
                                               !.alpha = IF e.visible THEN e.alpha ELSE m.alpha]]
setElementTransparency(s, g, alpha) ==
  IF g \in DOMAIN s.elements THEN updateElementDisplay([s EXCEPT !.elements[g].alpha = alpha], g) ELSE s
setElementVisibility(s, g, visible) ==
  IF g \in DOMAIN s.elements THEN updateElementDisplay([s EXCEPT !.elements[g].visible = visible], g) ELSE s

\* The user's choice in a marker's menu travels as a message with the marker's name.
El_menuClicked ==
  /\ part \in ElementParts /\ st.menu = <<>>
  /\ \E i \in DOMAIN st.markers, entry \in {"transparent", "hide", "info"} :
       Become([st EXCEPT !.menu = <<i, entry>>])
displayIfcInfo(s, g) == {[s EXCEPT !.told = t] : t \in {"unavailable", "info", "notFound", "error"}}
onElementMenuSelect ==
  /\ part \in ElementParts /\ st.menu # <<>>
  /\ LET s == [st EXCEPT !.menu = <<>>]
         i == st.menu[1]
     IN IF i \notin DOMAIN st.markers THEN Become(s)
          ELSE CASE st.menu[2] = "transparent" ->
                      Become(setElementTransparency(s, st.markers[i].guid, 1))
                 [] st.menu[2] = "hide" -> Become(setElementVisibility(s, st.markers[i].guid, FALSE))
                 [] OTHER -> \E t \in displayIfcInfo(s, st.markers[i].guid) : Become(t)

IfcElementsNext == displayElements \/ El_menuClicked \/ onElementMenuSelect

BimPanelsInit ==
  \/ part \in BimPanelParts /\ st \in {Bp_init(""), Bp_init("A")}
  \/ part \in TopoPanelParts /\ st = Tm_init
  \/ part \in ElementParts /\ st = El_init
BimPanelsNext == BimPanelNext \/ TopomapPanelNext \/ IfcElementsNext

----------------------------------------------------------------------------
\* The floor poses are lifted to has a height: no answer of the map server, late or failed,
\* takes the heights away while a floor is selected (tryLoadFloors, startPoseCallback).
SelectedFloorHasHeight == part \in BimPanelParts => st.pose.z # "unknown"

\* What is drawn is the map under the current selection, unless a redraw is queued, and an
\* element's marker shows what was last asked of the element (createInteractiveMarkers,
\* updateElementDisplay).
MarkersAreCurrent ==
  /\ part \in TopoPanelParts /\ ~st.redraw => st = Tm_drawn(st)
  /\ part \in ElementParts => \A g \in DOMAIN st.elements :
       LET m == st.markers[st.elements[g].marker]
       IN /\ m.guid = g /\ m.drawn = st.elements[g].visible
          /\ m.drawn => m.alpha = st.elements[g].alpha

\* The menu entry "Hide Marker" hides the marker it is chosen on (processFeedback).
\* It does not hold: README, Disagreements.
HiddenIsHidden == part \in TopoPanelParts => st.markers \cap st.hidden = {}

\* The label says that no floor is selected only when none is (onBimModelsClicked).
\* It does not hold: README, Disagreements.
FloorLabelTrue == part \in BimPanelParts /\ st.label = "none" => st.floor = ""

-----------------------------------------------------------------------------
(***************************************************************************)
(* The Python client of the stack: BasicNavigator of                       *)
(* nav2_simple_commander.                                                  *)
(*                                                                         *)
(* The navigator keeps ONE goal handle, ONE result future and ONE status   *)
(* for all the servers it talks to.  Goals are numbered in the order they  *)
(* are sent; goals[g] is what has become of goal g.                        *)
(***************************************************************************)

CONSTANT CoGoals    \* goals the user sends

ASSUME CommanderAssumption == CoGoals \in Nat

-----------------------------------------------------------------------------
(* BasicNavigator *)

CoEnds == {"SUCCEEDED", "ABORTED", "CANCELED"}
\* The constructor: no goal, no result, initial pose not yet heard of.
commanderInit ==
  [at |-> "user", goals |-> <<>>, handle |-> 0, future |-> 0, status |-> "none", cancels |-> {},
   said |-> "nothing", task |-> 0]
bringupInit == [at |-> "user", posed |-> FALSE, told |-> FALSE, bringup |-> "down", said |-> "nothing"]

\* A request: the server takes it, which ends a goal it is working on, or rejects it.  A rejected
\* goal leaves its handle and nothing else; an accepted one the future of its result too.
Co_goal(server, ok) ==
  [server |-> IF ok THEN server ELSE "none", ok |-> ok, end |-> IF ok THEN "none" ELSE "rejected"]
Co_ended(goal, end) == [goal EXCEPT !.server = "none", !.end = end]
\* Mistake: the future of the goal before is kept.
Co_sentUnread(s, server, ok) ==
  LET g == Len(s.goals) + 1 IN
  [s EXCEPT !.goals = Append(@, Co_goal(server, ok)), !.handle = g,
            !.future = IF ok /\ @ = 0 THEN g ELSE @, !.task = IF ok THEN g ELSE @,
            !.said = IF ok THEN "accepted" ELSE "rejected"]
Co_sent(s, server, ok) ==
  LET g == Len(s.goals) + 1
      preempted == [i \in DOMAIN s.goals |->
                      IF ok /\ s.goals[i].server = server /\ s.goals[i].end = "none"
                      THEN Co_ended(s.goals[i], "ABORTED") ELSE s.goals[i]] IN
  [s EXCEPT !.goals = Append(preempted, Co_goal(server, ok)), !.handle = g,
            !.future = IF ok THEN g ELSE @, !.task = IF ok THEN g ELSE @,
            !.said = IF ok THEN "accepted" ELSE "rejected"]
Co_task(server) ==
  /\ In({"commander"}, "user") /\ Len(st.goals) < CoGoals
  /\ \E ok \in BOOLEAN : Become(Co_sent(st, server, ok))

goThroughPoses == Co_task("navigate_through_poses")
goToPose == Co_task("navigate_to_pose")
followWaypoints == Co_task("follow_waypoints")
followGpsWaypoints == Co_task("follow_gps_waypoints")
spin == Co_task("spin")
backup == Co_task("backup")
driveOnHeading == Co_task("drive_on_heading")
assistedTeleop == Co_task("assisted_teleop")
followPath == Co_task("follow_path")
dockRobotByPose == Co_task("dock_robot")
dockRobotByID == Co_task("dock_robot")
undockRobot == Co_task("undock_robot")

\* cancelTask: only with a future, but through the handle.
cancelTask ==
  /\ In({"commander"}, "user")
  /\ Become([st EXCEPT !.cancels = IF st.future # 0 THEN @ \cup {st.handle} ELSE @,
                       !.said = IF st.future # 0 THEN "cancelled" ELSE "nothing"])
\* isTaskComplete: cancelled or complete without a future; else the result, if it has come.
isTaskComplete ==
  /\ In({"commander"}, "user")
  /\ LET ended == st.future # 0 /\ st.goals[st.future].end # "none" IN
     Become([st EXCEPT !.status = IF ended THEN st.goals[st.future].end ELSE @,
                       !.said = IF st.future = 0 \/ ended THEN "complete" ELSE "running"])
\* getResult: the status that was last read, UNKNOWN before the first.
getResult ==
  /\ In({"commander"}, "user")
  /\ Become([st EXCEPT !.said = IF st.status \in CoEnds THEN st.status ELSE "UNKNOWN"])

\* _getPathImpl, _getPathThroughPosesImpl and _smoothPathImpl: the request and the wait for its
\* result in one call, with the handle and the future of the tasks.
Co_asked(server, ok, end) ==
  LET s == Co_sent(st, server, ok)
      g == Len(s.goals) IN
  IF ok THEN [s EXCEPT !.goals[g] = Co_ended(@, end), !.status = end, !.task = st.task] ELSE s
_getPathImpl(ok, end) == Co_asked("compute_path_to_pose", ok, end)
_getPathThroughPosesImpl(ok, end) == Co_asked("compute_path_through_poses", ok, end)
_smoothPathImpl(ok, end) == Co_asked("smooth_path", ok, end)
\* getPath, getPathThroughPoses, smoothPath: a path only if the status is SUCCEEDED and there is a
\* result.
Co_path(s, ok) ==
  [s EXCEPT !.said = IF s.status = "SUCCEEDED" /\ ok THEN "path" ELSE "no path"]
getPath == \E ok \in BOOLEAN, end \in CoEnds : Become(Co_path(_getPathImpl(ok, end), ok))
getPathThroughPoses ==
  \E ok \in BOOLEAN, end \in CoEnds : Become(Co_path(_getPathThroughPosesImpl(ok, end), ok))
smoothPath == \E ok \in BOOLEAN, end \in CoEnds : Become(Co_path(_smoothPathImpl(ok, end), ok))
Co_paths ==
  /\ In({"commander"}, "user") /\ Len(st.goals) < CoGoals
  /\ getPath \/ getPathThroughPoses \/ smoothPath

\* The server ends a goal; a cancel request is granted.
Co_serverEnds ==
  /\ In({"commander"}, "user")
  /\ \E g \in DOMAIN st.goals :
       /\ st.goals[g].end = "none"
       /\ \E end \in CoEnds : /\ end = "CANCELED" => g \in st.cancels
                              /\ Become([st EXCEPT !.goals[g] = Co_ended(@, end), !.said = "nothing"])

\* setInitialPose, _setInitialPose: told, and published; the answer of amcl sets the flag.
setInitialPose ==
  /\ In({"bringup"}, "user") /\ ~st.told
  /\ Become([st EXCEPT !.posed = FALSE, !.told = TRUE, !.said = "nothing"])
_amclPoseCallback ==
  /\ In({"bringup"}, "user") /\ st.told /\ ~st.posed
  /\ Become([st EXCEPT !.posed = TRUE, !.said = "nothing"])
\* lifecycleStartup: STARTUP is requested; its answer is awaited for 0.1 s and, the future being an
\* object, never again.  lifecycleShutdown waits for the answer.
lifecycleStartup ==
  /\ In({"bringup"}, "user") /\ st.bringup = "down"
  /\ \E b \in {"starting", "up"} : Become([st EXCEPT !.bringup = b, !.said = "ready"])
lifecycleShutdown ==
  /\ In({"bringup"}, "user") /\ st.bringup # "down"
  /\ Become([st EXCEPT !.bringup = "down", !.said = "nothing"])
Co_bringupEnds ==
  /\ In({"bringup"}, "user") /\ st.bringup = "starting"
  /\ Become([st EXCEPT !.bringup = "up", !.said = "nothing"])
\* waitUntilNav2Active: the localizer is awaited, then its pose (_waitForInitialPose), then the
\* navigator.
waitUntilNav2Active ==
  /\ In({"bringup"}, "user") /\ st.bringup = "up"
  /\ Become([st EXCEPT !.told = TRUE, !.posed = TRUE, !.said = "active"])

CommanderTask ==
  \/ goThroughPoses \/ goToPose \/ followWaypoints \/ followGpsWaypoints \/ spin \/ backup
  \/ driveOnHeading \/ assistedTeleop \/ followPath \/ dockRobotByPose \/ dockRobotByID \/ undockRobot
CommanderNext ==
  \/ CommanderTask \/ cancelTask \/ isTaskComplete \/ getResult \/ Co_paths \/ Co_serverEnds
  \/ setInitialPose \/ _amclPoseCallback \/ lifecycleStartup \/ lifecycleShutdown \/ Co_bringupEnds
  \/ waitUntilNav2Active

-----------------------------------------------------------------------------
CommanderInit ==
  \/ part = "commander" /\ st = commanderInit
  \/ part = "bringup" /\ st = bringupInit

-----------------------------------------------------------------------------
\* When isTaskComplete has said that the task is complete, the last goal the navigator was given for
\* a result has ended and getResult tells how: requests, rejections, preemptions and answers of the
\* servers may come in any order.
CompleteIsReported ==
  part = "commander" /\ st.said = "complete" /\ st.future # 0 =>
    /\ st.goals[st.future].end = st.status
    /\ \A g \in DOMAIN st.goals : st.goals[g].ok => g <= st.future
\* cancelTask "Cancel[s] pending task request of any type": what it asks to cancel is the task that
\* isTaskComplete waits for.
\* It does not hold: README, Disagreements.
CancelReachesTask == part = "commander" /\ st.said = "cancelled" => st.future \in st.cancels
\* "Check if the task request of any type is complete yet": complete is said of the last task only
\* when its goal has ended.
\* It does not hold: README, Disagreements.
CompleteIsTask ==
  part = "commander" /\ st.said = "complete" /\ st.task # 0 => st.goals[st.task].end # "none"
=============================================================================
