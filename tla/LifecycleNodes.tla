--------------------------- MODULE LifecycleNodes ---------------------------
(***************************************************************************)
(* Lifecycle: the manager that brings the nodes up and down, and what the  *)
(* transitions of the managed servers create, activate and destroy.        *)
(***************************************************************************)
EXTENDS Component, Sequences, Integers

-----------------------------------------------------------------------------
(***************************************************************************)
(* nav2_lifecycle_manager: the commands that take a list of lifecycle      *)
(* nodes through their transitions, the bonds that notice a dead node, and *)
(* the timer that starts the system again when the node is back.  All of   *)
(* it runs in one mutually exclusive callback group; nodes fail, die and   *)
(* come back at any time.                                                  *)
(*                                                                         *)
(*   at       "idle", "change" (inside changeStateForAllNodes), "crashed"  *)
(*   cmd      the command, stage  the transition it is at, next  its node  *)
(*   managed  managed_nodes_state_                                         *)
(*   bond     nodes with an entry in bond_map_, broken  those whose peer   *)
(*            is gone, bond_timer, respawn_timer  the two timers           *)
(*   bonded   bond_timeout_ > 0, respawns  attempt_respawn_reconnection_   *)
(*   clients  node_map_ has its clients                                    *)
(*   node     state of each node, up  whether its process lives            *)
(*   died     ghost: the nodes whose process died since their activation   *)
(***************************************************************************)

CONSTANTS
  LmNodes,      \* bound: number of managed nodes
  LmCommands,   \* bound: commands of a user
  LmFaults      \* bound: transitions that fail, and deaths of a process

ASSUME LifecycleManagerAssumption == {LmNodes, LmCommands, LmFaults} \subseteq Nat

LifecycleManagers == {"lifecycle_manager"}
NodeIds == 1 .. LmNodes

-----------------------------------------------------------------------------
(* transition_state_map_, and where the state machine of a node allows each.  *)
Target == [configure |-> "inactive", activate |-> "active", deactivate |-> "inactive",
           cleanup |-> "unconfigured", shutdown |-> "finalized"]
Source == [configure |-> "unconfigured", activate |-> "inactive", deactivate |-> "active",
           cleanup |-> "inactive", shutdown |-> "unconfigured"]

(* The commands: the transitions each goes through, whether it destroys the bond *)
(* timer first, and the state it reports.                                        *)
Lm_startup   == [stages |-> <<"configure", "activate">>, quiet |-> FALSE, result |-> "ACTIVE"]
Lm_configure == [stages |-> <<"configure">>, quiet |-> FALSE, result |-> "INACTIVE"]
Lm_cleanup   == [stages |-> <<"cleanup">>, quiet |-> FALSE, result |-> "UNCONFIGURED"]
Lm_shutdown  == [stages |-> <<"deactivate", "cleanup", "shutdown">>, quiet |-> TRUE,
                 result |-> "FINALIZED"]
Lm_reset     == [stages |-> <<"deactivate", "cleanup">>, quiet |-> TRUE, result |-> "UNCONFIGURED"]
Lm_pause     == [stages |-> <<"deactivate">>, quiet |-> TRUE, result |-> "INACTIVE"]
Lm_resume    == [stages |-> <<"activate">>, quiet |-> FALSE, result |-> "ACTIVE"]

managerCallback == [STARTUP |-> Lm_startup, CONFIGURE |-> Lm_configure, CLEANUP |-> Lm_cleanup,
                    RESET |-> Lm_reset, SHUTDOWN |-> Lm_shutdown, PAUSE |-> Lm_pause,
                    RESUME |-> Lm_resume, HARD_RESET |-> Lm_reset]
UserCommands == DOMAIN managerCallback \ {"HARD_RESET"}

LmTransition == managerCallback[st.cmd].stages[st.stage]
FirstNode(t) == IF t \in {"configure", "activate"} THEN 1 ELSE LmNodes
NextNode(t, n) == IF t \in {"configure", "activate"} THEN n + 1 ELSE n - 1

-----------------------------------------------------------------------------
\* A command begins.  Without the clients that shutdown destroyed the first use of
\* one dereferences null; shutdownAllNodes reports FINALIZED before it does anything.
LmBegin(s, c) ==
  [s EXCEPT !.at = IF s.clients THEN "change" ELSE "crashed",
            !.cmd = c, !.stage = 1, !.next = FirstNode(managerCallback[c].stages[1]),
            !.bond_timer = @ /\ ~managerCallback[c].quiet,
            !.managed = IF c = "SHUTDOWN" THEN "FINALIZED" ELSE @]

\* The end of checkBondConnections after its reset(true).
Lm_bondLost(s) == [s EXCEPT !.bond = {}, !.broken = {}, !.respawn_timer = @ \/ s.respawns]

LmEnd(s, ok) ==
  LET r == [s EXCEPT !.at = "idle"]
      result == managerCallback[s.cmd].result IN
  CASE s.cmd = "SHUTDOWN"   -> [r EXCEPT !.clients = FALSE]
    [] s.cmd = "HARD_RESET" -> Lm_bondLost([r EXCEPT !.managed = result])
    [] OTHER -> [r EXCEPT !.managed = IF ok THEN result ELSE "UNKNOWN",
                          !.bond_timer = @ \/ (ok /\ result = "ACTIVE" /\ s.bonded)]

\* changeStateForAllNodes returns ok: shutdownAllNodes ignores it, the others stop.
AllNodesDone(s, ok) ==
  LET stages == managerCallback[s.cmd].stages IN
  IF (ok \/ s.cmd = "SHUTDOWN") /\ s.stage < Len(stages)
  THEN [s EXCEPT !.stage = @ + 1, !.next = FirstNode(stages[s.stage + 1])]
  ELSE LmEnd(s, ok)

\* changeStateForNode returns ok: a failure ends the loop unless the change is a hard one.
NodeDone(s, ok) ==
  LET next == NextNode(managerCallback[s.cmd].stages[s.stage], s.next) IN
  IF ~ok /\ s.cmd # "HARD_RESET" THEN AllNodesDone(s, FALSE)
  ELSE IF next \in NodeIds THEN [s EXCEPT !.next = next] ELSE AllNodesDone(s, TRUE)

\* createBondConnection: a new bond may not form in time; an old entry is good enough, and
\* with a bond_timeout of 0 there are no bonds.
BondResults(s, n) ==
  IF n \in s.bond \/ ~s.bonded THEN {NodeDone(s, TRUE)}
  ELSE LET t == [s EXCEPT !.bond = @ \cup {n}] IN
       {NodeDone(t, TRUE)}
         \cup (IF s.faults > 0
               THEN {NodeDone([t EXCEPT !.faults = @ - 1, !.broken = @ \cup {n}], FALSE)} ELSE {})

\* Mistake: the answer of the node is taken for granted.
changeStateForNodeUnread(s, n, t) ==
  LET Became(x) == [s EXCEPT !.node[n] = x, !.faults = IF x = Source[t] THEN @ - 1 ELSE @] IN
  {NodeDone([Became(x) EXCEPT !.bond = IF t = "activate" THEN @ \cup {n} ELSE @ \ {n}], TRUE) :
     x \in IF s.node[n] = Source[t] THEN {Target[t]} \cup (IF s.faults > 0 THEN {Source[t]} ELSE {})
           ELSE {s.node[n]}}

\* changeStateForNode with the client's change_state and get_state.  change_state tells
\* that there was an answer, not that the transition happened; the state read afterwards
\* decides, so a node that is already there counts as changed.
changeStateForNode(s, n, t) ==
  LET Became(x) == [s EXCEPT !.node[n] = x, !.died = IF x = "active" THEN @ \ {n} ELSE @,
                             !.faults = IF s.node[n] = Source[t] /\ x = Source[t] THEN @ - 1 ELSE @]
      States == IF s.node[n] # Source[t] THEN {s.node[n]}
                ELSE {Target[t]} \cup (IF s.faults > 0 THEN {Source[t]} ELSE {}) IN
  UNION {IF x # Target[t] THEN {NodeDone(Became(x), FALSE)}
         ELSE IF t = "activate" THEN BondResults(Became(x), n)
         ELSE IF t = "deactivate"
         THEN {NodeDone([Became(x) EXCEPT !.bond = @ \ {n}, !.broken = @ \ {n}], TRUE)}
         ELSE {NodeDone(Became(x), TRUE)} : x \in States}

\* changeStateForAllNodes, one node: the service of a dead node is not available, and
\* the exception ends the loop whether the change is hard or not.
LmChangeState ==
  /\ In(LifecycleManagers, "change")
  /\ IF st.up[st.next] THEN \E s \in changeStateForNode(st, st.next, LmTransition) : Become(s)
                       ELSE Become(AllNodesDone(st, FALSE))

LmCommand ==
  /\ In(LifecycleManagers, "idle") /\ st.cmds > 0
  /\ \E c \in UserCommands : Become(LmBegin([st EXCEPT !.cmds = @ - 1], c))

checkBondConnections ==
  /\ In(LifecycleManagers, "idle") /\ st.bond_timer
  /\ st.managed = "ACTIVE" /\ st.bond # {}
  /\ IF NodeIds \subseteq st.bond
     THEN st.broken # {} /\ Become(LmBegin(st, "HARD_RESET"))
     ELSE Become([st EXCEPT !.at = "crashed"])

checkBondRespawnConnection ==
  /\ In(LifecycleManagers, "idle") /\ st.respawn_timer
  /\ \/ st.managed = "ACTIVE" /\ Become([st EXCEPT !.respawn_timer = FALSE])
     \/ st.managed # "ACTIVE" /\ ~st.clients /\ Become([st EXCEPT !.at = "crashed"])
     \/ /\ st.managed # "ACTIVE" /\ st.clients
        /\ IF \A n \in NodeIds : st.up[n]
           THEN Become(LmBegin([st EXCEPT !.respawn_timer = FALSE], "STARTUP"))
           ELSE Become([st EXCEPT !.respawn_timer = FALSE])  \* bond_respawn_max_duration_ is over

\* A process dies, and its launcher starts it again.
NodeDies(n) ==
  /\ part \in LifecycleManagers /\ st.faults > 0 /\ st.up[n]
  /\ Become([st EXCEPT !.faults = @ - 1, !.up[n] = FALSE, !.node[n] = "unconfigured",
                       !.broken = @ \cup (st.bond \cap {n}), !.died = @ \cup {n}])
NodeRespawns(n) ==
  /\ part \in LifecycleManagers /\ ~st.up[n]
  /\ Become([st EXCEPT !.up[n] = TRUE])

\* createLifecycleServiceClients has waited for every node; autostart_ or not, with bonds
\* and attempts to start again or without.
LifecycleManagerInit ==
  {[at |-> "idle", cmd |-> "STARTUP", stage |-> 1, next |-> 1, managed |-> "UNCONFIGURED",
    bond |-> {}, broken |-> {}, bond_timer |-> FALSE, respawn_timer |-> FALSE, clients |-> TRUE,
    node |-> [n \in NodeIds |-> "unconfigured"], up |-> [n \in NodeIds |-> TRUE],
    bonded |-> b, respawns |-> r, died |-> {}, cmds |-> LmCommands, faults |-> LmFaults] :
      b \in BOOLEAN, r \in BOOLEAN}

LifecycleManagerNext ==
  \/ LmChangeState \/ LmCommand \/ checkBondConnections \/ checkBondRespawnConnection
  \/ \E n \in NodeIds : NodeDies(n) \/ NodeRespawns(n)

-----------------------------------------------------------------------------
\* When the manager reports ACTIVE every node whose process did not die since is active,
\* and, unless bond_timeout is 0, every node has the bond that checkBondConnections looks up
\* without a test.
ReportedActiveIsActive ==
  part \in LifecycleManagers /\ st.at = "idle" /\ st.managed = "ACTIVE" =>
    /\ st.bonded => st.bond = NodeIds
    /\ \A n \in NodeIds \ st.died : st.node[n] = "active"

\* "if one is down, bring them all down": after the reset for a lost bond no node that
\* lives is active.
\* It does not hold: README, Disagreements.
LostBondBringsAllDown ==
  part \in LifecycleManagers =>
    (st.at = "idle" /\ st.cmd = "HARD_RESET" /\ st.managed = "UNCONFIGURED" =>
       \A n \in NodeIds : st.node[n] # "active")

\* A dead node does not go unnoticed: the manager does not report ACTIVE for ever over
\* a bond that is broken.  With a bond_timeout of 0 there is no bond to break.
DeadNode == part \in LifecycleManagers /\ st.managed = "ACTIVE" /\ st.broken # {}
DeadNodeNoticed == part \in LifecycleManagers /\ (st.managed # "ACTIVE" \/ st.broken = {})

-----------------------------------------------------------------------------
(***************************************************************************)
(* The lifecycle callbacks of the nodes that load plugins and offer action *)
(* servers: what each creates, activates, deactivates and destroys, in     *)
(* which order, and what an error in the middle leaves behind.  A callback *)
(* runs alone, so it is one step; FAILURE returns the node to the state it *)
(* came from, an exception sends it through on_error to unconfigured, and  *)
(* a use of a null pointer ends it ("crashed").                            *)
(***************************************************************************)

CONSTANTS
  PluginIds,    \* the names in the plugin list, a sequence
  PluginBound   \* bound: plugins left over when a node is configured again

ASSUME ServerNodesAssumption == Len(PluginIds) \in Nat \ {0} /\ PluginBound \in Nat

\* Servers whose plugins are in a map, which keeps the first of two with one
\* name, and servers whose plugins are in a vector, which takes both.
MapServers == {"planner_server", "room_planner_server", "controller_server", "nav2_smoother", "navbim_smoother"}
VectorServers == {"behavior_server", "bt_navigator"}
PlainServers == {"docking_server", "route_server", "waypoint_follower", "clearance_server"}
ServerParts == MapServers \cup VectorServers \cup PlainServers

\* The constructors: the planner and the controller own a costmap node from
\* the start, the room planner and the clearance server create it later.
Unconfigured(costmap) ==
  [at |-> "unconfigured", plugins |-> <<>>, servers |-> "none", pub |-> "none", handler |-> FALSE,
   costmap |-> costmap, tuned |-> 0, running |-> FALSE, seen |-> 0]
PlannerNode == Unconfigured("unconfigured")
RoomPlannerNode == Unconfigured("none")
ControllerNode == Unconfigured("unconfigured")
Nav2SmootherNode == Unconfigured("none")
NavbimSmootherNode == Unconfigured("none")
BehaviorNode == Unconfigured("none")
BtNavigatorNode == Unconfigured("none")
DockingNode == Unconfigured("none")
WaypointNode == Unconfigured("none")
OtherNode == Unconfigured("none")
ServerNodesInit ==
  CASE part = "planner_server" -> {PlannerNode}
    [] part = "room_planner_server" -> {RoomPlannerNode}
    [] part = "controller_server" -> {ControllerNode}
    [] part = "nav2_smoother" -> {Nav2SmootherNode}
    [] part = "navbim_smoother" -> {NavbimSmootherNode}
    [] part = "behavior_server" -> {BehaviorNode}
    [] part = "bt_navigator" -> {BtNavigatorNode}
    [] part = "docking_server" -> {DockingNode}
    [] part = "waypoint_follower" -> {WaypointNode}
    [] part \in {"route_server", "clearance_server"} -> {OtherNode}

To(s, place) == [s EXCEPT !.at = place]
OnError(s) == To(s, "unconfigured")
AllPlugins(s, status) == [s EXCEPT !.plugins = [i \in DOMAIN @ |-> [@[i] EXCEPT !.is = status]]]
Serving(s, status) == [s EXCEPT !.servers = status, !.pub = status]

\* The first n plugins of the list, created and put where plugins are kept.
Loaded(s, n, status) ==
  LET loaded[k \in 0 .. n] ==
        IF k = 0 THEN s
        ELSE LET t == loaded[k - 1] IN
             IF part \in MapServers /\ \E i \in DOMAIN t.plugins : t.plugins[i].id = PluginIds[k]
             THEN t
             ELSE [t EXCEPT !.plugins = Append(@, [id |-> PluginIds[k], is |-> status])]
  IN loaded[n]
\* The plugins loaded when one fails: no type is given for it, or it throws.
FailsAt == 0 .. Len(PluginIds) - 1
EveryPlugin == Len(PluginIds)

\* The transitions of the costmap node: taken from the right state, and they may fail.
CostmapStep(s, from, to) ==
  {s} \cup (IF s.costmap = from THEN {[s EXCEPT !.costmap = to]} ELSE {})
CostmapDown(s, from, to) == IF s.costmap = from THEN [s EXCEPT !.costmap = to] ELSE s

-----------------------------------------------------------------------------
(* on_cleanup *)

plannerCleanup(s) == [CostmapDown(Serving(s, "none"), "inactive", "unconfigured") EXCEPT !.plugins = <<>>]
roomPlannerCleanup(s) == [CostmapDown(Serving(s, "none"), "inactive", "unconfigured") EXCEPT !.plugins = <<>>]
controllerCleanup(s) == [CostmapDown(Serving(s, "none"), "inactive", "unconfigured") EXCEPT !.plugins = <<>>]
nav2SmootherCleanup(s) == [Serving(s, "none") EXCEPT !.plugins = <<>>]
navbimSmootherCleanup(s) == [Serving(s, "none") EXCEPT !.plugins = <<>>]
behaviorCleanup(s) == [Serving(s, "none") EXCEPT !.plugins = <<>>]
\* BtActionServer::on_cleanup uses the tree engine of every navigator.
engineUsable(s) == \A i \in DOMAIN s.plugins : s.plugins[i].is # "created"
navigatorCleanup(s) ==
  IF ~engineUsable(s) THEN To(s, "crashed") ELSE [Serving(s, "none") EXCEPT !.plugins = <<>>]
dockingCleanup(s) == Serving(s, "none")
routeCleanup(s) == Serving(s, "none")
waypointCleanup(s) == Serving(s, "none")
clearanceCleanup(s) == CostmapDown(Serving(s, "none"), "inactive", "unconfigured")

CleanedUp(s) ==
  CASE part = "planner_server" -> plannerCleanup(s)
    [] part = "room_planner_server" -> roomPlannerCleanup(s)
    [] part = "controller_server" -> controllerCleanup(s)
    [] part = "nav2_smoother" -> nav2SmootherCleanup(s)
    [] part = "navbim_smoother" -> navbimSmootherCleanup(s)
    [] part = "behavior_server" -> behaviorCleanup(s)
    [] part = "bt_navigator" -> navigatorCleanup(s)
    [] part = "docking_server" -> dockingCleanup(s)
    [] part = "route_server" -> routeCleanup(s)
    [] part = "waypoint_follower" -> waypointCleanup(s)
    [] part = "clearance_server" -> clearanceCleanup(s)
Sv_cleanup(s) == LET t == CleanedUp(s) IN IF t.at = "crashed" THEN t ELSE To(t, "unconfigured")

-----------------------------------------------------------------------------
(* on_configure *)

Ready(s) == To(Serving(Loaded(s, EveryPlugin, "inactive"), "inactive"), "inactive")
\* A plugin that cannot be created or configured: on_cleanup, FAILURE.
GivesUp(s) == {Sv_cleanup(Loaded(s, n, "inactive")) : n \in FailsAt}

\* getCostmap() and the plugins read through the costmap that was not configured.
OnCostmap(s, Rest(_)) ==
  UNION {IF c.costmap = "unconfigured" THEN {To(c, "crashed")} ELSE Rest(c)
         : c \in CostmapStep(s, "unconfigured", "inactive")}
plannerConfigure(s) == OnCostmap(s, LAMBDA c : {Ready(c)} \cup GivesUp(c))
roomPlannerConfigure(s) ==
  OnCostmap([s EXCEPT !.costmap = "unconfigured"], LAMBDA c : {Ready(c)} \cup GivesUp(c))
\* The controller server catches what the plugin loader throws; an exception of
\* a controller's own configure() leaves what was made so far.
controllerConfigure(s) ==
  OnCostmap(s, LAMBDA c : {Ready(c)} \cup GivesUp(c) \cup {OnError(Loaded(c, n, "inactive")) : n \in FailsAt})
nav2SmootherConfigure(s) == {Ready(s)} \cup GivesUp(s)
navbimSmootherConfigure(s) == {Ready(s)} \cup GivesUp(s)
\* loadBehaviorPlugins creates all; configureBehaviorPlugins goes by the index
\* in the list of names and its exceptions are not caught.
configureBehaviorPlugins(s, n) ==
  [s EXCEPT !.plugins = [i \in DOMAIN @ |-> IF i <= n THEN [@[i] EXCEPT !.is = "inactive"] ELSE @[i]]]
behaviorConfigure(s) ==
  LET created == Loaded(s, EveryPlugin, "created") IN
  {Sv_cleanup(Loaded(s, n, "created")) : n \in FailsAt}
  \cup {OnError(configureBehaviorPlugins(created, n)) : n \in FailsAt}
  \cup {To(Serving(configureBehaviorPlugins(created, EveryPlugin), "inactive"), "inactive")}
\* BtActionServer::on_configure, when a library of tree nodes is missing.
WithoutEngine(s, id) == [s EXCEPT !.plugins = Append(@, [id |-> id, is |-> "created"])]
\* A navigator that cannot be created, or whose tree engine cannot be created.
NavigatorsConfigured(s, n) == Loaded(s, n, "inactive")
navigatorConfigure(s) ==
  {Ready(NavigatorsConfigured(s, 0))}
  \cup {Sv_cleanup(NavigatorsConfigured(s, n)) : n \in FailsAt}
  \cup {Sv_cleanup(WithoutEngine(NavigatorsConfigured(s, n), PluginIds[n + 1])) : n \in FailsAt}
\* The dock database cannot be read.
dockingConfigure(s) == {To(Serving(s, "inactive"), "inactive"), Sv_cleanup(Serving(s, "inactive"))}
\* The graph cannot be loaded, or a part throws: FAILURE, and nothing is undone.
routeConfigure(s) == {To(Serving(s, "inactive"), "inactive"), Serving(s, "inactive")}
\* The task executor cannot be created: on_cleanup, and then SUCCESS.
waypointConfigure(s) == {To(Serving(s, "inactive"), "inactive"), To(Sv_cleanup(Serving(s, "inactive")), "inactive")}
\* A costmap that is not configured is not noticed, and needed only to answer.
clearanceConfigure(s) ==
  {To(Serving(c, "inactive"), "inactive") : c \in CostmapStep([s EXCEPT !.costmap = "unconfigured"], "unconfigured", "inactive")}
  \cup {[s EXCEPT !.costmap = "unconfigured"]}

Sv_configure(s) ==
  CASE part = "planner_server" -> plannerConfigure(s)
    [] part = "room_planner_server" -> roomPlannerConfigure(s)
    [] part = "controller_server" -> controllerConfigure(s)
    [] part = "nav2_smoother" -> nav2SmootherConfigure(s)
    [] part = "navbim_smoother" -> navbimSmootherConfigure(s)
    [] part = "behavior_server" -> behaviorConfigure(s)
    [] part = "bt_navigator" -> navigatorConfigure(s)
    [] part = "docking_server" -> dockingConfigure(s)
    [] part = "route_server" -> routeConfigure(s)
    [] part = "waypoint_follower" -> waypointConfigure(s)
    [] part = "clearance_server" -> clearanceConfigure(s)

-----------------------------------------------------------------------------
(* on_activate *)

Active(s) == To(AllPlugins(Serving(s, "active"), "active"), "active")
Listening(s) == [s EXCEPT !.handler = TRUE]
OnActiveCostmap(s, Rest(_)) ==
  UNION {IF c.costmap = "active" THEN Rest(c) ELSE {c} : c \in CostmapStep(s, "inactive", "active")}

\* The action servers are activated first, and stay so when the costmap is not.
plannerActivate(s) == OnActiveCostmap(Serving(s, "active"), LAMBDA c : {Listening(Active(c))})
\* Here the costmap is first; a plugin that throws leaves the action server active.
roomPlannerActivate(s) ==
  OnActiveCostmap([s EXCEPT !.pub = "active"], LAMBDA c : {Listening(Active(c)), Serving(c, "active")})
controllerActivate(s) == OnActiveCostmap(s, LAMBDA c : {Listening(Active(c))})
nav2SmootherActivate(s) == {Active(s)}
navbimSmootherActivate(s) == {Active(s)}
\* TimedBehavior::activate uses the action server its configure() created.
behaviorActivate(s) ==
  IF \E i \in DOMAIN s.plugins : s.plugins[i].is = "created" THEN {To(s, "crashed")} ELSE {Active(s)}
\* A tree that cannot be loaded: on_deactivate for all navigators, FAILURE.
NavigatorsActivated(s) == AllPlugins(Serving(s, "active"), "active")
NavigatorsDeactivated(s) == AllPlugins(Serving(s, "inactive"), "inactive")
navigatorActivate(s) == {To(NavigatorsActivated(s), "active"), NavigatorsDeactivated(s)}
dockingActivate(s) == {Listening(Active(s))}
routeActivate(s) == {Active(s)}
waypointActivate(s) == IF s.servers = "none" THEN {To(s, "crashed")} ELSE {Listening(Active(s))}
clearanceActivate(s) == OnActiveCostmap(s, LAMBDA c : {Active(c)})

Sv_activate(s) ==
  CASE part = "planner_server" -> plannerActivate(s)
    [] part = "room_planner_server" -> roomPlannerActivate(s)
    [] part = "controller_server" -> controllerActivate(s)
    [] part = "nav2_smoother" -> nav2SmootherActivate(s)
    [] part = "navbim_smoother" -> navbimSmootherActivate(s)
    [] part = "behavior_server" -> behaviorActivate(s)
    [] part = "bt_navigator" -> navigatorActivate(s)
    [] part = "docking_server" -> dockingActivate(s)
    [] part = "route_server" -> routeActivate(s)
    [] part = "waypoint_follower" -> waypointActivate(s)
    [] part = "clearance_server" -> clearanceActivate(s)

-----------------------------------------------------------------------------
(* on_deactivate *)

Quiet(s) == To(AllPlugins(Serving(s, "inactive"), "inactive"), "inactive")
Deaf(s) == [s EXCEPT !.handler = FALSE]
plannerDeactivate(s) == Deaf(CostmapDown(Quiet(s), "active", "inactive"))
roomPlannerDeactivate(s) == Deaf(CostmapDown(Quiet(s), "active", "inactive"))
controllerDeactivate(s) == Deaf(CostmapDown(Quiet(s), "active", "inactive"))
nav2SmootherDeactivate(s) == Quiet(s)
navbimSmootherDeactivate(s) == Quiet(s)
behaviorDeactivate(s) == Quiet(s)
navigatorDeactivate(s) == To(NavigatorsDeactivated(s), "inactive")
dockingDeactivate(s) == Deaf(Quiet(s))
routeDeactivate(s) == Quiet(s)
waypointDeactivate(s) == Deaf(Quiet(s))
clearanceDeactivate(s) == CostmapDown(Quiet(s), "active", "inactive")

Sv_deactivate(s) ==
  CASE part = "planner_server" -> plannerDeactivate(s)
    [] part = "room_planner_server" -> roomPlannerDeactivate(s)
    [] part = "controller_server" -> controllerDeactivate(s)
    [] part = "nav2_smoother" -> nav2SmootherDeactivate(s)
    [] part = "navbim_smoother" -> navbimSmootherDeactivate(s)
    [] part = "behavior_server" -> behaviorDeactivate(s)
    [] part = "bt_navigator" -> navigatorDeactivate(s)
    [] part = "docking_server" -> dockingDeactivate(s)
    [] part = "route_server" -> routeDeactivate(s)
    [] part = "waypoint_follower" -> waypointDeactivate(s)
    [] part = "clearance_server" -> clearanceDeactivate(s)

-----------------------------------------------------------------------------
(* Goals, parameters and the commands of the lifecycle manager.            *)

\* A goal of an active action server; the callback holds the parameter lock
\* where there is one, and deactivation and destruction wait for it.
ServerRuns ==
  /\ part \in ServerParts /\ st.servers = "active" /\ ~st.running
  /\ Become([st EXCEPT !.running = TRUE, !.seen = st.tuned])
ServerRan ==
  /\ part \in ServerParts /\ st.running
  /\ Become([st EXCEPT !.running = FALSE])

Retuned == [st EXCEPT !.tuned = 1 - @]
\* The callback waits for the lock of the running goal.
plannerParameters == /\ part = "planner_server" /\ st.handler /\ ~st.running /\ Become(Retuned)
roomPlannerParameters == /\ part = "room_planner_server" /\ st.handler /\ ~st.running /\ Become(Retuned)
dockingParameters == /\ part = "docking_server" /\ st.handler /\ ~st.running /\ Become(Retuned)
\* The controller server refuses a change while it cannot have the lock.
controllerParameters ==
  /\ part = "controller_server" /\ st.handler
  /\ Become(IF st.running THEN st ELSE Retuned)
\* The waypoint follower takes no lock.
waypointParameters == /\ part = "waypoint_follower" /\ st.handler /\ Become(Retuned)

ServerTransition ==
  /\ part \in ServerParts /\ ~st.running
  /\ \/ st.at = "unconfigured" /\ Len(st.plugins) <= PluginBound /\ \E s \in Sv_configure(st) : Become(s)
     \/ st.at = "inactive" /\ \E s \in Sv_activate(st) : Become(s)
     \/ st.at = "active" /\ Become(Sv_deactivate(st))
     \/ st.at = "inactive" /\ Become(Sv_cleanup(st))
\* autostart: configure, and activate if that succeeded.
autostart ==
  /\ In(ServerParts, "unconfigured") /\ ~st.running /\ Len(st.plugins) <= PluginBound
  /\ \E s \in Sv_configure(st) :
       IF s.at = "inactive" THEN \E t \in Sv_activate(s) : Become(t) ELSE Become(s)
\* runCleanups, before the process ends and in the destructor.
runCleanups ==
  /\ part \in ServerParts /\ st.at \in {"inactive", "active"} /\ ~st.running
  /\ Become(Sv_cleanup(IF st.at = "active" THEN Sv_deactivate(st) ELSE st))
\* on_shutdown releases nothing.
Sv_on_shutdown ==
  /\ part \in ServerParts /\ st.at \in {"unconfigured", "inactive", "active"} /\ ~st.running
  /\ Become(To(st, "finalized"))

ServerNodesNext ==
  \/ ServerRuns \/ ServerRan \/ ServerTransition \/ autostart \/ runCleanups \/ Sv_on_shutdown
  \/ plannerParameters \/ roomPlannerParameters \/ dockingParameters \/ controllerParameters
  \/ waypointParameters

-----------------------------------------------------------------------------
(* A node that reports itself active has everything active: its action     *)
(* servers and publishers, all its plugins, and the costmap node it owns.  *)
(* Whatever failed in earlier transitions, on_activate either reaches all  *)
(* of them, fails, or ends the process.                                    *)
ActiveNodeIsComplete ==
  part \in ServerParts /\ st.at = "active" =>
    /\ st.servers = "active" /\ st.pub = "active"
    /\ \A i \in DOMAIN st.plugins : st.plugins[i].is = "active"
    /\ st.costmap \in {"none", "active"}
    /\ part \in MapServers \cup VectorServers => {st.plugins[i].id : i \in DOMAIN st.plugins} = {PluginIds[i] : i \in DOMAIN PluginIds}

\* A goal is worked on with the parameters it started with: the parameter
\* callbacks wait for the running goal or refuse.  The waypoint follower, which
\* takes no lock, is excepted.
GoalKeepsParameters ==
  part \in ServerParts \ {"waypoint_follower"} /\ st.running => st.seen = st.tuned

\* A node that is not active has no active action server, but for the two
\* planners, which activate their action servers before the step that may fail.
InactiveServesNothing ==
  part \in ServerParts \ {"planner_server", "room_planner_server"} /\ st.at \in {"unconfigured", "inactive"} =>
    st.servers # "active"
=============================================================================
