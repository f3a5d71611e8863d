----------------------------- MODULE NavServers -----------------------------
(***************************************************************************)
(* Every execute callback of the navigation stack against the same action  *)
(* server, clients and lifecycle: one specification, one initial state per *)
(* server.  The on_activate and on_deactivate of the nodes switch the      *)
(* velocity publisher and the action server in the order the nodes do.     *)
(***************************************************************************)
EXTENDS PathServers, DriveServers, Navigators

CONSTANT Servers  \* the action servers that are modelled

AllServers ==
  Planners \cup RoomPlanners \cup Controllers \cup Smoothers \cup Behaviors \cup Followers \cup Docks
    \cup Routers \cup Navigators

ASSUME ServersAssumption == Servers \subseteq AllServers

InitOwns(s) ==
  CASE s \in Planners    -> {PlannerInitOwn}
    [] s \in RoomPlanners -> {RoomInitOwn}
    [] s \in Controllers -> {ControllerInitOwn}
    [] s \in Smoothers   -> {SmootherInitOwn}
    [] s \in Behaviors   -> {BehaviorInitOwn}
    [] s \in Followers   -> {FollowerInitOwn}
    [] s \in Docks       -> {DockInitOwn}
    [] s \in Routers     -> {RouteInitOwn}
    [] OTHER             -> BtInitOwns

NavInit ==
  /\ Init
  /\ server \in Servers
  /\ \E own \in InitOwns(server) : cb = IdleCallback(own)

-----------------------------------------------------------------------------
(* Lifecycle of the nodes *)

\* on_activate: the velocity publisher before the action server.
NavActivate ==
  Activate /\ cb' = [cb EXCEPT !.gate = TRUE] /\ UNCHANGED server

\* TimedBehavior::activate sets enabled_ when its action server is already active.
BehaviorEnable ==
  /\ server \in Behaviors
  /\ lifecycle = "active" /\ ~cb.own.enabled
  /\ Local([cb EXCEPT !.own.enabled = TRUE])

\* on_deactivate: TimedBehavior::deactivate switches the publisher off first.
NavDeactivateBegin ==
  /\ server \in Behaviors => cb.own.enabled
  /\ DeactivateBegin
  /\ cb' = IF server \in Behaviors THEN [cb EXCEPT !.gate = FALSE] ELSE cb
  /\ UNCHANGED server

\* Once the worker has finished, the controller server publishes a stop command;
\* then the publishers go off.
NavDeactivateEnd ==
  /\ DeactivateEnd
  /\ cb' = CASE server \in Behaviors   -> [cb EXCEPT !.own.enabled = FALSE]
             [] server \in Controllers -> [Publish(cb, "zero") EXCEPT !.gate = FALSE]
             [] OTHER                  -> [cb EXCEPT !.gate = FALSE]
  /\ UNCHANGED server

-----------------------------------------------------------------------------
Callback ==
  \/ server \in Planners /\ PlannerNext
  \/ server \in RoomPlanners /\ RoomNext
  \/ server \in Controllers /\ ControllerNext
  \/ server \in Smoothers /\ SmootherNext
  \/ server \in Behaviors /\ BehaviorNext
  \/ server \in Followers /\ FollowerNext
  \/ server \in Docks /\ DockNext
  \/ server \in Routers /\ RouteNext
  \/ server \in Navigators /\ BtNext

WorkerNext ==
  \/ EnterCallback \/ Callback
  \/ LeaveCallback(IF server \in Followers THEN FollowerMembers ELSE cb.own)
  \/ (WorkReturned \/ WorkExit) /\ UNCHANGED <<server, cb>>

Dead == cb.at \in {"crashed", "no_plugin", "overrun"}

NavNext ==
  /\ ~Dead
  /\ \/ ExecutorNext /\ UNCHANGED <<server, cb>>
     \/ NavActivate \/ BehaviorEnable \/ NavDeactivateBegin \/ NavDeactivateEnd
     \/ DeactivateDeadline /\ UNCHANGED <<server, cb>>
     \/ WorkerNext
     \/ SetRouteGraph \/ OtherNavigator

NavSpec == NavInit /\ [][NavNext]_navVars

\* The worker and executor threads keep running, and a controller that asked for
\* more cycles to cancel gets to its end; nobody is obliged to send a goal or to
\* deactivate a node, and no plugin is obliged to finish.
NavFairness ==
  /\ WF_navVars(WorkerNext /\ ~Dead)
  /\ WF_navVars(HandleAccepted /\ UNCHANGED <<server, cb>>)
  /\ WF_navVars(NavDeactivateEnd)
  /\ SF_navVars(ControllerStops)

LiveNavSpec == NavSpec /\ NavFairness

-----------------------------------------------------------------------------
(* Properties *)

OwnTypeOK ==
  CASE server \in Planners    -> cb.own \in PlannerOwn
    [] server \in RoomPlanners -> cb.own \in RoomOwn
    [] server \in Controllers -> cb.own \in ControllerOwn
    [] server \in Smoothers   -> cb.own \in SmootherOwn
    [] server \in Behaviors   -> cb.own \in BehaviorOwn
    [] server \in Followers   -> cb.own \in FollowerOwn
    [] server \in Docks       -> cb.own \in DockOwn
    [] server \in Routers     -> cb.own \in RouteOwn
    [] OTHER                  -> cb.own \in BtOwn

\* Type correctness; the callback is somewhere exactly while the worker is in it,
\* and dockRobot makes at most max_retries_ new attempts.
NavTypeOK ==
  /\ TypeOK
  /\ cb.job \in Goals \cup {None} /\ cb.velocity \in {"zero", "moving"}
  /\ cb.gate \in BOOLEAN /\ cb.kept \in BOOLEAN
  /\ cb.at = "off" <=> worker # "callback"
  /\ OwnTypeOK

\* A callback dereferences a null goal only when a deactivation whose deadline
\* passed took the goal away under it, and only in the servers that use
\* get_current_goal, get_pending_goal or accept_pending_goal unchecked.  The planner,
\* room planner, smoother and docking servers never do.  (The follower also dereferences the null
\* handle of a waypoint goal that was rejected.)
NullGoalOnlyAfterDeactivation ==
  cb.at = "crashed" =>
    \/ /\ deactivations > 0
       /\ server \notin Planners \cup RoomPlanners \cup Smoothers \cup Docks
    \/ server \in Followers /\ cb.own.sent = "rejected"

\* The servers that keep the old goal's data after they accepted a preempting goal:
\* getPreemptedGoalIfRequested takes the goal by value, onPreempt may not have a
\* transform for the new pose, and the missed waypoints are not cleared.
KeepsData == Planners \cup RoomPlanners \cup Docks \cup Followers \cup PoseNavigators

\* A goal that succeeds was worked on with its own data, unless one of these servers
\* was preempted; and a waypoint goal that reports no missed waypoint has reached,
\* in its last round, them all (all that could be converted, of GPS waypoints): from
\* goal_index on, if that round is the first one of the goal the callback began with.
SuccessIsOwn ==
  \A g \in Goals : handle[g] = "succeeded" =>
    /\ result[g].for \subseteq {g} \/ (cb.kept /\ server \in KeepsData)
    /\ result[g].kind # "short"

\* The last command is a stop command whenever no callback runs: every exit of
\* computeControl, execute, dockRobot and undockRobot stops the robot, except one of
\* computeControl with publish_zero_velocity off, that of a behavior that lost the robot
\* pose, and a deactivated behavior, whose publisher is off before it can stop.
StoppedWhenIdle ==
  cb.velocity = "moving" /\ worker = "ready" /\ lifecycle # "deactivating" =>
    \/ server \in Controllers /\ ~cb.own.zero
    \/ server \in Behaviors /\ (cb.own.lost \/ deactivations > 0)

\* While the node is active, the robot is driven for a goal that is still being
\* executed; the exception is a control loop that has refused a preempting goal and
\* follows the path of the goal it was preempted from.
MovesForAGoal ==
  cb.velocity = "moving" /\ cb.at \in {"loop", "velocity", "reached", "cycle", "approach", "undock"}
    /\ deactivations = 0 =>
      is_active(current) \/ (server \in Controllers /\ cb.own.refused)

\* The robot moves for somebody: while a callback runs for its goal, and after it not at
\* all.
DrivenForAGoal == StoppedWhenIdle /\ MovesForAGoal

\* What a callback takes it gives back on every way out: the muxer never names a
\* navigator that is not navigating (an entry that was overwritten is freed by the
\* one that overwrote it), and a dock allocated for a goal is freed, except when the
\* robot was already in the dock.
ResourcesReleased ==
  /\ server \in Navigators =>
       /\ cb.own.muxer = "this" =>
            cb.at \notin {"off", "entry", "received", "start", "result", "return"}
       /\ cb.own.muxer = "other" => cb.own.other = "navigating"
  /\ server \in Docks /\ cb.at = "off" /\ cb.own.dock = "new" => cb.own.leaked

\* Only one navigator at a time: the muxer is tested in isNavigating and set in
\* startNavigating, with the loading of the tree in between.
\* It does not hold: README, Disagreements.
OneNavigator ==
  server \in Navigators /\ cb.own.other = "navigating" =>
    cb.at \notin {"loop", "tick", "on_loop", "pending", "on_preempt", "accept", "refuse",
                  "initialize"}

\* A route that is answered is one of the graph that is loaded: set_route_graph clears it
\* without a lock.  It does not hold: README, Disagreements.
RouteIsOfGraph == server \in Routers /\ cb.at = "succeed" => cb.own.route

\* The callbacks that come to an end by themselves.
Bounded == Planners \cup RoomPlanners \cup Smoothers \cup {"compute_route"}

\* The goal in the current slot gets its answer: from a callback that ends by itself
\* in any case, from every other server once its cancellation is requested, whatever
\* arrives in between.  Not when the node is deactivated, the process dies or the
\* waypoint follower waits for a response it would have to take itself.
CurrentGoalAnswered ==
  \A g \in Goals :
    current = g /\ (handle[g] = "canceling" \/ server \in Bounded) ~>
      handle[g] \in TerminalStates \/ deactivations > 0 \/ Dead \/ cb.at = "stuck"

\* deactivate() returns for the servers whose loop looks at is_server_active or has
\* no loop; the others go on until their work is done.
DeactivationEnds ==
  lifecycle = "deactivating" /\ server \in Bounded \cup Controllers \cup Navigators ~>
    lifecycle # "deactivating" \/ Dead

=============================================================================
