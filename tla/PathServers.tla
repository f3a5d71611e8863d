---------------------------- MODULE PathServers -----------------------------
(***************************************************************************)
(* The execute callbacks that compute: planner, room planner, smoother and *)
(* route server.                                                           *)
(***************************************************************************)
EXTENDS ExecuteCallback

-----------------------------------------------------------------------------
(***************************************************************************)
(* nav2_planner::PlannerServer: computePlan and computePlanThroughPoses.   *)
(* Both follow the same steps; the second plans one leg per pose.          *)
(***************************************************************************)

CONSTANT MaxLegs  \* poses of a compute_path_through_poses goal

ASSUME LegsAssumption == MaxLegs \in Nat \ {0}

Planners == {"compute_path_to_pose", "compute_path_through_poses"}
PlannerOwn == [leg : 0..MaxLegs]
PlannerInitOwn == [leg |-> 0]

PlannerEntry == GetCurrentGoal(Planners, "inactive")

\* Mistake: a deactivated server goes on with the null goal it was given.
PlannerIsServerInactiveIgnored == Here(Planners, "inactive") /\ Local(Goto("cancel"))

PlannerIsServerInactive == ReturnIfInactive(Planners, "inactive", "cancel")

PlannerIsCancelRequested ==
  \/ TestCancel(Planners, "cancel", "cancelled", "costmap")
  \/ EndAll(Planners, "cancelled", EmptyResult)

\* The costmap becomes current or the wait times out.
PlannerWaitForCostmap ==
  Here(Planners, "costmap") /\ \E next \in {"preempt", "error"} : Local(Goto(next))

\* The goal is passed by value: the pending goal becomes current, cb.job stays.
PlannerGetPreemptedGoalIfRequested ==
  /\ Here(Planners, "preempt")
  /\ IF preempt_requested THEN AcceptPendingGoal ELSE UNCHANGED <<handleVars, slotVars>>
  /\ Called([cb EXCEPT !.at = "start", !.kept = @ \/ preempt_requested])

\* getStartPose uses the goal; start or goal may have no transform, and a goal
\* through poses may have no poses.
PlannerGetStartPose ==
  /\ Here(Planners, "start")
  /\ IF cb.job = None
     THEN Local(Goto("crashed"))
     ELSE \E next \in {"plan", "error"} : Local([cb EXCEPT !.at = next, !.own.leg = 0])

\* createPlan of the plugin, then validatePath: a path, an empty path or an
\* exception, or the plugin saw the cancel request.
PlannerGetPlan ==
  /\ Here(Planners, "plan")
  /\ \/ Local(Goto("error"))
     \/ is_cancel_requested /\ Local(Goto("cancelled"))
     \/ LET leg == cb.own.leg + 1
            last == server = "compute_path_to_pose" \/ leg = MaxLegs
        IN  Local([cb EXCEPT !.at = IF last THEN "succeed" ELSE "plan", !.own.leg = leg])

PlannerError == EndCurrent(Planners, "error", Answer("error"))
PlannerSucceed == EndSucceeded(Planners, "succeed", Answer("done"))

PlannerNext ==
  \/ PlannerEntry \/ PlannerIsServerInactive \/ PlannerIsCancelRequested
  \/ PlannerWaitForCostmap \/ PlannerGetPreemptedGoalIfRequested \/ PlannerGetStartPose
  \/ PlannerGetPlan \/ PlannerError \/ PlannerSucceed

-----------------------------------------------------------------------------
(***************************************************************************)
(* RoomPlannerServer::computePlanInRoom, the execute callback of the       *)
(* action server compute_path_to_pose_in_room.  Costmap lookup and the     *)
(* planner plugin are choices: an error exit, an empty path or a path.     *)
(* own.code is result->error_code once getPlan has returned.               *)
(***************************************************************************)

RoomPlanners == {"compute_path_to_pose_in_room"}
RoomOwn == [code : {"NONE", "NO_VALID_PATH"}]
RoomInitOwn == [code |-> "NONE"]

RoomEntry == GetCurrentGoal(RoomPlanners, "inactive")

\* isServerInactive, at the start and again before the result is sent
RoomIsServerInactive ==
  ReturnIfInactive(RoomPlanners, "inactive", "cancel") \/ ReturnIfInactive(RoomPlanners, "inactive2", "cancel2")

\* isCancelRequested, the same, with its terminate_all()
RoomIsCancelRequested ==
  \/ TestCancel(RoomPlanners, "cancel", "cancelled", "preempt")
  \/ TestCancel(RoomPlanners, "cancel2", "cancelled", "succeed")
  \/ EndAll(RoomPlanners, "cancelled", EmptyResult)

\* getPreemptedGoalIfRequested takes the callback's goal by value: the pending
\* goal becomes the server's current goal, the local variable keeps the old one.
RoomGetPreemptedGoalIfRequested ==
  /\ Here(RoomPlanners, "preempt")
  /\ IF preempt_requested THEN AcceptPendingGoal ELSE UNCHANGED <<handleVars, slotVars>>
  /\ Called([cb EXCEPT !.at = "start", !.kept = @ \/ preempt_requested])

\* goal->use_start is the first use of the local goal; the robot may not be localised.
RoomGetStartPose ==
  /\ Here(RoomPlanners, "start")
  /\ IF cb.job = None
     THEN Local(Goto("crashed"))
     ELSE \E next \in {"plan", "error"} : Local(Goto(next))

\* No costmap for the room or floor, an unknown planner, or an exception of the
\* plugin; or getPlan returns, and an empty path is a result too.
RoomPlan ==
  /\ Here(RoomPlanners, "plan")
  /\ \/ Local(Goto("error"))
     \/ \E c \in {"NONE", "NO_VALID_PATH"} : Local([cb EXCEPT !.at = "inactive2", !.own.code = c])

RoomError == EndCurrent(RoomPlanners, "error", Answer("error"))

\* Mistake: the answer goes to the goal planned for, past the slots of the server.
RoomSucceedAsJob ==
  /\ Here(RoomPlanners, "succeed")
  /\ handle' = [handle EXCEPT ![cb.job] = "succeeded"]
  /\ result' = [result EXCEPT ![cb.job] = Answer("done")]
  /\ UNCHANGED slotVars
  /\ Called(Goto("return"))

RoomSucceed ==
  EndSucceeded(RoomPlanners, "succeed", Answer(IF cb.own.code = "NONE" THEN "done" ELSE "no_path"))

RoomNext ==
  \/ RoomEntry \/ RoomIsServerInactive \/ RoomIsCancelRequested
  \/ RoomGetPreemptedGoalIfRequested \/ RoomGetStartPose \/ RoomPlan \/ RoomError \/ RoomSucceed

-----------------------------------------------------------------------------
(***************************************************************************)
(* nav2_smoother::SmootherServer::smoothPlan.  It never looks at cancel or *)
(* preemption requests: a goal is smoothed to its end.                     *)
(***************************************************************************)

Smoothers == {"smooth_path"}
SmootherOwn == [none : {TRUE}]
SmootherInitOwn == [none |-> TRUE]

SmootherEntry == GetCurrentGoal(Smoothers, "setup")

\* The smoother plugin is unknown, the path is invalid, smoothing fails or ends in
\* a collision; or the path is smoothed.
SmootherSmooth ==
  /\ Here(Smoothers, "setup")
  /\ IF cb.job = None
     THEN Local(Goto("return"))
     ELSE \E next \in {"error", "succeed"} : Local(Goto(next))

SmootherError == EndCurrent(Smoothers, "error", Answer("error"))
SmootherSucceed == EndSucceeded(Smoothers, "succeed", Answer("done"))

SmootherNext == SmootherEntry \/ SmootherSmooth \/ SmootherError \/ SmootherSucceed

-----------------------------------------------------------------------------
(***************************************************************************)
(* nav2_route::RouteServer: processRouteRequest for compute_route and      *)
(* compute_and_track_route, with RouteTracker::trackRoute and the service  *)
(* set_route_graph, which runs on another thread without a lock.           *)
(*                                                                         *)
(*   graph     "loaded" or "empty"                                         *)
(*   route     the route in hand is for the graph that is loaded now       *)
(*   blocked   rerouting_info holds a start node and blocked edges         *)
(***************************************************************************)

Routers == {"compute_route", "compute_and_track_route"}
RouteOwn ==
  [graph : {"loaded", "empty"}, route : BOOLEAN, blocked : Goals \cup {None}, loads : 0..1]
RouteInitOwn == [graph |-> "loaded", route |-> TRUE, blocked |-> None, loads |-> 0]

RouteEntry ==
  /\ Here(Routers, "entry")
  /\ Local([cb EXCEPT !.at = "inactive", !.job = CurrentGoal, !.own.blocked = None])

\* isRequestValid: active, not cancelled, and there is a graph
RouteIsInactive == ReturnIfInactive(Routers, "inactive", "cancel")
RouteIsCancelled == TestCancel(Routers, "cancel", "cancelled", "graph")
RouteCancelled == EndAll(Routers, "cancelled", EmptyResult)
RouteHasGraph ==
  /\ Here(Routers, "graph")
  /\ Local(Goto(IF cb.own.graph = "empty" THEN "no_graph" ELSE "preempt"))
RouteNoGraph == EndCurrent(Routers, "no_graph", EmptyResult)

RouteIsPreempted ==
  Here(Routers, "preempt") /\ Local(Goto(IF preempt_requested THEN "accept" ELSE "find"))

RouteAccept ==
  /\ Here(Routers, "accept")
  /\ AcceptPendingGoal
  /\ Called([cb EXCEPT !.at = "find", !.job = IF is_active(pending) THEN pending ELSE None,
                       !.own.blocked = None])

\* findRoute and densify: no start or goal node, no route, or a route.
RouteFind ==
  /\ Here(Routers, "find")
  /\ IF cb.job = None
     THEN Local(Goto("crashed"))
     ELSE \/ Local(Goto("error"))
          \/ Local([cb EXCEPT !.at = IF server = "compute_route" THEN "succeed" ELSE "track",
                              !.own.route = TRUE])

\* trackRoute: interrupted by a cancel or preemption request or by an operation
\* that asks for a new route, the pose is lost or an operation fails, or the last
\* node is reached.
RouteTrack ==
  /\ Here(Routers, "track")
  /\ IF is_cancel_requested \/ preempt_requested
     THEN Local(Goto("inactive"))
     ELSE \/ \E next \in {"error", "succeed"} : Local(Goto(next))
          \/ Local([cb EXCEPT !.at = "inactive", !.own.blocked = cb.job])

RouteError == EndCurrent(Routers, "error", Answer("error"))
RouteSucceed ==
  EndSucceeded(Routers, "succeed",
               [kind |-> "done", for |-> {cb.job, cb.own.blocked} \ {None}])

\* setRouteGraph: the graph is cleared first; a file that does not load leaves it
\* empty.  A route in hand points into the graph that is gone.
SetRouteGraph ==
  /\ server \in Routers
  /\ cb.own.loads = 0
  /\ \E g \in {"loaded", "empty"} :
       Local([cb EXCEPT !.own.graph = g, !.own.route = FALSE, !.own.loads = 1])

RouteNext ==
  \/ RouteEntry \/ RouteIsInactive \/ RouteIsCancelled \/ RouteCancelled \/ RouteHasGraph
  \/ RouteNoGraph \/ RouteIsPreempted \/ RouteAccept \/ RouteFind \/ RouteTrack
  \/ RouteError \/ RouteSucceed
=============================================================================
