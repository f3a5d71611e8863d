--------------------------- MODULE PathFollowing ----------------------------
(***************************************************************************)
(* What follows a plan: the tracker of a route with its operations, and    *)
(* the controllers that turn a path into velocities.                       *)
(***************************************************************************)
EXTENDS Component

-----------------------------------------------------------------------------
(***************************************************************************)
(* The route tracker of the route server, from one request to the next:    *)
(* the route is planned, tracked until it is completed or an operation     *)
(* asks for another one, and planned again from where the robot is.  The   *)
(* robot drives along a line on which the nodes lie; edges lead forward.   *)
(*                                                                         *)
(*   here           the request starts at the robot, not at the first node *)
(*   route, idx     the edges of the route, route_edges_idx                *)
(*   next, last, cur, within   the rest of the tracking state              *)
(*   info           rerouting_info                                         *)
(*   flag           reroute_ of the rerouting service                      *)
(*   marker, limit  of the time marker and of the speed limit's topic      *)
(*   open, since    the edge whose entry was performed last and whose exit *)
(*                  was not, and the time of its entry                     *)
(*   reached        the node achieved last in the request                  *)
(*   faults         operations performed for the wrong edge or duration    *)
(***************************************************************************)

CONSTANTS
  TrPlaces,    \* where the nodes are, in the order of the line
  TrEdges,     \* the edges: a function of their ids to records of start and end
  TrRadius,    \* radius_to_achieve_node
  TrBoundary,  \* boundary_radius_to_achieve_node
  TrMinDist,   \* min_dist_from_start of the goal intent extractor
  TrTime,      \* bound of the clock
  TrRequests   \* bound of the number of requests

Trackers == {"tracker"}
NoNode == 0
NoEdge == -1
TrGoal == Len(TrPlaces)
TrIds == DOMAIN TrEdges
NoReroute == [blocked |-> {}, first |-> TRUE, curr |-> NoEdge, start |-> NoNode, pose |-> 0]

trackerInit ==
  {[at |-> "find", x |-> TrPlaces[1], now |-> 1, requests |-> 1, aggregate |-> a, here |-> h,
    route |-> <<>>, idx |-> -1, next |-> NoNode, last |-> NoNode, cur |-> NoEdge,
    within |-> FALSE, info |-> NoReroute, flag |-> FALSE, marker |-> [edge |-> 0, since |-> 0],
    limit |-> NoEdge, open |-> NoEdge, since |-> 0, reached |-> NoNode, faults |-> {}] :
     a \in BOOLEAN, h \in BOOLEAN}

\* The tracking state and the route are locals of the call that tracks, the rerouting
\* state of the request.
tracked(s) == [s EXCEPT !.route = <<>>, !.idx = -1, !.next = NoNode, !.last = NoNode,
                        !.cur = NoEdge, !.within = FALSE]
requestEnds(s) == [tracked(s) EXCEPT !.at = "done", !.info = NoReroute, !.reached = NoNode]

\* The routes that the planner may find between two nodes without the blocked edges.
routesBetween(a, b, blocked) ==
  {r \in [1..(b - a) -> TrIds \ blocked] :
     \A i \in 1..(b - a) : TrEdges[r[i]].start = a + i - 1 /\ TrEdges[r[i]].end = a + i}

\* The start node is dropped when the robot has left it towards the next one; the edge
\* is remembered if the robot was on it before.
pruneStart(s, from, p, r) ==
  IF r # <<>> /\ (s.here \/ ~s.info.first) /\ p - TrPlaces[from] > TrMinDist
  THEN [route |-> Tail(r), start |-> from + 1,
        curr |-> IF s.info.curr = Head(r) THEN Head(r) ELSE NoEdge]
  ELSE [route |-> r, start |-> from, curr |-> NoEdge]

\* The node nearest to a place, the first of two.
nearestNode(p) ==
  CHOOSE n \in 1..TrGoal : \A m \in 1..TrGoal :
    LET d == Abs(TrPlaces[n] - p)  e == Abs(TrPlaces[m] - p) IN d < e \/ (d = e /\ n <= m)
requestStart(s) ==
  IF s.here THEN [node |-> nearestNode(s.x), pose |-> s.x] ELSE [node |-> 1, pose |-> TrPlaces[1]]

\* A route is found from the last node, or from the request's start if none was achieved,
\* pruned and its tracking begun; without a route the request fails.
trackRouteBegins(s, pruned) ==
  [s EXCEPT !.at = "track", !.route = pruned.route, !.idx = -1, !.next = pruned.start,
            !.cur = pruned.curr, !.within = FALSE,
            !.last = IF pruned.curr = NoEdge THEN NoNode ELSE TrEdges[pruned.curr].start,
            !.info.curr = pruned.curr, !.info.first = FALSE]
Tr_findRoute ==
  /\ In(Trackers, "find")
  /\ LET again == st.info.start # NoNode
         from  == IF again THEN st.info.start ELSE requestStart(st).node
         p     == IF again THEN st.info.pose ELSE requestStart(st).pose
         found == routesBetween(from, TrGoal, st.info.blocked)
     IN  \/ \E r \in found : Become(trackRouteBegins(st, pruneStart(st, from, p, r)))
         \/ found = {} /\ Become(requestEnds(st))

isStartOrEndNode(s) == s.idx = Len(s.route) - 1 \/ (s.idx = -1 /\ s.cur = NoEdge)
inRadius(s) ==
  Abs(TrPlaces[s.next] - s.x) <= (IF isStartOrEndNode(s) THEN TrBoundary ELSE TrRadius)
\* At the node, or out of its radius again; else by the radius alone at the ends of the
\* route, and past the line between the two edges elsewhere.
nodeAchieved(s) ==
  \/ TrPlaces[s.next] = s.x
  \/ ~inRadius(s) /\ s.within
  \/ inRadius(s) /\ (isStartOrEndNode(s) \/ TrPlaces[s.next] - s.x <= 0)

\* The tracker's state after looking at the pose.
trackerAdvances(s) ==
  LET i == s.idx + 1 IN
  IF ~nodeAchieved(s) THEN [s EXCEPT !.within = inRadius(s)]
  ELSE IF i < Len(s.route)
  THEN [s EXCEPT !.within = FALSE, !.last = s.next, !.reached = s.next, !.idx = i,
                 !.cur = s.route[i + 1], !.next = TrEdges[s.route[i + 1]].end]
  ELSE [s EXCEPT !.within = FALSE, !.last = s.next, !.idx = i, !.cur = NoEdge, !.next = NoNode]

\* The edge that was left: the one before on the route, or the one that the route was
\* planned again on.
edgeExited(s) ==
  IF s.idx > 0 THEN s.route[s.idx] ELSE IF s.idx = 0 THEN s.info.curr ELSE NoEdge

\* The time marker writes the time of an edge that was entered and left.
timeMarker(s, entered, exited) ==
  LET timed == exited # NoEdge /\ exited = s.marker.edge
      late  == timed /\ s.marker.since > 0 /\ s.now - s.marker.since # s.now - s.since
  IN  [s EXCEPT !.marker = [edge |-> IF entered = NoEdge THEN 0 ELSE entered, since |-> s.now],
                !.faults = @ \cup (IF late THEN {"time"} ELSE {})]
adjustSpeedLimit(s, entered) == IF entered = NoEdge THEN s ELSE [s EXCEPT !.limit = entered]
\* The operations of the graph: at the node, on entering and on leaving an edge.
graphOperations(s, entered, exited) ==
  [s EXCEPT !.open = IF entered # NoEdge \/ exited # NoEdge THEN entered ELSE @,
            !.since = IF entered # NoEdge THEN s.now ELSE @,
            !.faults = @ \cup (IF exited # NoEdge /\ exited # s.open THEN {"exit"} ELSE {})]
\* OperationsManager::process up to the operations that run on every query.
statusOperations(s) ==
  LET exited == edgeExited(s)
  IN  graphOperations(adjustSpeedLimit(timeMarker(s, s.cur, exited), s.cur), s.cur, exited)

\* The edges that the collision monitor looks at: the current one, and the rest of the
\* route if the current one is on it.
edgesAhead(s) ==
  IF s.cur = NoEdge THEN {}
  ELSE IF s.idx = -1 THEN {s.cur} ELSE {s.route[i] : i \in (s.idx + 1)..Len(s.route)}

\* What the tracker leaves for the next route.
rerouteState(s, blocked) ==
  [blocked |-> IF s.aggregate THEN s.info.blocked \cup blocked ELSE blocked,
   first |-> s.info.first, curr |-> s.cur,
   start |-> s.last, pose |-> IF s.last = NoNode THEN 0 ELSE s.x]

\* One turn of trackRoute.  A collision reports an edge or fails the request; a request
\* to plan again is taken by the query operations, also by those of the last turn.
trackerTurn(s, blocked) ==
  LET a == trackerAdvances(s)
      o == IF nodeAchieved(s) THEN statusOperations(a) ELSE a
      q == [o EXCEPT !.flag = FALSE]
  IN  IF a.next = NoNode THEN requestEnds(q)
      ELSE IF s.flag \/ blocked # {}
      THEN [tracked(q) EXCEPT !.at = "find", !.info = rerouteState(a, blocked)]
      ELSE q

Tr_trackRoute ==
  /\ In(Trackers, "track")
  /\ \/ \E b \in {{}} \cup {{e} : e \in edgesAhead(trackerAdvances(st))} : Become(trackerTurn(st, b))
     \/ Become(requestEnds(trackerTurn(st, {})))
\* The request is cancelled, the pose is not known, or the graph names an operation that
\* is not loaded.
Tr_interrupted ==
  In(Trackers, "track") /\ Become(requestEnds(st))
\* A request is replaced by another, or one comes to an idle server.
Tr_request ==
  /\ part \in Trackers /\ st.at \in {"track", "done"} /\ st.requests < TrRequests
  /\ \E h \in BOOLEAN :
       Become([requestEnds(st) EXCEPT !.at = "find", !.requests = @ + 1, !.here = h])

\* Beside the tracker: the robot drives on or waits, and anyone may ask to plan again.
Tr_drive ==
  /\ part \in Trackers /\ st.now < TrTime
  /\ \E d \in {0, 1} : /\ st.x + d <= TrPlaces[TrGoal]
                        /\ Become([st EXCEPT !.x = @ + d, !.now = @ + 1])
Tr_reroute ==
  part \in Trackers /\ ~st.flag /\ Become([st EXCEPT !.flag = TRUE])

TrackerNext ==
  Tr_findRoute \/ Tr_trackRoute \/ Tr_interrupted \/ Tr_request \/ Tr_drive \/ Tr_reroute

\* Operations are performed for what the robot does, through any number of routes that are
\* planned again: an edge is left only if it was the one entered last, the time written to
\* it is the time since it was entered, and while the tracker is on an edge the speed
\* limit is that of the edge.
OperationsMatchEdges ==
  part \in Trackers =>
    /\ st.faults = {}
    /\ st.at = "track" /\ st.cur # NoEdge => st.open = st.cur /\ st.limit = st.cur

\* An edge that was reported as blocked is neither on the route nor the one continued on.
BlockedEdgeIsLeft ==
  part \in Trackers /\ st.at = "track" =>
    \A e \in st.info.blocked : e # st.cur /\ \A i \in 1..Len(st.route) : st.route[i] # e

\* The route is planned again from the node that was achieved last.  It does not hold:
\* README, Disagreements.
RerouteGoesOn ==
  part \in Trackers /\ st.at = "find" /\ st.reached # NoNode => st.info.start # NoNode

-----------------------------------------------------------------------------
(***************************************************************************)
(* The regulated pure pursuit controller, on a line: the plan is a         *)
(* sequence of places, the robot has a place and looks forward (1) or      *)
(* backward (-1), and the curvature of what it drives is zero.  A command  *)
(* is a speed ahead, a turn on the spot, or none when the controller       *)
(* throws.                                                                 *)
(*                                                                         *)
(*   plan, given    global_plan_, and the plan as it was set               *)
(*   left           the robot has moved since                              *)
(*   x, look, speed the robot                                              *)
(*   desired        desired_linear_vel, under the limit told last          *)
(*   detects        use_collision_detection                                *)
(*   cmd, was       the last command, and what it was decided on           *)
(***************************************************************************)

CONSTANTS
  PpPlans,       \* the plans: sequences of places
  PpObstacles,   \* the places that may be occupied
  PpDesired,     \* desired_linear_vel as it is configured
  PpMinSpeed,    \* regulated_linear_scaling_min_speed
  PpMinApproach, \* min_approach_linear_velocity
  PpApproach,    \* approach_velocity_scaling_dist
  PpLookahead,   \* lookahead_dist
  PpSearch,      \* max_robot_pose_search_dist
  PpExtent,      \* half the size of the local costmap
  PpTolerance,   \* of the goal checker
  PpHorizon,     \* max_allowed_time_to_collision_up_to_carrot
  PpDecel        \* cancel_deceleration in one control period

Pursuits == {"pursuit"}
NoVelocity == [kind |-> "none", v |-> 0]
Decided == [x |-> 0, look |-> 1, speed |-> 0, desired |-> 0, carrot |-> 0, cancelling |-> FALSE]

\* The parameters as they are read: which exclude each other is not looked at.
pursuitParameters ==
  [stateful : BOOLEAN, use_rotate_to_heading : BOOLEAN, allow_reversing : BOOLEAN,
   use_collision_detection : BOOLEAN]
pursuitInit ==
  {[at |-> "run", plan |-> <<>>, given |-> <<>>, left |-> FALSE, x |-> 0, look |-> 1, speed |-> 0,
    desired |-> PpDesired, cancelling |-> FALSE, finished |-> FALSE, reached |-> FALSE,
    stateful |-> p.stateful, rotates |-> p.use_rotate_to_heading, reverses |-> p.allow_reversing,
    detects |-> p.use_collision_detection, occupied |-> o, cmd |-> NoVelocity, was |-> Decided] :
     p \in pursuitParameters, o \in {{}, PpObstacles}}

\* The length of the plan up to pose i, from one recursive function per plan.
lengthTo(p) ==
  LET l[i \in 1..Len(p)] == IF i = 1 THEN 0 ELSE l[i - 1] + Abs(p[i] - p[i - 1]) IN l
\* The poses that may be the nearest one: those before the search distance is exceeded.
searched(p) == {i \in 1..Len(p) : lengthTo(p)[i] <= PpSearch}
\* The last of the nearest ones, and the one before it at the end of what is searched.
nearestPose(p, x) ==
  LET d(i) == Abs(p[i] - x)
      n == CHOOSE i \in searched(p) :
             \A j \in searched(p) : d(i) < d(j) \/ (d(i) = d(j) /\ j <= i)
  IN  IF Len(p) > 1 /\ n + 1 \notin searched(p) THEN n - 1 ELSE n
\* The poses within the local costmap.
localPoses(p, x) ==
  LET far == {i \in 1..Len(p) : Abs(p[i] - x) > PpExtent}
  IN  IF far = {} THEN p ELSE SubSeq(p, 1, (CHOOSE i \in far : \A j \in far : i <= j) - 1)

\* The first pose where the plan turns round, if it does.
findVelocitySignChange(p, x, otherwise) ==
  LET cusps == {i \in 2..(Len(p) - 1) : (p[i] - p[i - 1]) * (p[i + 1] - p[i]) < 0}
  IN  IF cusps = {} THEN otherwise
      ELSE Least(otherwise, Abs(p[CHOOSE i \in cusps : \A j \in cusps : i <= j] - x))
\* The point at the lookahead distance, the first pose if that is further, or the last.
getLookAheadPoint(p, x, dist) ==
  LET far == {i \in 1..Len(p) : Abs(p[i] - x) >= dist}
      i == CHOOSE j \in far : \A k \in far : j <= k
  IN  IF far = {} THEN p[Len(p)]
      ELSE IF i = 1 THEN p[1] ELSE x + Sign(p[i] - x) * dist

\* The speed after the limits by cost (c), at the end of the path and by the desired one.
Pp_applyConstraints(s, p, c) ==
  LET bounded  == Greatest(c, PpMinSpeed)
      scaled   == IF lengthTo(p)[Len(p)] < PpApproach
                  THEN (bounded * Abs(p[Len(p)] - s.x)) \div PpApproach ELSE bounded
  IN  Least(Least(bounded, Greatest(scaled, PpMinApproach)), s.desired)
\* While cancelling the robot slows down from the speed it has.
decelerated(s, sign) ==
  LET v == s.speed - sign * PpDecel IN IF sign * v <= 0 THEN 0 ELSE v

\* The places ahead that are looked at: cell by cell within the time and up to the carrot.
isCollisionImminent(s, v, carrot) ==
  \/ s.x \in s.occupied
  \/ v # 0 /\ \E k \in 1..Abs(carrot - s.x) :
       k < PpHorizon * Abs(v) /\ s.x + s.look * Sign(v) * k \in s.occupied

\* A command is given unless it is looked at and leads into an obstacle.
commands(s, kind, v, carrot) ==
  [s EXCEPT !.at = "told",
            !.was = [x |-> s.x, look |-> s.look, speed |-> s.speed, desired |-> s.desired,
                     carrot |-> Abs(carrot - s.x), cancelling |-> s.cancelling],
            !.cmd = IF s.detects /\ isCollisionImminent(s, v, carrot) THEN NoVelocity
                    ELSE [kind |-> kind, v |-> v]]
\* computeVelocityCommands on the part of the plan that is near.
pursue(s, p, c) ==
  LET dist   == IF s.reverses THEN findVelocitySignChange(p, s.x, PpLookahead) ELSE PpLookahead
      carrot == getLookAheadPoint(p, s.x, dist)
      ahead  == s.look * (carrot - s.x) >= 0
      sign   == IF s.reverses /\ ~ahead THEN -1 ELSE 1
      near   == Abs(carrot - s.x) < PpTolerance
      r      == [s EXCEPT !.reached = @ \/ (s.rotates /\ s.stateful /\ near)]
      v      == IF s.cancelling THEN decelerated(s, sign) ELSE sign * Pp_applyConstraints(s, p, c)
  IN  IF s.rotates /\ (near \/ (s.stateful /\ s.reached)) THEN commands(r, "turn", 0, carrot)
      ELSE IF s.rotates /\ ~ahead /\ ~s.reverses THEN commands(r, "turn", 0, carrot)
      ELSE commands([r EXCEPT !.finished = @ \/ (s.cancelling /\ v = 0)], "drive", v, carrot)
Pp_computeVelocityCommands ==
  /\ In(Pursuits, "run")
  /\ \/ st.plan = <<>> /\ Become([st EXCEPT !.at = "told"])
     \/ /\ st.plan # <<>>
        /\ LET n == nearestPose(st.plan, st.x) IN
           IF n = 0 THEN Become([st EXCEPT !.at = "astray"])
           ELSE LET rest == SubSeq(st.plan, n, Len(st.plan))
                    p == localPoses(rest, st.x)
                    s == [st EXCEPT !.plan = rest]
                IN  IF p = <<>> THEN Become([s EXCEPT !.at = "told"])
                    ELSE \E c \in 0..st.desired : Become(pursue(s, p, c))
Pp_setPlan ==
  /\ In(Pursuits, "run")
  /\ \E p \in PpPlans : Become([st EXCEPT !.plan = p, !.given = p, !.left = FALSE, !.reached = FALSE])
\* A limit in percent of the base speed or as a speed, or none.
Pp_setSpeedLimit ==
  /\ In(Pursuits, "run")
  /\ \/ \E v \in 1..PpDesired : Become([st EXCEPT !.desired = v])
     \/ \E l \in {0, 50, 100} :
          Become([st EXCEPT !.desired = IF l = 0 THEN PpDesired ELSE (PpDesired * l) \div 100])
Pp_cancel == In(Pursuits, "run") /\ Become([st EXCEPT !.cancelling = TRUE])
Pp_reset ==
  In(Pursuits, "run") /\ Become([st EXCEPT !.cancelling = FALSE, !.finished = FALSE, !.reached = FALSE])
\* A parameter is changed, between two computations: the desired speed, which is then what
\* limits are taken of, is set to its value again, and of two that exclude each other one is
\* looked at.
Pp_dynamicParametersCallback ==
  /\ In(Pursuits, "run")
  /\ \/ Become([st EXCEPT !.desired = PpDesired])
     \/ \E b \in BOOLEAN : Become([st EXCEPT !.rotates = b])
     \/ \E b \in BOOLEAN : ~(st.rotates /\ b) /\ Become([st EXCEPT !.reverses = b])
     \/ \E b \in BOOLEAN : Become([st EXCEPT !.stateful = b])
     \/ \E b \in BOOLEAN : Become([st EXCEPT !.detects = b])
\* The robot does what it was told for one period; without a command the server stops it.
Pp_robotMoves ==
  /\ In(Pursuits, "told") /\ Abs(st.x + st.look * st.cmd.v) <= PpExtent
  /\ \E l \in IF st.cmd.kind = "turn" THEN {1, -1} ELSE {st.look} :
       Become([st EXCEPT !.at = "run", !.x = @ + st.look * st.cmd.v, !.look = l, !.speed = st.cmd.v,
                         !.left = @ \/ st.cmd.v # 0, !.cmd = NoVelocity, !.was = Decided])

PursuitNext ==
  \/ Pp_computeVelocityCommands \/ Pp_setPlan \/ Pp_setSpeedLimit \/ Pp_cancel \/ Pp_reset
  \/ Pp_dynamicParametersCallback \/ Pp_robotMoves

\* A speed is within the desired one, or on its way to a stop, and, unless
\* use_collision_detection is off, the places it leads to within the horizon are free up to
\* the carrot; the robot is not told to stand still on the way unless it turns, cancels or
\* its limit is zero.
PursuitIsSafe ==
  part \in Pursuits /\ st.cmd.kind = "drive" =>
    /\ Abs(st.cmd.v) <= st.was.desired \/ (st.was.cancelling /\ Abs(st.cmd.v) <= Abs(st.was.speed))
    /\ st.detects =>
         /\ st.was.x \notin st.occupied
         /\ \A k \in 1..st.was.carrot : k < PpHorizon * Abs(st.cmd.v) =>
              st.was.x + st.was.look * Sign(st.cmd.v) * k \notin st.occupied
    /\ st.cmd.v = 0 => st.was.cancelling \/ st.was.desired = 0

\* However the plan is cut behind the robot, its goal stays, with a pose before it.
PlanKeepsGoal ==
  part \in Pursuits /\ st.given # <<>> =>
    /\ st.plan # <<>> /\ st.plan[Len(st.plan)] = st.given[Len(st.given)]
    /\ Len(st.given) > 1 => Len(st.plan) > 1

\* Nothing is cut off a plan before the robot has moved along it, also when the plan comes
\* back to where it begins.  It does not hold: README, Disagreements.
CuspIsNotSkipped ==
  part \in Pursuits /\ ~st.left /\ st.given # <<>> /\ st.given[1] = st.x => st.plan = st.given
\* The pose where the plan begins is one of the plan.  It does not hold: README,
\* Disagreements.
PlanIsNotLeft == part \in Pursuits => st.at # "astray"
\* The robot turns on the spot or reverses, as it was configured: not both.  It does not
\* hold: README, Disagreements.
TurnsOrReverses == part \in Pursuits => ~(st.rotates /\ st.reverses)

-----------------------------------------------------------------------------
(***************************************************************************)
(* The DWB controller: twists that the robot can reach are simulated and   *)
(* scored by critics, the best legal one is driven.  The robot is on a     *)
(* line and turns on the spot; a twist is a speed and a rate.  The critics *)
(* are RotateToGoal, Oscillation and BaseObstacle, which may find a twist  *)
(* illegal, and before them one that stands for the rest and prefers some  *)
(* twist.  Any rate can be reached at once.                                *)
(*                                                                         *)
(*   plan, given    global_plan_, and whether a plan was set               *)
(*   x, v           the robot's place and speed                            *)
(*   max            max_vel_x_ and max_speed_xy_, under a speed limit      *)
(*   ahead, turn    the trends of the Oscillation critic                   *)
(*   still          prev_stationary_pose_                                  *)
(*   window, rotating   of the RotateToGoal critic                         *)
(*   prunes, short  prune_plan_, short_circuit_trajectory_evaluation_      *)
(*   cmd, was       the last twist, and the state it was chosen in         *)
(*   held           the sign that the speed has flipped to                 *)
(*                                                                         *)
(* The part "kinematics" is the handler of the limits alone, with vel,     *)
(* baseVel, speed, baseSpeed and sq for max_vel_x_, max_speed_xy_, their   *)
(* bases and max_speed_xy_sq_ (as a speed).                                *)
(***************************************************************************)

CONSTANTS
  DwPlans,    \* the plans: sequences of places
  DwLength,   \* the places of the local costmap are 0..DwLength
  DwBlocked,  \* the occupied places
  DwMax,      \* max_vel_x and max_speed_xy
  DwMin,      \* min_vel_x
  DwAccel,    \* acc_lim_x in one period, and -decel_lim_x
  DwSim,      \* sim_time in periods
  DwPrune,    \* prune_distance
  DwForward,  \* forward_prune_distance
  DwReset     \* oscillation_reset_dist

Dwbs == {"dwb"}
Kinematics == {"kinematics"}
NoTwist == [x |-> 0, th |-> 0]
CommandTrend == [sign |-> 0, positive_only |-> FALSE, negative_only |-> FALSE]
Choice == [total |-> 0, best |-> 0, legal |-> TRUE, near |-> TRUE, v |-> 0]

dwbInit ==
  {[at |-> "run", plan |-> <<>>, given |-> FALSE, x |-> 0, v |-> 0, max |-> DwMax,
    ahead |-> CommandTrend, turn |-> CommandTrend, still |-> 0, window |-> FALSE,
    rotating |-> FALSE, prunes |-> p, short |-> s, cmd |-> NoTwist, was |-> Choice, held |-> 0] :
     p \in BOOLEAN, s \in BOOLEAN}
kinematicsInit ==
  [at |-> "run", vel |-> DwMax, baseVel |-> DwMax, speed |-> DwMax, baseSpeed |-> DwMax,
   sq |-> DwMax]

\* The velocity one period after v0 on the way to a target.
projectVelocity(v0, target) ==
  IF v0 < target THEN Least(target, v0 + DwAccel) ELSE Greatest(target, v0 - DwAccel)
\* The samples between the least and the greatest velocity that can be reached.
OneDVelocityIterator(current, min, max) ==
  LET c == IF current < min THEN min ELSE IF current > max THEN max ELSE current
  IN  projectVelocity(c, min)..projectVelocity(c, max)
isValidSpeed(s, t) == (s.max >= 0 => Abs(t.x) <= s.max) /\ t # NoTwist
\* The twists that can be reached, out of all in the order of the iterators: rates are
\* the inner ones.
AllTwists == [x : DwMin..DwMax, th : -1..1]
twistAt(n) == [x |-> DwMin + ((n - 1) \div 3), th |-> ((n - 1) % 3) - 1]
XYThetaIterator(s) ==
  {t \in [x : OneDVelocityIterator(s.v, DwMin, s.max), th : -1..1] :
     isValidSpeed(s, t)}

\* The places of a simulated trajectory, one step per place.
generateTrajectory(s, t) == {s.x + Sign(t.x) * k : k \in 0..(Abs(t.x) * DwSim)}

\* The critics: the twists they let pass, and their scores.
isOscillating(trend, velocity) ==
  (trend.positive_only /\ velocity < 0) \/ (trend.negative_only /\ velocity > 0)
oscillationLegal(s, t) == ~isOscillating(s.ahead, t.x) /\ ~isOscillating(s.turn, t.th)
rotateToGoalLegal(s, t) == s.window => IF s.rotating THEN t.x = 0 ELSE Abs(t.x) < Abs(s.v)
baseObstacleLegal(s, t) ==
  \A c \in generateTrajectory(s, t) : c \in 0..DwLength /\ c \notin DwBlocked
dwbLegal(s, t) == rotateToGoalLegal(s, t) /\ oscillationLegal(s, t) /\ baseObstacleLegal(s, t)
rotateToGoalScore(s, t) == IF s.window /\ ~s.rotating THEN t.x * t.x ELSE 0
preference(t, wish) == Abs(t.x - wish.x) + Abs(t.th - wish.th)
dwbTotal(s, t, wish) == rotateToGoalScore(s, t) + preference(t, wish)

\* scoreTrajectory: critics that are asked after the total has exceeded the best are not
\* heard.  -1 is an illegal twist; a best of -1 is none yet.
scoreTrajectory(s, t, wish, best) ==
  IF s.short /\ best > 0 /\ preference(t, wish) > best THEN preference(t, wish)
  ELSE IF dwbLegal(s, t) THEN dwbTotal(s, t, wish) ELSE -1
\* The best twist after the first n of all.
coreScoringAlgorithm(s, twists, wish) ==
  LET best[n \in 0..Cardinality(AllTwists)] ==
        IF n = 0 THEN [total |-> -1, twist |-> NoTwist]
        ELSE LET t == twistAt(n)
                 b == best[n - 1]
                 total == scoreTrajectory(s, t, wish, b.total)
             IN  IF t \in twists /\ total >= 0 /\ (b.total < 0 \/ total < b.total)
                 THEN [total |-> total, twist |-> t] ELSE b
  IN  best[Cardinality(AllTwists)]

\* CommandTrend::update and the flag it sets.
trendUpdated(trend, velocity) ==
  IF velocity = 0 THEN trend
  ELSE [sign |-> Sign(velocity),
        positive_only |-> trend.positive_only \/ (velocity > 0 /\ trend.sign = -1),
        negative_only |-> trend.negative_only \/ (velocity < 0 /\ trend.sign = 1)]
flagSet(trend, velocity) == velocity * trend.sign < 0
hasSignFlipped(trend) == trend.positive_only \/ trend.negative_only
\* debrief of the Oscillation critic: rates count while the robot stands.
debriefed(s, t) ==
  LET a == trendUpdated(s.ahead, t.x)
      r == IF t.x = 0 THEN trendUpdated(s.turn, t.th) ELSE s.turn
      set == flagSet(s.ahead, t.x) \/ (t.x = 0 /\ flagSet(s.turn, t.th))
      still == IF set THEN s.x ELSE s.still
      reset == (hasSignFlipped(a) \/ hasSignFlipped(r)) /\ Abs(s.x - still) > DwReset
  IN  [s EXCEPT !.ahead = IF reset THEN CommandTrend ELSE a,
                !.turn = IF reset THEN CommandTrend ELSE r, !.still = still,
                !.held = IF reset THEN 0 ELSE IF flagSet(s.ahead, t.x) THEN Sign(t.x) ELSE @]
\* prepare of the RotateToGoal critic.
prepared(s, goal) ==
  LET in == s.window \/ s.x = goal
  IN  [s EXCEPT !.window = in, !.rotating = @ \/ (in /\ s.v = 0)]

\* transformGlobalPlan: where the part of the plan near the robot begins, and whether
\* there is one.
transformationBegin(s) ==
  LET n == Len(s.plan)
      prune_point == {i \in 1..n : lengthTo(s.plan)[i] > DwForward}
      last == IF prune_point = {} THEN n ELSE (CHOOSE i \in prune_point : \A j \in prune_point : i <= j) - 1
      threshold == IF s.prunes THEN Least(DwLength, DwPrune) ELSE DwLength
      close == {i \in 1..last : Abs(s.plan[i] - s.x) < threshold}
  IN  IF close = {} THEN last + 1 ELSE CHOOSE i \in close : \A j \in close : i <= j
transformGlobalPlan(s) ==
  LET b == transformationBegin(s)
  IN  [plan |-> IF s.prunes THEN SubSeq(s.plan, b, Len(s.plan)) ELSE s.plan,
       near |-> b <= Len(s.plan) /\ Abs(s.plan[b] - s.x) <= Least(DwLength, DwForward)]

\* computeVelocityCommands: no plan, no part of it near the robot, no legal twist, or the
\* best one.
Dw_computeVelocityCommands ==
  /\ In(Dwbs, "run")
  /\ \/ st.plan = <<>> /\ Become([st EXCEPT !.at = "told"])
     \/ /\ st.plan # <<>>
        /\ LET near == transformGlobalPlan(st)
               s == [st EXCEPT !.at = "told", !.plan = near.plan]
           IN  IF ~near.near THEN Become(s)
               ELSE \E wish \in [x : {DwMin, DwMax}, th : {-1, 1}] :
                    LET p == prepared(s, near.plan[Len(near.plan)])
                        twists == XYThetaIterator(p)
                        best == coreScoringAlgorithm(p, twists, wish)
                        legal == {t \in twists : dwbLegal(p, t)}
                        least == CHOOSE n \in {dwbTotal(p, t, wish) : t \in legal} :
                                   \A t \in legal : n <= dwbTotal(p, t, wish)
                    IN  IF best.total < 0 THEN Become(debriefed(p, NoTwist))
                        ELSE Become([debriefed(p, best.twist) EXCEPT !.cmd = best.twist,
                               !.was = [total |-> best.total, best |-> least, legal |-> best.twist \in legal,
                                        near |-> p.window, v |-> p.v]])
Dw_setPlan ==
  /\ In(Dwbs, "run")
  /\ \E p \in DwPlans :
       Become([st EXCEPT !.plan = p, !.given = TRUE, !.ahead = CommandTrend, !.turn = CommandTrend,
                         !.window = FALSE, !.rotating = FALSE, !.held = 0])
\* The limits under a speed limit: none, a percentage, or a speed; one that is not below the
\* base changes none of them but the square.
restored(k) == [k EXCEPT !.vel = k.baseVel, !.speed = k.baseSpeed, !.sq = k.baseSpeed]
halved(k) ==
  [k EXCEPT !.vel = k.baseVel \div 2, !.speed = k.baseSpeed \div 2, !.sq = k.baseSpeed \div 2]
limitedTo(k, l) ==
  IF l < k.baseSpeed
  THEN [k EXCEPT !.vel = (k.baseVel * l) \div k.baseSpeed, !.speed = l, !.sq = l]
  ELSE [k EXCEPT !.sq = k.speed]
KinematicsHandler_setSpeedLimit ==
  /\ In(Kinematics, "run")
  /\ \/ Become(restored(st))
     \/ Become(halved(st))
     \/ \E l \in 1..DwMax : Become(limitedTo(st, l))
\* max_vel_x, max_speed_xy or min_speed_theta is changed.
KinematicsHandler_dynamicParametersCallback ==
  /\ In(Kinematics, "run")
  /\ \/ \E n \in 1..DwMax : Become([st EXCEPT !.vel = n, !.baseVel = n])
     \/ \E n \in 1..DwMax : Become([st EXCEPT !.speed = n, !.baseSpeed = n])
     \/ Become([st EXCEPT !.sq = st.speed])
\* While the controller drives, a limit is set and lifted.
Dw_setSpeedLimit ==
  /\ In(Dwbs, "run")
  /\ Become([st EXCEPT !.max = IF @ = DwMax THEN DwMax \div 2 ELSE DwMax])
Dw_robotMoves ==
  /\ In(Dwbs, "told")
  /\ Become([st EXCEPT !.at = "run", !.x = @ + st.cmd.x, !.v = st.cmd.x, !.cmd = NoTwist, !.was = Choice])

DwbNext ==
  \/ Dw_computeVelocityCommands \/ Dw_setPlan \/ Dw_setSpeedLimit \/ Dw_robotMoves
KinematicsNext == KinematicsHandler_setSpeedLimit \/ KinematicsHandler_dynamicParametersCallback

\* Whatever critics are cut short, the twist that is driven is one that all of them let
\* pass and that none of those scores less than.
DwbChoosesBest == part \in Dwbs => st.was.legal /\ st.was.total = st.was.best

\* After the speed has changed its sign it does not change it back before the robot has
\* come away from there or has a new plan, and a direction is always left.
DwbDoesNotOscillate ==
  part \in Dwbs =>
    /\ st.cmd.x * st.held >= 0
    /\ \A trend \in {st.ahead, st.turn} : ~(trend.positive_only /\ trend.negative_only)

\* At the goal the robot comes to rest and stays: it slows down and then only turns, until
\* there is a new plan.
DwbStaysAtGoal ==
  part \in Dwbs /\ st.cmd # NoTwist /\ st.was.near =>
    /\ Abs(st.cmd.x) < Abs(st.was.v) \/ st.cmd.x = 0
    /\ st.rotating => st.cmd.x = 0

\* No sequence of limits and parameters lets the robot drive faster than the parameters
\* allow.
LimitsOnlyLower ==
  part \in Kinematics => st.vel <= st.baseVel /\ st.speed <= st.baseSpeed

\* What twists are compared with is max_speed_xy.  It does not hold: README, Disagreements.
DwbKeepsSpeed == part \in Kinematics => st.sq = st.speed
\* A plan is not dropped that the robot has not passed.  It does not hold: README,
\* Disagreements.
DwbKeepsPlan == part \in Dwbs => (st.given <=> st.plan # <<>>)

-----------------------------------------------------------------------------
(***************************************************************************)
(* The rotation shim before its primary controller: it turns the robot to  *)
(* the heading of a new path, and to the goal's heading at the goal, and   *)
(* hands over in between.  Headings are the parts of a circle.             *)
(*                                                                         *)
(*   yaw, w, near   the robot: heading, rate, within the goal's tolerance  *)
(*   path           poses, heading of the sampled point, goal and its yaw  *)
(*   updated, rotating, last, held   path_updated_, in_rotation_,          *)
(*                  last_angular_vel_, the position goal checker's memory  *)
(*   cmd            who decided, the rate, and the angle it was decided on *)
(*   handed         the primary controller has had the goal's path         *)
(***************************************************************************)

CONSTANTS
  RsCircle,     \* parts of the circle
  RsEngage,     \* angular_dist_threshold
  RsDisengage,  \* angular_disengage_threshold
  RsSpeed,      \* rotate_to_heading_angular_vel
  RsAccel,      \* max_angular_accel in one period
  RsAhead,      \* simulate_ahead_time in periods
  RsBlocked     \* the headings in which the robot would collide

Shims == {"shim"}
NoRate == 1000
NoPath == [poses |-> 0, heading |-> 0, goal |-> 0, yaw |-> 0]
ShimPaths == [poses : {1, 2}, heading : {0, RsCircle \div 2}, goal : {1, 2}, yaw : {1}]
Idle == [by |-> "nobody", w |-> 0, angle |-> 0]

shimInit ==
  {[at |-> "run", yaw |-> 0, w |-> 0, near |-> FALSE, path |-> NoPath, updated |-> FALSE,
    rotating |-> FALSE, last |-> NoRate, held |-> FALSE, cmd |-> Idle, handed |-> FALSE,
    once |-> o, closed |-> c, toGoal |-> g] : o \in BOOLEAN, c \in BOOLEAN, g \in BOOLEAN}

\* The shortest way from one heading to another.
shortestAngle(a, b) ==
  LET d == (b - a) % RsCircle IN IF 2 * d > RsCircle THEN d - RsCircle ELSE d
\* The rate towards a heading: as fast as the acceleration allows from the current rate,
\* but slow enough to stop there.
rateToHeading(s, angle) ==
  LET now  == IF s.closed THEN s.w ELSE IF s.last = NoRate THEN 0 ELSE s.last
      fast == Greatest(now - RsAccel, Least(now + RsAccel, Sign(angle) * RsSpeed))
      stop == CHOOSE n \in 0..RsCircle :
                n * n <= 2 * RsAccel * Abs(angle) /\ (n + 1) * (n + 1) > 2 * RsAccel * Abs(angle)
  IN  IF Abs(fast) > stop THEN Sign(angle) * stop ELSE fast
\* The turn is simulated period by period until it is over or, going right, until the
\* primary controller would take over.
rotationIsFree(s, w, angle) ==
  \A t \in 1..RsAhead :
    (\A u \in 1..t : shortestAngle(w * u, 0) < Abs(angle) - RsEngage) =>
      (s.yaw + w * t) % RsCircle \notin RsBlocked
turns(s, by, angle) ==
  LET w == rateToHeading(s, angle)
  IN  [s EXCEPT !.at = "told", !.last = w, !.cmd = [by |-> by, w |-> w, angle |-> angle]]
canTurn(s, angle) == rotationIsFree(s, rateToHeading(s, angle), angle)

\* computeVelocityCommands in its three parts; transforms that fail and turns that would
\* collide lead on to the next part.
Rs_turnsToGoal(s) == s.toGoal /\ s.path.poses > 0 /\ (s.held \/ s.near)
Rs_afterGoal(s) == [s EXCEPT !.held = @ \/ Rs_turnsToGoal(s)]
Rs_pathAngle(s) == shortestAngle(s.yaw, s.path.heading)
Rs_turnsToPath(s) ==
  /\ s.updated /\ s.path.poses > 1
  /\ Abs(Rs_pathAngle(s)) > (IF s.rotating THEN RsDisengage ELSE RsEngage)
Rs_primary(s, w) ==
  [s EXCEPT !.at = "told", !.updated = FALSE, !.rotating = FALSE, !.last = w, !.handed = TRUE,
            !.cmd = [by |-> "primary", w |-> w, angle |-> 0]]
Rs_computeVelocityCommands ==
  /\ In(Shims, "run")
  /\ \E tf \in BOOLEAN :
       LET angle == shortestAngle(st.yaw, st.path.yaw)
           r == IF tf THEN Rs_afterGoal(st) ELSE st
       IN  IF tf /\ Rs_turnsToGoal(st) /\ canTurn(st, angle) THEN Become(turns(r, "goal", angle))
           ELSE \/ /\ Rs_turnsToPath(r) /\ canTurn(r, Rs_pathAngle(r))
                   /\ Become([turns(r, "path", Rs_pathAngle(r)) EXCEPT !.rotating = TRUE])
                \/ /\ tf => ~(Rs_turnsToPath(r) /\ canTurn(r, Rs_pathAngle(r)))
                   /\ \E w \in {0, 1} : Become(Rs_primary(r, w))
Rs_setPlan ==
  /\ In(Shims, "run")
  /\ \E p \in ShimPaths :
       LET changed == st.rotating \/ st.path.poses = 0 \/ st.path.goal # p.goal
       IN  Become([st EXCEPT !.path = p, !.updated = IF st.once THEN changed ELSE TRUE,
                             !.held = FALSE, !.handed = @ /\ st.path.goal = p.goal])
Rs_reset == In(Shims, "run") /\ Become([st EXCEPT !.last = NoRate, !.held = FALSE])
Rs_robotTurns ==
  /\ In(Shims, "told")
  /\ \E n \in BOOLEAN : Become([st EXCEPT !.at = "run", !.yaw = (@ + st.cmd.w) % RsCircle, !.w = st.cmd.w,
                                          !.near = n, !.cmd = Idle])

ShimNext == Rs_computeVelocityCommands \/ Rs_setPlan \/ Rs_reset \/ Rs_robotTurns

\* A turn can be stopped before it overshoots, and the heading after the next period was
\* found free unless the primary controller takes over by then.
ShimTurnsSafely ==
  part \in Shims /\ st.cmd.by \in {"goal", "path"} =>
    /\ st.cmd.w * st.cmd.w <= 2 * RsAccel * Abs(st.cmd.angle)
    /\ Abs(st.cmd.w) < Abs(st.cmd.angle) - RsEngage =>
         (st.yaw + st.cmd.w) % RsCircle \notin RsBlocked

\* With rotate_to_heading_once, the primary controller keeps a goal that it was given:
\* new paths to the goal turn the robot no more.
HandedOverOnce ==
  part \in Shims /\ st.once /\ st.cmd.by = "path" => ~st.handed

\* Every turn was found free for the next period.  It does not hold: README, Disagreements.
EveryTurnIsChecked ==
  part \in Shims /\ st.cmd.by \in {"goal", "path"} /\ st.cmd.w # 0 =>
    (st.yaw + st.cmd.w) % RsCircle \notin RsBlocked
=============================================================================
