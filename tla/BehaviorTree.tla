---------------------------- MODULE BehaviorTree ----------------------------
(***************************************************************************)
(* The nodes of a behavior tree that ask a server: actions, services and   *)
(* cancellations; and the tree's nodes together, one of which is looked at *)
(* at a time.                                                              *)
(***************************************************************************)
EXTENDS BtControlNodes, Naturals

-----------------------------------------------------------------------------
(***************************************************************************)
(* BtActionNode, the client side of every action in a behavior tree, with  *)
(* the hooks of its plugins, above an action server that accepts, rejects  *)
(* and ends goals at any time.  What the node learns it learns while it    *)
(* spins: the response to a goal in is_future_goal_handle_complete, the    *)
(* result in spin_some.                                                    *)
(*                                                                         *)
(*   goal     state of each goal at the server                             *)
(*   handle   goal_handle_, future  future_goal_handle_ (None: null)       *)
(*   result   result_ and goal_result_available_: the goal it is for       *)
(*   updated  goal_updated_           recoveries  number_recoveries        *)
(*   path     the goal whose path is in the output port (None: empty)      *)
(*   error    error_code_id                                                *)
(* and, for the properties,                                                *)
(*   sent     the goal sent last, unseen  the goals whose response the     *)
(*            node was not there to see                                    *)
(***************************************************************************)

CONSTANT MaxGoals  \* bound: goals one node sends

ASSUME MaxGoalsAssumption == MaxGoals \in Nat

Goals == 1 .. MaxGoals
NoGoal == 0
Ended == {"succeeded", "aborted", "canceled"}

-----------------------------------------------------------------------------
(* Plugins: what on_success, on_aborted, on_cancelled and halt do to the path    *)
(* port, which hooks set the error code, whether on_wait_for_result may set      *)
(* goal_updated_ and whether on_tick counts as a recovery.                       *)

Plain == [success |-> "keep", aborted |-> "keep", cancelled |-> "keep", halt |-> "keep",
          codes |-> TRUE, updates |-> FALSE, feedback |-> FALSE, counts |-> {FALSE}, lenient |-> FALSE]
Cleared == [Plain EXCEPT !.success = "set", !.aborted = "clear", !.cancelled = "clear"]

ComputePathToPoseAction == [Cleared EXCEPT !.halt = "clear"]
NavbimComputePathToPoseAction == [Cleared EXCEPT !.halt = "clear"]
ComputePathThroughPosesAction == Cleared
ComputeRouteAction == [Cleared EXCEPT !.halt = "clear"]
ComputeAndTrackRouteAction ==
  [Cleared EXCEPT !.success = "clear", !.updates = TRUE, !.feedback = TRUE]
FollowPathAction == [Plain EXCEPT !.updates = TRUE]
SmoothPathAction == [Plain EXCEPT !.success = "set"]
SpinAction == [Plain EXCEPT !.counts = BOOLEAN]
BackUpAction == [Plain EXCEPT !.counts = {TRUE}]
DriveOnHeadingAction == Plain
AssistedTeleopAction == [Plain EXCEPT !.counts = BOOLEAN, !.lenient = TRUE]
WaitAction == [Plain EXCEPT !.codes = FALSE, !.counts = {TRUE}]
NavigateToPoseAction == Plain
NavigateThroughPosesAction == Plain

Plugin ==
  [ComputePathToPose |-> ComputePathToPoseAction,
   NavbimComputePathToPose |-> NavbimComputePathToPoseAction,
   ComputePathThroughPoses |-> ComputePathThroughPosesAction,
   ComputeRoute |-> ComputeRouteAction, ComputeAndTrackRoute |-> ComputeAndTrackRouteAction,
   FollowPath |-> FollowPathAction, SmoothPath |-> SmoothPathAction, Spin |-> SpinAction,
   BackUp |-> BackUpAction, DriveOnHeading |-> DriveOnHeadingAction,
   AssistedTeleop |-> AssistedTeleopAction, Wait |-> WaitAction,
   NavigateToPose |-> NavigateToPoseAction, NavigateThroughPoses |-> NavigateThroughPosesAction]
ActionNodes == DOMAIN Plugin
Hooks == Plugin[part]

ActionNodeInit(p) ==
  {[at |-> "parent", status |-> "IDLE", goal |-> [g \in Goals |-> "none"], handle |-> NoGoal,
    future |-> NoGoal, result |-> NoGoal, updated |-> FALSE, recovery |-> r, recoveries |-> 0,
    path |-> NoGoal, error |-> "NONE", sent |-> 0, unseen |-> {}] : r \in Plugin[p].counts}

Port(what, s) == CASE what = "set" -> s.result [] what = "clear" -> NoGoal [] OTHER -> s.path
Code(s, code) == IF Hooks.codes THEN code ELSE s.error

-----------------------------------------------------------------------------
(* tick() *)

\* send_new_goal: the result of an earlier goal is no longer available.
SendNewGoal(s) ==
  [s EXCEPT !.result = NoGoal, !.sent = @ + 1, !.future = s.sent + 1,
            !.goal[s.sent + 1] = "sent"]

Answer(s, status) == [s EXCEPT !.at = "parent", !.status = status]

\* The first tick of an activation runs on_tick and sends the goal; a later one goes
\* on where the last one has returned.  A parent resets a node that has failed before
\* it ticks it again.
ActionTick ==
  /\ In(ActionNodes, "parent")
  /\ \/ /\ st.status = "IDLE"
        /\ st.sent < MaxGoals
        /\ Become([SendNewGoal(st) EXCEPT !.at = "response", !.status = "RUNNING",
                     !.recoveries = IF st.recovery THEN @ + 1 ELSE @])
     \/ /\ st.status \in {"RUNNING", "SUCCESS"}
        /\ Become([st EXCEPT !.at = IF st.future # NoGoal THEN "response"
                                    ELSE IF st.result = NoGoal THEN "wait" ELSE "result"])

\* is_future_goal_handle_complete and what tick() makes of it, after the first goal
\* and after an updated one (then nothing is left but to spin).
GoalResponse ==
  /\ part \in ActionNodes
  /\ st.at \in {"response", "response2"}
  /\ LET f == st.future
         unseen == [st EXCEPT !.future = NoGoal, !.unseen = @ \cup {f}]
     IN  \/ /\ st.goal[f] \notin {"sent", "rejected"}
            /\ Become([st EXCEPT !.handle = f, !.future = NoGoal,
                                 !.at = IF @ = "response" THEN "wait" ELSE "spin"])
         \/ /\ st.goal[f] = "rejected"
            /\ Become(Answer([st EXCEPT !.handle = NoGoal, !.future = NoGoal], "FAILURE"))
         \/ Become(Answer(st, "RUNNING"))
         \/ Become(Answer(unseen, "FAILURE"))

\* on_wait_for_result, and the new goal if the old one is not known to have ended.
WaitForResult ==
  /\ In(ActionNodes, "wait")
  /\ \E update \in IF Hooks.updates THEN BOOLEAN ELSE {FALSE},
        fed \in IF Hooks.feedback THEN BOOLEAN ELSE {FALSE},
        known \in IF st.goal[st.handle] \in Ended THEN BOOLEAN ELSE {FALSE} :
       LET s == [st EXCEPT !.updated = @ \/ update, !.path = IF fed THEN st.handle ELSE @]
       IN  IF s.updated /\ ~known
           THEN /\ s.sent < MaxGoals
                /\ Become([SendNewGoal(s) EXCEPT !.updated = FALSE, !.at = "response2"])
           ELSE Become([s EXCEPT !.at = "spin"])

\* Mistake: the result of any goal of this client is taken.
SpinSomeAnyGoal ==
  /\ In(ActionNodes, "spin")
  /\ \/ Become(Answer(st, "RUNNING"))
     \/ \E g \in Goals : st.goal[g] \in Ended /\ Become([st EXCEPT !.result = g, !.at = "result"])

\* spin_some: the result callback takes the result of goal_handle_ only.
SpinSome ==
  /\ In(ActionNodes, "spin")
  /\ \/ Become(Answer(st, "RUNNING"))
     \/ /\ st.goal[st.handle] \in Ended
        /\ Become([st EXCEPT !.result = st.handle, !.at = "result"])

\* on_success, on_aborted or on_cancelled.  AssistedTeleop takes an abort as success
\* unless it is a recovery.
GoalResult ==
  /\ In(ActionNodes, "result")
  /\ LET code == st.goal[st.result]
         s == [st EXCEPT !.handle = NoGoal]
     IN  \/ /\ code = "succeeded"
            /\ Become(Answer([s EXCEPT !.path = Port(Hooks.success, s), !.error = Code(s, "NONE")],
                             "SUCCESS"))
         \/ /\ code = "aborted"
            /\ Become(Answer([s EXCEPT !.path = Port(Hooks.aborted, s), !.error = Code(s, "CODE")],
                             IF Hooks.lenient /\ ~st.recovery THEN "SUCCESS" ELSE "FAILURE"))
         \/ /\ code = "canceled"
            /\ Become(Answer([s EXCEPT !.path = Port(Hooks.cancelled, s), !.error = Code(s, "NONE")],
                             "SUCCESS"))

-----------------------------------------------------------------------------
(* halt() *)

\* Mistake: a running node is not asked to cancel.
ActionHaltNoCancel ==
  /\ In(ActionNodes, "parent")
  /\ Become([st EXCEPT !.status = "IDLE", !.path = Port(Hooks.halt, st),
                       !.unseen = IF st.future = NoGoal THEN @ ELSE @ \cup {st.future}])

\* should_cancel_goal looks at goal_handle_ only; a goal whose response is still
\* awaited is left to the server.
ActionHalt ==
  /\ In(ActionNodes, "parent")
  /\ LET s == [st EXCEPT !.path = Port(Hooks.halt, st),
                         !.unseen = IF st.future = NoGoal THEN @ ELSE @ \cup {st.future}]
     IN  IF st.status = "RUNNING" /\ st.handle # NoGoal /\ st.goal[st.handle] \notin Ended
         THEN Become([s EXCEPT !.at = "cancel"])
         ELSE Become([s EXCEPT !.status = "IDLE"])

\* The cancel request is answered in time, or the node gives up after
\* server_timeout_ and the request takes effect later or never.
ActionCancel ==
  /\ In(ActionNodes, "cancel")
  /\ \/ Become([st EXCEPT !.at = "cancelled",
                          !.goal[st.handle] = IF @ = "executing" THEN "canceling" ELSE @])
     \/ Become([st EXCEPT !.at = "cancelled", !.unseen = @ \cup {st.handle}])

\* The result has come, or cancel_timeout_ is over; on_cancelled either way.
ActionCancelled ==
  /\ In(ActionNodes, "cancelled")
  /\ Become([st EXCEPT !.at = "parent", !.status = "IDLE", !.error = Code(st, "NONE"),
                       !.path = Port(Hooks.cancelled, st)])

\* A parent resets the status of a node that has finished.
ActionReset ==
  /\ In(ActionNodes, "parent")
  /\ st.status \in {"SUCCESS", "FAILURE"}
  /\ Become([st EXCEPT !.status = "IDLE"])

\* The action server works on one goal after the other.
ServerStep ==
  /\ part \in ActionNodes
  /\ \E g \in Goals, to \in {"executing", "rejected", "canceling"} \cup Ended :
       /\ <<st.goal[g], to>> \in
            ({"sent"} \X {"executing", "rejected"}) \cup ({"executing"} \X {"succeeded", "aborted"})
            \cup ({"canceling"} \X Ended)
       /\ to \in Ended => \A h \in 1 .. g - 1 : st.goal[h] \notin {"executing", "canceling"}
       /\ Become([st EXCEPT !.goal[g] = to])

ActionNodesNext ==
  \/ ActionTick \/ GoalResponse \/ WaitForResult \/ SpinSome \/ GoalResult
  \/ ActionHalt \/ ActionCancel \/ ActionCancelled \/ ActionReset \/ ServerStep

-----------------------------------------------------------------------------
(* Properties *)

\* The server has goal g, or gets it, and has not accepted one in its place.
Live(g) ==
  /\ st.goal[g] \in {"sent", "executing"}
  /\ \A r \in g + 1 .. MaxGoals : st.goal[r] \notin {"executing", "canceling"}

\* A node that is not running has left no goal to the server, except one whose
\* response it did not wait for (server_timeout_, or halted before it came), and the
\* goal that such a goal, or one that was rejected, was to replace.
GoalEndsWithNode ==
  part \in ActionNodes /\ st.at = "parent" /\ st.status # "RUNNING" =>
    \A g \in Goals :
      Live(g) => \/ \E u \in st.unseen : g <= u
                 \/ \E r \in Goals : g < r /\ st.goal[r] = "rejected"

\* The code's comment on halt(): "we make sure to cancel the ROS2 action if it is
\* still running".  A running node that has been halted has no goal executing.
HaltCancels ==
  [][st.status = "RUNNING" /\ st'.status = "IDLE" /\ part \in ActionNodes =>
       \A g \in Goals : st.goal[g] # "executing"]_componentVars

\* What the node reports is about the goal it has sent last: the result, and a path
\* that a success has put into the port; and a success clears the error code.
ReportIsOfLastGoal ==
  part \in ActionNodes =>
    /\ st.result # NoGoal => st.result = st.sent
    /\ st.status = "SUCCESS" /\ st.at = "parent" =>
         /\ Hooks.success = "set" /\ st.goal[st.sent] = "succeeded" => st.path = st.sent
         /\ st.error = "NONE" \/ st.goal[st.sent] = "aborted"

-----------------------------------------------------------------------------
(***************************************************************************)
(* BtServiceNode, the client of a service in a behavior tree, and          *)
(* BtCancelActionNode, which cancels the goals of whoever has sent them.   *)
(*                                                                         *)
(* A service node: requests counts the requests sent, pending is           *)
(* request_sent_, served the requests the service has carried out.  A      *)
(* cancel node: goal is the state of the goals at the action server, old   *)
(* the ones accepted more than 10 ms ago, asked the ones old at the tick.  *)
(***************************************************************************)

CONSTANT MaxRequests  \* bound: requests of one service node, goals of one server

ASSUME MaxRequestsAssumption == MaxRequests \in Nat

Requests == 1 .. MaxRequests
ClearNodes == {"ClearEntireCostmap", "ClearCostmapExceptRegion", "ClearCostmapAroundRobot",
               "ClearCostmapAroundPose"}
ServiceNodes == ClearNodes \cup {"ReinitializeGlobalLocalization"}
CancelNodes == {"CancelControl", "CancelSpin", "CancelBackUp", "CancelDriveOnHeading",
                "CancelAssistedTeleop", "CancelWait", "CancelComputeAndTrackRoute"}

ServiceNodeInit ==
  {[at |-> "parent", status |-> "IDLE", requests |-> 0, pending |-> FALSE, served |-> {},
    recoveries |-> 0]}
CancelNodeInit ==
  {[at |-> "parent", status |-> "IDLE", goal |-> g, old |-> {}, asked |-> {}] :
     g \in [Requests -> {"none", "executing"}]}

-----------------------------------------------------------------------------
(* BtServiceNode *)

\* on_tick of the costmap clearing services
CountRecovery(s) == IF part \in ClearNodes THEN [s EXCEPT !.recoveries = @ + 1] ELSE s

ServiceTick ==
  /\ In(ServiceNodes, "parent")
  /\ IF st.pending
     THEN Become([st EXCEPT !.at = "future"])
     ELSE /\ st.requests < MaxRequests
          /\ Become(CountRecovery([st EXCEPT !.requests = @ + 1, !.pending = TRUE, !.at = "future"]))

\* check_future: answered, not yet, or server_timeout_ is over
CheckFuture ==
  /\ In(ServiceNodes, "future")
  /\ \/ /\ st.requests \in st.served
        /\ Become([st EXCEPT !.at = "parent", !.status = "SUCCESS", !.pending = FALSE])
     \/ Become([st EXCEPT !.at = "parent", !.status = "RUNNING"])
     \/ Become([st EXCEPT !.at = "parent", !.status = "FAILURE", !.pending = FALSE])

ServiceHalt ==
  In(ServiceNodes, "parent") /\ Become([st EXCEPT !.pending = FALSE, !.status = "IDLE"])

\* The service carries out the requests in their order.
ServiceServes ==
  /\ part \in ServiceNodes
  /\ \E r \in 1 .. st.requests :
       /\ r \notin st.served /\ 1 .. r - 1 \subseteq st.served
       /\ Become([st EXCEPT !.served = @ \cup {r}])

-----------------------------------------------------------------------------
(* BtCancelActionNode *)

\* async_cancel_goals_before(now - 10 ms)
CancelTick ==
  /\ In(CancelNodes, "parent")
  /\ Become([st EXCEPT !.at = "request", !.status = "RUNNING",
               !.asked = {g \in st.old : st.goal[g] = "executing"}])

\* The server cancels what it was asked to; or the answer does not come in time.
CancelResponse ==
  /\ In(CancelNodes, "request")
  /\ \/ Become([st EXCEPT !.at = "parent", !.status = "SUCCESS",
                  !.goal = [g \in Requests |-> IF g \in st.asked /\ @[g] = "executing"
                                               THEN "canceling" ELSE @[g]]])
     \/ Become([st EXCEPT !.at = "parent", !.status = "FAILURE"])

\* The goals of the action server: another client sends one, one ends, time passes.
GoalStep ==
  /\ part \in CancelNodes
  /\ \E g \in Requests :
       \/ st.goal[g] = "none" /\ Become([st EXCEPT !.goal[g] = "executing"])
       \/ st.goal[g] \in {"executing", "canceling"} /\ Become([st EXCEPT !.goal[g] = "ended"])
       \/ st.goal[g] # "none" /\ g \notin st.old /\ Become([st EXCEPT !.old = @ \cup {g}])

ServiceNodesNext ==
  \/ ServiceTick \/ CheckFuture \/ ServiceHalt \/ ServiceServes
  \/ CancelTick \/ CancelResponse \/ GoalStep

-----------------------------------------------------------------------------
(* Properties *)

\* A service node succeeds when the request of this activation, not an earlier one it
\* has given up, was carried out; a cancel node succeeds when every goal it knew to be
\* older than 10 ms is being canceled.
ServiceWasCalled ==
  /\ part \in ServiceNodes /\ st.status = "SUCCESS" /\ st.at = "parent" =>
       st.requests \in st.served
  /\ part \in ServiceNodes /\ st.at = "future" => st.pending
  /\ part \in CancelNodes /\ st.status = "SUCCESS" =>
       \A g \in st.asked : st.goal[g] # "executing"

-----------------------------------------------------------------------------
CONSTANT Nodes  \* the nodes to look at

AllNodes == Controls \cup Decorators \cup ActionNodes \cup ServiceNodes \cup CancelNodes
            \cup Conditions

ASSUME NodesAssumption == Nodes \subseteq AllNodes

TreeInit ==
  /\ part \in Nodes
  /\ \/ part \in Controls \cup Decorators /\ st \in ControlNodeInit(part)
     \/ part \in ActionNodes /\ st \in ActionNodeInit(part)
     \/ part \in ServiceNodes /\ st \in ServiceNodeInit
     \/ part \in CancelNodes /\ st \in CancelNodeInit
     \/ part \in Conditions /\ st \in ConditionInit(part)

TreeNext == ControlNodesNext \/ ActionNodesNext \/ ServiceNodesNext \/ ConditionsNext

TreeSpec == TreeInit /\ [][TreeNext]_componentVars

\* The state of a node has its type.
TreeTypeOK ==
  /\ part \in Nodes
  /\ st.status \in Statuses
  /\ part \in Controls \cup Decorators =>
       /\ st.child \in [Children(part) -> Statuses]
       /\ st.last \in Children(part) /\ st.i \in Children(part)
       /\ st.count \in Nat /\ st.skipped \in 0 .. 3
  /\ part \in ActionNodes =>
       /\ st.handle \in 0 .. st.sent /\ st.future \in 0 .. st.sent /\ st.path \in 0 .. MaxGoals
       /\ st.at \in {"wait", "spin", "cancel"} => st.handle # NoGoal
       /\ st.at = "result" => st.result # NoGoal
  /\ part \in ServiceNodes => st.requests \in 0 .. MaxRequests /\ st.served \subseteq Requests
  /\ part \in CancelNodes => st.asked \subseteq Requests

\* A node that asks a server answers from the server's answer to its last question.
ReportIsOwn == ReportIsOfLastGoal /\ ServiceWasCalled

=============================================================================
