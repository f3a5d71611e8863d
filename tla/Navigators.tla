----------------------------- MODULE Navigators -----------------------------
(***************************************************************************)
(* The execute callbacks that run other actions: the navigators of the     *)
(* behavior tree and the waypoint follower.                                *)
(***************************************************************************)
EXTENDS ExecuteCallback, FiniteSets

-----------------------------------------------------------------------------
(***************************************************************************)
(* nav2_bt_navigator and navbim_bt_navigator: the navigators               *)
(* navigate_to_pose, navigate_through_poses and the building's             *)
(* navigate_to_pose (navbim) on BtActionServer::executeCallback and        *)
(* BehaviorTreeEngine::run, and the NavigatorMuxer.  One navigator is      *)
(* modelled; the two of nav2 share the muxer, and the other one only takes *)
(* and frees it.                                                           *)
(* The behavior tree is a choice of outcomes per tick.                     *)
(*                                                                         *)
(*   muxer   current_navigator_                                            *)
(*   other   where the other navigator is                                  *)
(*   trees   the tree each goal asks for, tree  the loaded one             *)
(*   asked   the pending goal on_loop and onPreempt pass around            *)
(*   rc      how the run ended                                             *)
(***************************************************************************)

CONSTANTS
  Trees,     \* behavior tree files
  TreesOf    \* which goal asks for which: functions of goals

ASSUME TreesAssumption == Trees # {} /\ TreesOf \subseteq [Goals -> Trees]

PoseNavigators == {"navigate_to_pose", "navbim_navigate_to_pose"}
Navigators == PoseNavigators \cup {"navigate_through_poses"}
BtOwn ==
  [muxer : {"", "this", "other"}, other : {"off", "checked", "navigating"}, trees : TreesOf,
   tree : Trees, asked : Goals \cup {None}, rc : {"SUCCEEDED", "FAILED", "CANCELED"}]
BtInitOwns ==
  {[muxer |-> "", other |-> "off", trees |-> f, tree |-> CHOOSE t \in Trees : TRUE,
    asked |-> None, rc |-> "FAILED"] : f \in TreesOf}

\* onGoalReceived asks the muxer first ...
BtEntry ==
  /\ Here(Navigators, "entry")
  /\ Local([cb EXCEPT !.at = IF cb.own.muxer # "" THEN "reject" ELSE "received",
                      !.job = CurrentGoal])

\* ... then goalReceived loads the tree and puts the goal on the blackboard; the
\* file or the transform may be missing ...
BtGoalReceived ==
  /\ Here(Navigators, "received")
  /\ IF cb.job = None
     THEN Local(Goto("crashed"))
     ELSE \/ Local(Goto("reject"))
          \/ \E next \in {"reject", "start"} :
               Local([cb EXCEPT !.at = next, !.own.tree = cb.own.trees[cb.job]])

\* ... and then the navigator is entered as the current one, whoever that was.
BtStartNavigating ==
  Here(Navigators, "start") /\ Local([cb EXCEPT !.at = "loop", !.own.muxer = "this"])

BtReject == EndCurrent(Navigators, "reject", EmptyResult)

\* One turn of BehaviorTreeEngine::run: cancelled, or a tick of the tree.
BtIsCanceling ==
  /\ Here(Navigators, "loop")
  /\ Local(IF ~server_active \/ is_cancel_requested
           THEN [cb EXCEPT !.at = "completion", !.own.rc = "CANCELED"]
           ELSE Goto("tick"))
BtTick ==
  /\ Here(Navigators, "tick")
  /\ \/ \E rc \in {"SUCCEEDED", "FAILED"} : Local([cb EXCEPT !.at = "completion", !.own.rc = rc])
     \/ Local(Goto("on_loop"))

\* on_loop: the flag, then get_pending_goal().
BtIsPreempted ==
  Here(Navigators, "on_loop") /\ Local(Goto(IF preempt_requested THEN "pending" ELSE "loop"))
BtGetPendingGoal ==
  /\ Here(Navigators, "pending")
  /\ Local([cb EXCEPT !.own.asked = IF is_active(pending) THEN pending ELSE None,
                      !.at = "on_preempt"])

\* onPreempt compares the trees of the pending goal it was given ...
BtOnPreempt ==
  /\ Here(Navigators, "on_preempt")
  /\ Local(IF cb.own.asked = None THEN Goto("crashed")
           ELSE [cb EXCEPT !.at = IF cb.own.trees[cb.own.asked] = cb.own.tree
                                  THEN "accept" ELSE "refuse"])

\* Mistake: a pending goal that asks for another tree is left where it is.
BtRefuseKeepsPending ==
  /\ Here(Navigators, "refuse")
  /\ Ignored([cb EXCEPT !.at = "loop", !.own.asked = None])

\* ... refuses the pending goal ...
BtRefuse ==
  /\ Here(Navigators, "refuse")
  /\ IF is_active(pending) THEN TerminatePendingGoal ELSE UNCHANGED <<handleVars, slotVars>>
  /\ Called([cb EXCEPT !.at = "loop", !.own.asked = None])

\* ... or accepts the goal that is pending now ...
BtAcceptPendingGoal ==
  /\ Here(Navigators, "accept")
  /\ AcceptPendingGoal
  /\ Called([cb EXCEPT !.at = "initialize",
                       !.own.asked = IF is_active(pending) THEN pending ELSE None])

\* ... and puts its pose on the blackboard.  navigate_to_pose asks for the robot
\* pose before it uses the goal.  Without a transform navigate_to_pose goes on with
\* the old pose, navigate_through_poses throws and the run has failed.
BtInitializeGoalPose ==
  /\ Here(Navigators, "initialize")
  /\ \/ Local(IF cb.own.asked = None THEN Goto("crashed")
              ELSE [cb EXCEPT !.at = "loop", !.job = cb.own.asked, !.own.asked = None])
     \/ /\ server \in PoseNavigators
        /\ Local([cb EXCEPT !.at = "refuse", !.kept = TRUE])
     \/ /\ server = "navigate_through_poses" /\ cb.own.asked # None
        /\ Local([cb EXCEPT !.at = "completion", !.own.rc = "FAILED", !.own.asked = None])

\* Mistake: a run that was cancelled keeps the muxer.
BtOnCompletionKeepsMuxer ==
  /\ Here(Navigators, "completion")
  /\ Local([cb EXCEPT !.at = "result",
                      !.own.muxer = IF @ = "this" /\ cb.own.rc # "CANCELED" THEN "" ELSE @])

\* onCompletion: stopNavigating frees the muxer if it is still this navigator's.
BtOnCompletion ==
  /\ Here(Navigators, "completion")
  /\ Local([cb EXCEPT !.at = "result", !.own.muxer = IF @ = "this" THEN "" ELSE @])

BtResult ==
  /\ Here(Navigators, "result")
  /\ CASE cb.own.rc = "SUCCEEDED" -> SucceededCurrent(Answer("done"))
       [] cb.own.rc = "FAILED"    -> TerminateCurrent(Answer("error"))
       [] OTHER                   -> TerminateAll(Answer("empty"))
  /\ Called(Goto("return"))

-----------------------------------------------------------------------------
(* The other navigator: isNavigating, startNavigating and stopNavigating *)

OtherNavigator ==
  /\ server \in Navigators \ {"navbim_navigate_to_pose"}
  /\ \/ cb.own.other = "off" /\ cb.own.muxer = "" /\ Local([cb EXCEPT !.own.other = "checked"])
     \/ cb.own.other = "checked" /\ Local([cb EXCEPT !.own.other = "off"])
     \/ /\ cb.own.other = "checked"
        /\ Local([cb EXCEPT !.own.other = "navigating", !.own.muxer = "other"])
     \/ /\ cb.own.other = "navigating"
        /\ Local([cb EXCEPT !.own.other = "off",
                            !.own.muxer = IF @ = "other" THEN "" ELSE @])

BtNext ==
  \/ BtEntry \/ BtGoalReceived \/ BtStartNavigating \/ BtReject \/ BtIsCanceling \/ BtTick
  \/ BtIsPreempted \/ BtGetPendingGoal \/ BtOnPreempt \/ BtRefuse \/ BtAcceptPendingGoal
  \/ BtInitializeGoalPose \/ BtOnCompletion \/ BtResult

-----------------------------------------------------------------------------
(***************************************************************************)
(* nav2_waypoint_follower: followWaypointsHandler for follow_waypoints and *)
(* follow_gps_waypoints.  Each waypoint is a goal for navigate_to_pose;    *)
(* the responses and results of these goals are handled only while the     *)
(* callback spins its own executor.                                        *)
(*                                                                         *)
(*   sent    future_goal_handle_: the latest goal's response              *)
(*   open    the latest goal was accepted and its result is outstanding   *)
(*   late    earlier goals with an outstanding response or result         *)
(*   reached waypoints of cb.job reached in this loop, while none is missed *)
(***************************************************************************)

CONSTANTS
  Waypoints,  \* poses of a goal
  MaxLoops,   \* number_of_loops of a goal
  MaxLate     \* bound on outstanding responses and results of earlier goals

ASSUME WaypointsAssumption ==
  Waypoints \in Nat \ {0} /\ MaxLoops \in Nat /\ MaxLate \in Nat

Followers == {"follow_waypoints", "follow_gps_waypoints"}
SentStates == {"none", "waiting", "accepted", "rejected"}
FollowerOwn ==
  [poses : 0..Waypoints, index : 0..Waypoints, first : 0..Waypoints, loop : 0..MaxLoops, fresh : BOOLEAN,
   status : {"PROCESSING", "SUCCEEDED", "FAILED"}, sent : SentStates, open : BOOLEAN,
   late : [responses : 0..MaxLate, results : 0..MaxLate],
   missed : SUBSET Goals, reached : SUBSET (0..Waypoints)]
FollowerInitOwn ==
  [poses |-> 0, index |-> 0, first |-> 0, loop |-> 0, fresh |-> FALSE, status |-> "PROCESSING",
   sent |-> "none", open |-> FALSE, late |-> [responses |-> 0, results |-> 0],
   missed |-> {}, reached |-> {}]

\* goal->number_of_loops is read from the goal before it is looked at.
FollowerEntry ==
  /\ Here(Followers, "entry")
  /\ Local(IF CurrentGoal = None THEN Goto("crashed")
           ELSE [cb EXCEPT !.at = "poses", !.job = CurrentGoal, !.own.loop = 0,
                           !.own.index = 0, !.own.missed = {}, !.own.reached = {}])

\* getLatestGoalPoses: no poses without a current goal; GPS poses that cannot be
\* converted are left out, or leave none with stop_on_failure_.
LatestGoalPoses ==
  IF CurrentGoal = None THEN {0}
  ELSE IF server = "follow_waypoints" THEN {Waypoints} ELSE 0..Waypoints

FollowerPoses ==
  /\ Here(Followers, "poses")
  /\ \E n \in LatestGoalPoses : Local([cb EXCEPT !.at = "inactive", !.own.poses = n])

FollowerIsInactive == ReturnIfInactive(Followers, "inactive", "check")

\* goal->goal_index names one of the waypoints of the request, the one to begin with;
\* poses[goal_index] is beyond the end if GPS poses were left out, and what comes of the
\* read is undefined.
FollowerCheck ==
  /\ Here(Followers, "check")
  /\ IF cb.own.poses = 0
     THEN Local(Goto("empty"))
     ELSE \E goal_index \in 0..Waypoints - 1 :
            Local([cb EXCEPT !.at = IF goal_index < cb.own.poses THEN "loop" ELSE "overrun",
                             !.own.fresh = TRUE, !.own.index = goal_index,
                             !.own.first = goal_index])

FollowerEmpty == EndCurrent(Followers, "empty", Answer("error"))

\* Outstanding events of earlier goals once the latest goal is superseded.
Superseded ==
  [responses |-> cb.own.late.responses + IF cb.own.sent = "waiting" THEN 1 ELSE 0,
   results   |-> cb.own.late.results + IF cb.own.open THEN 1 ELSE 0]

\* async_cancel_all_goals, answered by navigate_to_pose
FollowerIsCanceled == TestCancel(Followers, "loop", "cancelled", "preempt")
FollowerCancelled == EndAll(Followers, "cancelled", EmptyResult)

FollowerIsPreempted ==
  Here(Followers, "preempt") /\ Local(Goto(IF preempt_requested THEN "accept" ELSE "send"))
FollowerAccept ==
  /\ Here(Followers, "accept")
  /\ AcceptPendingGoal
  /\ Called(Goto("repose"))

\* Mistake: the index of the preempted goal is kept.
FollowerReposeKeepsIndex ==
  /\ Here(Followers, "repose")
  /\ \E n \in LatestGoalPoses :
       Local([cb EXCEPT !.at = IF n = 0 THEN "empty" ELSE "send", !.job = CurrentGoal,
                        !.kept = @ \/ cb.own.missed # {}, !.own.poses = n, !.own.first = 0,
                        !.own.fresh = TRUE, !.own.reached = {}])

\* The new goal's poses, from the first one whatever its goal_index; loops and missed
\* waypoints stay.
FollowerRepose ==
  /\ Here(Followers, "repose")
  /\ \E n \in LatestGoalPoses :
       Local([cb EXCEPT !.at = IF n = 0 THEN "empty" ELSE "send", !.job = CurrentGoal,
                        !.kept = @ \/ cb.own.missed # {}, !.own.poses = n, !.own.index = 0,
                        !.own.first = 0, !.own.fresh = TRUE, !.own.reached = {}])

FollowerSend ==
  /\ Here(Followers, "send")
  /\ IF cb.own.fresh
     THEN /\ Superseded.responses + Superseded.results <= MaxLate
          /\ Local([cb EXCEPT !.at = "status", !.own.fresh = FALSE, !.own.late = Superseded,
                              !.own.sent = "waiting", !.own.open = FALSE,
                              !.own.status = "PROCESSING"])
     ELSE Local(Goto("status"))

-----------------------------------------------------------------------------
\* After a waypoint that was not reached, or whose task failed: on with the next
\* one, or the end with stop_on_failure_.
Missed == [cb EXCEPT !.own.missed = @ \cup {cb.job}, !.own.reached = {}]
Reached ==
  IF cb.own.missed = {} THEN [cb EXCEPT !.own.reached = @ \cup {cb.own.index}] ELSE cb

FollowerStatus ==
  /\ Here(Followers, "status")
  /\ \/ cb.own.status = "PROCESSING" /\ Local(Goto("spin"))
     \/ cb.own.status = "FAILED" /\ \E next \in {"stop", "advance"} :
                                      Local([Missed EXCEPT !.at = next])
     \/ cb.own.status = "SUCCEEDED" /\ Local([Reached EXCEPT !.at = "advance"])
     \/ cb.own.status = "SUCCEEDED" /\ \E next \in {"stop", "advance"} :
                                         Local([Missed EXCEPT !.at = next])

FollowerStop == EndCurrent(Followers, "stop", Answer("error"))

FollowerAdvance ==
  /\ Here(Followers, "advance")
  /\ LET index == cb.own.index + 1
     IN  IF index < cb.own.poses
         THEN Local([cb EXCEPT !.at = "spin", !.own.fresh = TRUE, !.own.index = index])
         ELSE IF cb.own.loop = MaxLoops
         THEN Local(Goto("succeed"))
         ELSE Local([cb EXCEPT !.at = "spin", !.own.fresh = TRUE, !.own.index = 0,
                               !.own.first = 0, !.own.reached = {}, !.own.loop = @ + 1])

\* What the result says: waypoints were missed (whoever's they were), or all were
\* reached; "short" when it says so and a pose from where the round began was not reached.
FollowerSucceed ==
  LET all == cb.own.reached = cb.own.first..cb.own.poses - 1
      kind == IF cb.own.missed # {} THEN "missed" ELSE IF all THEN "done" ELSE "short"
  IN  EndSucceeded(Followers, "succeed",
                   [kind |-> kind, for |-> ({cb.job} \cup cb.own.missed) \ {None}])

-----------------------------------------------------------------------------
(* callback_group_executor_: any number of events, in the loop and while waiting *)
(* for the answer to a cancel request                                            *)

Spinning == server \in Followers /\ cb.at \in {"spin", "cancelled"}

Outcome(ok) == IF ok THEN "SUCCEEDED" ELSE "FAILED"

\* goalResponseCallback; also run for an earlier goal, whatever the latest one is.
GoalResponseCallback ==
  /\ Spinning
  /\ \/ /\ cb.own.sent = "waiting"
        /\ \/ Local([cb EXCEPT !.own.sent = "accepted", !.own.open = TRUE])
           \/ Local([cb EXCEPT !.own.sent = "rejected", !.own.status = "FAILED"])
     \/ /\ cb.own.late.responses > 0
        /\ \/ Local([cb EXCEPT !.own.late.responses = @ - 1, !.own.late.results = @ + 1])
           \/ Local([cb EXCEPT !.own.late.responses = @ - 1, !.own.status = "FAILED"])

\* resultCallback of the latest goal
ResultCallback ==
  /\ Spinning
  /\ cb.own.open
  /\ \E ok \in BOOLEAN : Local([cb EXCEPT !.own.open = FALSE, !.own.status = Outcome(ok)])

\* resultCallback of an earlier goal.  future_goal_handle_.get() waits for the
\* latest goal's response, which only this thread can take: it waits for ever.
\* For a rejected goal the future holds a null handle.  Otherwise the goal ids
\* differ and the result is ignored.
LateResultCallback ==
  /\ Spinning
  /\ cb.own.late.results > 0
  /\ Local(CASE cb.own.sent = "waiting"  -> Goto("stuck")
             [] cb.own.sent = "rejected" -> Goto("crashed")
             [] OTHER -> [cb EXCEPT !.own.late.results = @ - 1])

\* What outlives the callback: the futures and the status, not its local variables.
FollowerMembers ==
  [FollowerInitOwn EXCEPT !.status = cb.own.status, !.sent = cb.own.sent, !.open = cb.own.open,
                          !.late = cb.own.late]

FollowerSpun == Here(Followers, "spin") /\ Local(Goto("loop"))

FollowerNext ==
  \/ FollowerEntry \/ FollowerPoses \/ FollowerIsInactive \/ FollowerCheck \/ FollowerEmpty
  \/ FollowerIsCanceled \/ FollowerCancelled \/ FollowerIsPreempted \/ FollowerAccept
  \/ FollowerRepose \/ FollowerSend \/ FollowerStatus \/ FollowerStop \/ FollowerAdvance
  \/ FollowerSucceed \/ GoalResponseCallback \/ ResultCallback \/ LateResultCallback
  \/ FollowerSpun
=============================================================================
