---------------------------- MODULE DriveServers ----------------------------
(***************************************************************************)
(* The execute callbacks that move the robot: controller, behaviors and    *)
(* docking server.                                                         *)
(***************************************************************************)
EXTENDS ExecuteCallback

-----------------------------------------------------------------------------
(***************************************************************************)
(* nav2_controller::ControllerServer::computeControl, the control loop of  *)
(* follow_path.  Controller plugin, goal checker and progress checker are  *)
(* choices.  own.asked is the goal updateGlobalPath has accepted and not   *)
(* yet taken over; own.refused records that it asked for a controller or   *)
(* a checker the server does not have.  own.zero is what the last exit     *)
(* found in publish_zero_velocity, which may be set at any time.           *)
(***************************************************************************)

Controllers == {"follow_path"}
ControllerOwn == [asked : Goals \cup {None}, refused : BOOLEAN, zero : BOOLEAN]
ControllerInitOwn == [asked |-> None, refused |-> FALSE, zero |-> TRUE]

\* publishZeroVelocity on the way out: without publish_zero_velocity the last command stays.
PublishZeroVelocity(on) ==
  [IF on THEN Publish(Goto("return"), "zero") ELSE Goto("return") EXCEPT !.own.zero = on]

ControllerEntry == GetCurrentGoal(Controllers, "setup")

\* The goal's plugins are looked up and its path is set: each may be invalid.
ControllerSetup ==
  /\ Here(Controllers, "setup")
  /\ IF cb.job = None
     THEN Local(Goto("return"))
     ELSE \E next \in {"loop", "error"} : Local([cb EXCEPT !.at = next, !.own.refused = FALSE])

\* Mistake: the loop does not see that the server was deactivated.
ControllerLoopKeepsOn == Here(Controllers, "loop") /\ Local(Goto("cancel"))

ControllerLoop == ReturnIfInactive(Controllers, "loop", "cancel")

\* cancel() of the plugin may want more cycles.
ControllerStops == TestCancel(Controllers, "cancel", "cancelled", "costmap")
ControllerGoesOn == Here(Controllers, "cancel") /\ is_cancel_requested /\ Local(Goto("costmap"))

ControllerCancelled ==
  /\ Here(Controllers, "cancelled")
  /\ TerminateAll(EmptyResult)
  /\ \E on \in BOOLEAN : Called(PublishZeroVelocity(on))

ControllerWaitForCostmap ==
  Here(Controllers, "costmap") /\ \E next \in {"update", "error"} : Local(Goto(next))

\* updateGlobalPath: the preempting goal is accepted, then its plugins looked up.
ControllerIsPreempted ==
  Here(Controllers, "update") /\ Local(Goto(IF preempt_requested THEN "accept" ELSE "velocity"))

ControllerAccept ==
  /\ Here(Controllers, "accept")
  /\ AcceptPendingGoal
  /\ Called(IF is_active(pending)
            THEN [cb EXCEPT !.at = "retarget", !.own.asked = pending]
            ELSE Goto("crashed"))

\* A path may be empty; a plugin may be unknown.
ControllerRetarget ==
  /\ Here(Controllers, "retarget")
  /\ \/ \E next \in {"velocity", "error"} :
          Local([cb EXCEPT !.at = next, !.job = cb.own.asked, !.own.asked = None,
                           !.own.refused = FALSE])
     \/ Local([cb EXCEPT !.at = "refuse", !.own.asked = None])

\* terminate_current(), and back to the loop with the old path.
ControllerRefuse ==
  /\ Here(Controllers, "refuse")
  /\ TerminateCurrent(EmptyResult)
  /\ Called([cb EXCEPT !.at = "velocity", !.own.refused = TRUE])

\* The robot pose, the progress checker or the plugin fails, or a command goes out.
ControllerComputeAndPublishVelocity ==
  /\ Here(Controllers, "velocity")
  /\ \/ Local(Goto("error"))
     \/ \E v \in {"zero", "moving"} : Local(Publish(Goto("reached"), v))

ControllerIsGoalReached ==
  Here(Controllers, "reached") /\ \E next \in {"loop", "succeed"} : Local(Goto(next))

ControllerError ==
  /\ Here(Controllers, "error")
  /\ TerminateCurrent(Answer("error"))
  /\ \E on \in BOOLEAN : Called(PublishZeroVelocity(on))

ControllerSucceed ==
  /\ Here(Controllers, "succeed")
  /\ SucceededCurrent(Answer("done"))
  /\ \E on \in BOOLEAN : Called(PublishZeroVelocity(on))

ControllerNext ==
  \/ ControllerEntry \/ ControllerSetup \/ ControllerLoop \/ ControllerStops \/ ControllerGoesOn
  \/ ControllerCancelled \/ ControllerWaitForCostmap \/ ControllerIsPreempted \/ ControllerAccept
  \/ ControllerRetarget \/ ControllerRefuse \/ ControllerComputeAndPublishVelocity
  \/ ControllerIsGoalReached \/ ControllerError \/ ControllerSucceed

-----------------------------------------------------------------------------
(***************************************************************************)
(* nav2_behaviors: TimedBehavior::execute with the plugins Spin,           *)
(* DriveOnHeading, BackUp, AssistedTeleop and Wait.  own.enabled is        *)
(* enabled_; own.lost records that a behavior ended because the robot pose *)
(* was not available, the exit that sends no stop command, and that none   *)
(* was sent since.                                                         *)
(***************************************************************************)

Drives == {"drive_on_heading", "backup"}
Moves == Drives \cup {"spin", "assisted_teleop"}
Behaviors == Moves \cup {"wait"}
BehaviorOwn == [enabled : BOOLEAN, lost : BOOLEAN]
BehaviorInitOwn == [enabled |-> FALSE, lost |-> FALSE]

StopRobot(c) == [Publish(c, "zero") EXCEPT !.own.lost = FALSE]

BehaviorEntry ==
  /\ Here(Behaviors, "entry")
  /\ Local(IF cb.own.enabled THEN [cb EXCEPT !.at = "run", !.job = CurrentGoal]
           ELSE Goto("return"))

\* onRun of the plugins that read the goal first ...
DriveOnRun ==
  /\ Here(Drives, "run")
  /\ IF cb.job = None
     THEN Local(Goto("crashed"))
     ELSE \E next \in {"loop", "failed"} : Local(Goto(next))

UntimedOnRun ==
  /\ Here({"assisted_teleop", "wait"}, "run")
  /\ Local(Goto(IF cb.job = None THEN "crashed" ELSE "loop"))

\* ... and of Spin, which asks for the robot pose first.
SpinOnRun ==
  /\ Here({"spin"}, "run")
  /\ \/ Local(Goto("failed"))
     \/ Local(Goto(IF cb.job = None THEN "crashed" ELSE "loop"))

\* Mistake: a preempted behavior answers its goal and goes on.
BehaviorPreemptedGoesOn ==
  /\ Here(Behaviors, "preempted")
  /\ TerminateCurrent(Answer("empty"))
  /\ Called(Goto("cancel"))

\* A preempted behavior stops and ends; the worker loop then runs the new goal.
BehaviorIsPreempted ==
  Here(Behaviors, "loop") /\ Local(Goto(IF preempt_requested THEN "preempted" ELSE "cancel"))
BehaviorPreempted ==
  /\ Here(Behaviors, "preempted")
  /\ TerminateCurrent(Answer("empty"))
  /\ Called(StopRobot(Goto("return")))

BehaviorIsCanceled == TestCancel(Behaviors, "cancel", "cancelled", "cycle")
BehaviorCancelled ==
  /\ Here(Behaviors, "cancelled")
  /\ TerminateAll(Answer("empty"))
  /\ Called(StopRobot(Goto("return")))

\* onCycleUpdate of DriveOnHeading and BackUp: the time allowance is used up, the
\* pose is unknown, the distance is driven, a collision is ahead, or it drives on.
DriveOnCycleUpdate ==
  /\ Here(Drives, "cycle")
  /\ \/ \E next \in {"failed", "succeeded"} : Local(StopRobot(Goto(next)))
     \/ Local([cb EXCEPT !.at = "failed", !.own.lost = TRUE])
     \/ Local(Publish(Goto("loop"), "moving"))

\* Spin::onCycleUpdate
SpinOnCycleUpdate ==
  /\ Here({"spin"}, "cycle")
  /\ \/ \E next \in {"failed", "succeeded"} : Local(StopRobot(Goto(next)))
     \/ Local([cb EXCEPT !.at = "failed", !.own.lost = TRUE])
     \/ Local(Publish(Goto("loop"), "moving"))

\* AssistedTeleop::onCycleUpdate: the operator's command, slowed down or stopped
\* in front of a collision; "succeeded" when the operator ends it.
TeleopOnCycleUpdate ==
  /\ Here({"assisted_teleop"}, "cycle")
  /\ \/ \E next \in {"failed", "succeeded"} : Local(StopRobot(Goto(next)))
     \/ Local([cb EXCEPT !.at = "failed", !.own.lost = TRUE])
     \/ \E v \in {"zero", "moving"} : Local(Publish(Goto("loop"), v))

WaitOnCycleUpdate ==
  Here({"wait"}, "cycle") /\ \E next \in {"loop", "succeeded"} : Local(Goto(next))

BehaviorFailed == EndCurrent(Behaviors, "failed", Answer("error"))
BehaviorSucceeded == EndSucceeded(Behaviors, "succeeded", Answer("done"))

BehaviorNext ==
  \/ BehaviorEntry \/ DriveOnRun \/ UntimedOnRun \/ SpinOnRun \/ BehaviorIsPreempted
  \/ BehaviorPreempted \/ BehaviorIsCanceled \/ BehaviorCancelled \/ DriveOnCycleUpdate
  \/ SpinOnCycleUpdate \/ TeleopOnCycleUpdate \/ WaitOnCycleUpdate \/ BehaviorFailed
  \/ BehaviorSucceeded

-----------------------------------------------------------------------------
(***************************************************************************)
(* opennav_docking::DockingServer: dockRobot and undockRobot.  own.dock is *)
(* the local Dock pointer: null, a dock of the database, or one allocated  *)
(* for this goal ("new"); own.leaked records that it was left without      *)
(* being freed.  own.retries is num_retries_.                              *)
(***************************************************************************)

CONSTANT MaxRetries  \* max_retries_

ASSUME RetriesAssumption == MaxRetries \in Nat

Docks == {"dock_robot", "undock_robot"}
DockOwn ==
  [dock : {"null", "database", "new"}, leaked : BOOLEAN, retries : 0..MaxRetries + 1]
DockInitOwn == [dock |-> "null", leaked |-> FALSE, retries |-> 0]

DockEntry == GetCurrentGoal(Docks, "inactive")
DockIsInactive == ReturnIfInactive(Docks, "inactive", "cancel")
DockIsCancelled == TestCancel(Docks, "cancel", "cancelled", "preempt")
DockCancelled == EndAll(Docks, "cancelled", EmptyResult)

\* By value, as in the planner server: the callback keeps the old goal.
DockGetPreemptedGoalIfRequested ==
  /\ Here(Docks, "preempt")
  /\ IF preempt_requested THEN AcceptPendingGoal ELSE UNCHANGED <<handleVars, slotVars>>
  /\ Called([cb EXCEPT !.at = "find", !.kept = @ \/ preempt_requested, !.own.dock = "null",
                       !.own.leaked = FALSE, !.own.retries = 0])

\* findDock in the database (not there, no plugin), or generateGoalDock, whose
\* plugin pointer is null for an unknown dock type and used at once.
DockFind ==
  /\ Here({"dock_robot"}, "find")
  /\ IF cb.job = None
     THEN Local(Goto("crashed"))
     ELSE \/ Local(Goto("error"))
          \/ \E d \in {"database", "new"} : Local([cb EXCEPT !.at = "docked", !.own.dock = d])
          \/ Local(Goto("no_plugin"))

\* Already docked: success without stashDockData.
DockAlreadyDocked ==
  /\ Here({"dock_robot"}, "docked")
  /\ \/ Local(Goto("stage"))
     \/ /\ SucceededCurrent(Answer("done"))
        /\ Called([cb EXCEPT !.at = "return", !.own.leaked = @ \/ cb.own.dock = "new"])

Interrupted == is_cancel_requested \/ preempt_requested

\* Navigator::goToPose, one retry included: the robot gets there, or not in time,
\* or a cancel or preemption request is seen, which is an error here.
DockStage == Here({"dock_robot"}, "stage") /\ \E next \in {"perceive", "error"} : Local(Goto(next))

\* An interrupted perception returns like a finished one; approachDock looks again.
DockPerceive ==
  Here({"dock_robot"}, "perceive") /\ \E next \in {"approach", "error"} : Local(Goto(next))

\* approachDock: docked, interrupted, a DockingException, a transform error, or a
\* command to the base.
DockApproach ==
  /\ Here({"dock_robot"}, "approach")
  /\ \/ \E next \in {"charge", "retry", "error"} : Local(Goto(next))
     \/ Local(IF Interrupted THEN Goto("interrupted") ELSE Publish(cb, "moving"))
     \/ ~Interrupted /\ Local(Publish(Goto("retry"), "moving"))

\* waitForCharge: charging, interrupted or timed out
DockWaitForCharge ==
  /\ Here({"dock_robot"}, "charge")
  /\ \/ \E next \in {"docking_done", "retry"} : Local(Goto(next))
     \/ Interrupted /\ Local(Goto("interrupted"))

\* The DockingException handler of the approach loop.
DockRetry ==
  /\ Here({"dock_robot"}, "retry")
  /\ Local([cb EXCEPT !.own.retries = @ + 1,
                      !.at = IF cb.own.retries + 1 > MaxRetries THEN "error" ELSE "reset"])

\* resetApproach: interrupted, at the staging pose, an error (no retry is left
\* for it), or a command to the base.
DockResetApproach ==
  /\ Here({"dock_robot"}, "reset")
  /\ \/ Local(Goto("error"))
     \/ IF Interrupted THEN Local(Goto("interrupted"))
        ELSE \/ Local(Goto("approach"))
             \/ Local(Publish(cb, "moving"))

\* stashDockData frees the allocated dock.
StashDockData(c) == [c EXCEPT !.own.dock = "null"]

DockDone ==
  /\ Here({"dock_robot"}, "docking_done")
  /\ SucceededCurrent(Answer("done"))
  /\ Called(Publish(StashDockData(Goto("return")), "zero"))

\* terminate_all also ends the goal that preempted this one.
DockInterrupted ==
  /\ Here({"dock_robot"}, "interrupted")
  /\ TerminateAll(Answer("empty"))
  /\ Called(Publish(StashDockData(Goto("return")), "zero"))

DockError ==
  /\ Here({"dock_robot"}, "error")
  /\ TerminateCurrent(Answer("error"))
  /\ Called(Publish(StashDockData(Goto("return")), "zero"))

-----------------------------------------------------------------------------
(* undockRobot *)

\* No dock type known, an error, not in the dock (return without an answer: the
\* worker loop aborts the goal), or the undocking loop.
UndockFind ==
  /\ Here({"undock_robot"}, "find")
  /\ IF cb.job = None
     THEN Local(Goto("crashed"))
     ELSE \E next \in {"undock_error", "return", "undock"} : Local(Goto(next))

\* Timed out, interrupted, at the staging pose, or a command.
UndockLoop ==
  /\ Here({"undock_robot"}, "undock")
  /\ \/ Local(Goto("undock_error"))
     \/ IF Interrupted THEN Local(Goto("undock_interrupted"))
        ELSE \/ \E next \in {"undock_done", "undock_error"} : Local(Publish(Goto(next), "zero"))
             \/ Local(Publish(cb, "moving"))

UndockInterrupted ==
  /\ Here({"undock_robot"}, "undock_interrupted")
  /\ TerminateAll(Answer("empty"))
  /\ Called(Publish(Goto("return"), "zero"))

UndockDone ==
  /\ Here({"undock_robot"}, "undock_done")
  /\ SucceededCurrent(Answer("done"))
  /\ Called(Publish(Goto("return"), "zero"))

UndockError ==
  /\ Here({"undock_robot"}, "undock_error")
  /\ TerminateCurrent(Answer("error"))
  /\ Called(Publish(Goto("return"), "zero"))

DockNext ==
  \/ DockEntry \/ DockIsInactive \/ DockIsCancelled \/ DockCancelled
  \/ DockGetPreemptedGoalIfRequested \/ DockFind \/ DockAlreadyDocked \/ DockStage \/ DockPerceive
  \/ DockApproach \/ DockWaitForCharge \/ DockRetry \/ DockResetApproach \/ DockDone
  \/ DockInterrupted \/ DockError
  \/ UndockFind \/ UndockLoop \/ UndockInterrupted \/ UndockDone \/ UndockError
=============================================================================
