--------------------------- MODULE BtControlNodes ---------------------------
(***************************************************************************)
(* The nodes of nav2_behavior_tree that ask no server: the control and     *)
(* decorator nodes, and the conditions and selectors that remember         *)
(* something.                                                              *)
(***************************************************************************)
EXTENDS Component, Naturals, FiniteSets, Sequences

-----------------------------------------------------------------------------
(***************************************************************************)
(* The control and decorator nodes of nav2_behavior_tree, each under a     *)
(* parent that ticks and halts it and above children that return anything. *)
(* A tick of a child is one step; at is "parent" between two ticks of the  *)
(* node and "child" while it is about to tick child number st.i.           *)
(*                                                                         *)
(*   status   status of the node         child   statuses of its children  *)
(*   last     last_child_ticked_ or      count   retry_count_ or           *)
(*            current_child_idx_                 num_failed_children_      *)
(*   first    first_time_                skipped children skipped in tick  *)
(* and, for the properties,                                                *)
(*   heard       what the children have answered in this activation        *)
(*   recoveries  recoveries that succeeded in this activation              *)
(*   lost        the node answered without halting a running child, or     *)
(*               (RecoveryNode) began with an earlier activation's count   *)
(***************************************************************************)

CONSTANT Retries  \* number_of_retries

ASSUME RetriesAssumption == Retries \in Nat

Answers == {"SUCCESS", "FAILURE", "RUNNING", "SKIPPED"}
Statuses == {"IDLE", "SUCCESS", "FAILURE", "RUNNING"}

Controls == {"PipelineSequence", "RecoveryNode", "RoundRobin"}
Decorators == {"RateController", "DistanceController", "SpeedController", "GoalUpdatedController",
               "SingleTrigger", "GoalUpdater", "PathLongerOnApproach"}

Children(p) == IF p \in Decorators THEN {1} ELSE IF p = "RecoveryNode" THEN {1, 2} ELSE {1, 2, 3}

ControlNodeInit(p) ==
  {[at |-> "parent", status |-> "IDLE", child |-> [c \in Children(p) |-> "IDLE"], i |-> 1,
    last |-> 1, count |-> 0, skipped |-> 0, first |-> p \in {"SingleTrigger", "PathLongerOnApproach"},
    heard |-> [c \in Children(p) |-> {}], recoveries |-> 0, lost |-> FALSE]}

-----------------------------------------------------------------------------
(* BehaviorTree.CPP *)

\* haltChildren(), haltChild(), ControlNode::halt() and DecoratorNode::halt()
HaltChildren(s) == [s EXCEPT !.child = [c \in Children(part) |-> "IDLE"]]
HaltChild(s, c) == [s EXCEPT !.child[c] = "IDLE"]
HaltNode(s) == [HaltChildren(s) EXCEPT !.status = "IDLE"]

\* executeTick() of child st.i has returned a; SKIPPED leaves its status as it is.
Ticked(a) ==
  [st EXCEPT !.child[st.i] = IF a = "SKIPPED" THEN @ ELSE a, !.heard[st.i] = @ \cup {a}]

\* tick() returns a.  DecoratorNode::executeTick resets a child that has finished.
Return(s, a) ==
  [s EXCEPT !.at = "parent", !.i = 1, !.skipped = 0,
            !.status = IF a = "SKIPPED" THEN @ ELSE a,
            !.child = IF part \in Decorators /\ s.child[1] \in {"SUCCESS", "FAILURE"}
                      THEN [c \in {1} |-> "IDLE"] ELSE @]

Idle == st.status = "IDLE"

-----------------------------------------------------------------------------
(* Control nodes *)

\* Mistake: the children are not halted when one fails.
PipelineSequenceNoHalt(a) ==
  LET s == Ticked(a)
      more == [s EXCEPT !.i = @ + 1, !.skipped = IF a = "SKIPPED" THEN @ + 1 ELSE @]
  IN  IF a = "FAILURE" THEN Return([s EXCEPT !.last = 1], "FAILURE")
      ELSE IF a = "RUNNING" /\ s.i >= s.last THEN Return([s EXCEPT !.last = s.i], "RUNNING")
      ELSE IF s.i < 3 THEN more
      ELSE Return([HaltChildren(more) EXCEPT !.last = 1], "SUCCESS")

\* A running child in front of the last one ticked does not hold up the others.
PipelineSequence(a) ==
  LET s == Ticked(a)
      more == [s EXCEPT !.i = @ + 1, !.skipped = IF a = "SKIPPED" THEN @ + 1 ELSE @]
  IN  IF a = "FAILURE" THEN Return([HaltChildren(s) EXCEPT !.last = 1], "FAILURE")
      ELSE IF a = "RUNNING" /\ s.i >= s.last THEN Return([s EXCEPT !.last = s.i], "RUNNING")
      ELSE IF s.i < 3 THEN more
      ELSE Return([HaltChildren(more) EXCEPT !.last = 1],
                  IF more.skipped = 3 THEN "SKIPPED" ELSE "SUCCESS")

RecoveryHalt(s) == [HaltNode(s) EXCEPT !.count = 0, !.last = 1]

\* Mistake: a recovery is not counted.
RecoveryNodeUncounted(a) ==
  LET s == Ticked(a)
  IN  IF a = "RUNNING" THEN Return([s EXCEPT !.last = s.i], "RUNNING")
      ELSE IF s.i = 1 /\ a = "FAILURE" /\ s.count < Retries THEN [HaltChild(s, 1) EXCEPT !.i = 2]
      ELSE IF s.i = 2 /\ a = "SUCCESS"
      THEN [HaltChild(s, 2) EXCEPT !.i = 1, !.recoveries = @ + 1]
      ELSE IF s.i = 2 /\ a = "SKIPPED" THEN Return([HaltChild(s, 2) EXCEPT !.last = 1], "FAILURE")
      ELSE Return(RecoveryHalt(s), a)

\* last is current_child_idx_, count is retry_count_.  A skipped recovery ends the
\* activation without resetting retry_count_.
RecoveryNode(a) ==
  LET s == Ticked(a)
  IN  IF a = "RUNNING" THEN Return([s EXCEPT !.last = s.i], "RUNNING")
      ELSE IF s.i = 1 /\ a = "FAILURE" /\ s.count < Retries THEN [HaltChild(s, 1) EXCEPT !.i = 2]
      ELSE IF s.i = 2 /\ a = "SUCCESS"
      THEN [HaltChild(s, 2) EXCEPT !.i = 1, !.count = @ + 1, !.recoveries = @ + 1]
      ELSE IF s.i = 2 /\ a = "SKIPPED" THEN Return([HaltChild(s, 2) EXCEPT !.last = 1], "FAILURE")
      ELSE Return(RecoveryHalt(s), a)

\* last is current_child_idx_, count is num_failed_children_.
RoundRobin(a) ==
  LET s == Ticked(a)
      next == IF s.i = 3 THEN 1 ELSE s.i + 1
      failed == IF a = "FAILURE" THEN s.count + 1 ELSE s.count
      skipped == IF a = "SKIPPED" THEN s.skipped + 1 ELSE s.skipped
  IN  IF a = "RUNNING" THEN Return([s EXCEPT !.last = s.i], "RUNNING")
      ELSE IF a = "SUCCESS" THEN Return([HaltChildren(s) EXCEPT !.count = 0, !.last = next], "SUCCESS")
      ELSE IF failed + skipped < 3
      THEN [s EXCEPT !.i = next, !.count = failed, !.skipped = skipped]
      ELSE Return([HaltNode(s) EXCEPT !.count = 0, !.last = 1],
                  IF skipped = 3 THEN "SKIPPED" ELSE "FAILURE")

\* The parent ticks the node: RecoveryNode and RoundRobin go on with the child they
\* were at, PipelineSequence starts over.
ControlTick ==
  /\ In(Controls, "parent")
  /\ LET fresh == st.status # "RUNNING"
     IN  Become([st EXCEPT !.at = "child",
                           !.i = IF part = "PipelineSequence" THEN 1 ELSE st.last,
                           !.heard = IF fresh THEN [c \in Children(part) |-> {}] ELSE @,
                           !.recoveries = IF fresh THEN 0 ELSE @,
                           !.lost = IF fresh THEN part = "RecoveryNode" /\ st.count > 0 ELSE @,
                           !.status = IF part = "PipelineSequence" THEN @ ELSE "RUNNING"])

ControlChild ==
  /\ In(Controls, "child")
  /\ \E a \in Answers :
       Become(CASE part = "PipelineSequence" -> PipelineSequence(a)
                [] part = "RecoveryNode"     -> RecoveryNode(a)
                [] part = "RoundRobin"       -> RoundRobin(a))

\* halt() of the three nodes
ControlHalt ==
  In(Controls, "parent") /\ Become([HaltNode(st) EXCEPT !.count = 0, !.last = 1])

-----------------------------------------------------------------------------
(* Decorators: a tick with its conditions, then the child *)

TickChild == [st EXCEPT !.at = "child", !.status = "RUNNING"]
Wait == Return(st, "RUNNING")
ChildRunning == st.child[1] = "RUNNING"

\* The period may be over.
RateControllerTick ==
  /\ In({"RateController"}, "parent")
  /\ \E elapsed \in BOOLEAN : Become(IF Idle \/ ChildRunning \/ elapsed THEN TickChild ELSE Wait)

\* The same, and the goal may have changed, which starts a new period at once.
SpeedControllerTick ==
  /\ In({"SpeedController"}, "parent")
  /\ \E elapsed, updated \in BOOLEAN :
       Become(IF Idle \/ updated \/ ChildRunning \/ elapsed THEN TickChild ELSE Wait)

GoalUpdatedControllerTick ==
  /\ In({"GoalUpdatedController"}, "parent")
  /\ \E updated \in BOOLEAN : Become(IF Idle \/ updated \/ ChildRunning THEN TickChild ELSE Wait)

\* The robot pose may not be available, at the first or at the second request of an
\* idle node: the child is left as it is.
DistanceControllerTick ==
  /\ In({"DistanceController"}, "parent")
  /\ \/ \E travelled \in BOOLEAN :
          Become(IF Idle \/ st.first \/ ChildRunning \/ travelled
                 THEN [TickChild EXCEPT !.first = FALSE] ELSE Wait)
     \/ \E first \in IF Idle THEN {st.first, TRUE} ELSE {st.first} :
          Become([Return(st, "FAILURE") EXCEPT !.lost = ChildRunning, !.first = first])

SingleTriggerTick ==
  /\ In({"SingleTrigger"}, "parent")
  /\ Become(IF Idle \/ st.first THEN [TickChild EXCEPT !.first = TRUE] ELSE Return(st, "FAILURE"))

GoalUpdaterTick ==
  In({"GoalUpdater"}, "parent") /\ Become([TickChild EXCEPT !.status = st.status])

\* The child is ticked while the new path is longer; otherwise SUCCESS, and the
\* child is left as it is.  first_time_ is set again when the goal has changed.
PathLongerOnApproachTick ==
  /\ In({"PathLongerOnApproach"}, "parent")
  /\ \/ ~st.first /\ Become(TickChild)
     \/ Become([Return(st, "SUCCESS") EXCEPT !.lost = ChildRunning, !.first = FALSE])

\* The child has answered.  SingleTrigger is done when the child is;
\* DistanceController needs the pose again after SUCCESS.
DecoratorChild ==
  /\ In(Decorators, "child")
  /\ \E a \in Answers :
       LET s == [Ticked(a) EXCEPT !.lost = FALSE,
                                  !.first = @ /\ a \in {"SKIPPED", "RUNNING"}]
       IN  \/ Become(Return(s, a))
           \/ part = "DistanceController" /\ a = "SUCCESS" /\ Become(Return(s, "FAILURE"))

\* halt(), by the parent while the node is running or by haltTree()
DecoratorHalt == In(Decorators, "parent") /\ Become([HaltNode(st) EXCEPT !.lost = FALSE])

\* haltChild() of the parent does not call halt() of a node that has finished.
NodeReset ==
  /\ In(Controls \cup Decorators, "parent")
  /\ st.status \in {"SUCCESS", "FAILURE"}
  /\ Become([st EXCEPT !.status = "IDLE"])

ControlNodesNext ==
  \/ ControlTick \/ ControlChild \/ ControlHalt
  \/ RateControllerTick \/ SpeedControllerTick \/ GoalUpdatedControllerTick
  \/ DistanceControllerTick \/ SingleTriggerTick \/ GoalUpdaterTick \/ PathLongerOnApproachTick
  \/ DecoratorChild \/ DecoratorHalt \/ NodeReset

-----------------------------------------------------------------------------
(* Properties *)

\* A node that has answered has no child that still runs, except where the pose
\* was lost (DistanceController) or the path stopped being longer
\* (PathLongerOnApproach): those return without halting the child.
NoChildLeftRunning ==
  part \in Controls \cup Decorators /\ st.at = "parent" =>
    \/ st.status = "RUNNING"
    \/ \A c \in Children(part) : st.child[c] # "RUNNING"
    \/ part \in {"DistanceController", "PathLongerOnApproach"} /\ st.lost

\* The control nodes give up only when they may.  RoundRobin fails after every child
\* has failed or was skipped in this activation.  PipelineSequence does not reach a
\* child before the one in front has been through.  RecoveryNode recovers at most
\* Retries times, and fails after as many recoveries or after a recovery that did not
\* succeed, unless a skipped recovery left it the count of an earlier activation.
GivesUpOnlyWhenDone ==
  /\ part = "RoundRobin" /\ st.status = "FAILURE" =>
       \A c \in Children(part) : st.heard[c] \cap {"FAILURE", "SKIPPED"} # {}
  /\ part = "PipelineSequence" =>
       \A c \in {2, 3} : st.heard[c] # {} => st.heard[c - 1] \cap {"SUCCESS", "SKIPPED"} # {}
  /\ part = "RecoveryNode" =>
       /\ st.recoveries <= Retries
       /\ st.status = "FAILURE" =>
            st.recoveries = Retries \/ st.heard[2] \cap {"FAILURE", "SKIPPED"} # {} \/ st.lost

-----------------------------------------------------------------------------
(***************************************************************************)
(* The condition nodes and the selector nodes of nav2_behavior_tree that   *)
(* remember something from one tick to the next.                           *)
(*                                                                         *)
(*   status  status of the node (SUCCESS or FAILURE until it is reset)     *)
(*   input   the goal or path on the blackboard, the newest message        *)
(*   kept    goal_, prev_path_, last_selected_..., is_battery_low_, ...    *)
(*   first   first_time, first_time_, was_found_ (negated); for            *)
(*           DistanceTraveled, start_pose_ is no pose of the robot         *)
(*   age     time or distance since start_, up to Period                   *)
(*   queue   messages the node has not taken yet                           *)
(* and, for the properties,                                                *)
(*   since   time since the answer was SUCCESS or the clock was set        *)
(*   tick    the last tick: was the node fresh, what were the inputs of    *)
(*           this tick and of the one before, since, and first             *)
(***************************************************************************)

CONSTANTS
  Period,    \* seconds, distance
  MaxQueue   \* bound: messages between two ticks

ASSUME ConditionsAssumption == Period \in Nat \ {0} /\ MaxQueue \in Nat \ {0}

GoalConditions == {"GoalUpdated", "GloballyUpdatedGoal"}
Timers == {"TimeExpired", "DistanceTraveled", "PathExpiringTimer"}
Listeners == {"IsBatteryLow", "IsBatteryCharging", "PlannerSelector", "ControllerSelector",
              "SmootherSelector", "GoalCheckerSelector", "ProgressCheckerSelector"}
Selectors == {p \in Listeners : p \notin {"IsBatteryLow", "IsBatteryCharging"}}
Conditions == GoalConditions \cup Timers \cup Listeners \cup {"IsStuck", "TransformAvailable"}

Inputs == {"a", "b"}
Nothing == "nothing"

\* A selector may have a default; without one it fails until it was told.
ConditionInit(p) ==
  {[at |-> "parent", status |-> "IDLE", input |-> i, kept |-> Nothing, first |-> TRUE, age |-> 0,
    queue |-> <<>>, default |-> d, since |-> 0,
    tick |-> [fresh |-> TRUE, before |-> Nothing, input |-> Nothing, since |-> 0,
              first |-> TRUE]] :
     i \in Inputs, d \in IF p \in Selectors THEN {"a", Nothing} ELSE {Nothing}}

Fresh == st.status = "IDLE"
Answered(s, yes) ==
  [s EXCEPT !.status = IF yes THEN "SUCCESS" ELSE "FAILURE", !.since = IF yes THEN 0 ELSE @,
            !.tick = [fresh |-> Fresh, before |-> @.input, input |-> st.input, since |-> st.since,
                      first |-> st.first]]
Older(t) == IF t < Period THEN t + 1 ELSE t

-----------------------------------------------------------------------------
(* Has the goal changed? *)

GoalUpdatedTick ==
  /\ In({"GoalUpdated"}, "parent")
  /\ Become(Answered([st EXCEPT !.kept = st.input], ~Fresh /\ st.kept # st.input))

\* Mistake: the new goal is not remembered.
GloballyUpdatedGoalTickForgets ==
  /\ In({"GloballyUpdatedGoal"}, "parent")
  /\ Become(Answered([st EXCEPT !.kept = IF st.first THEN st.input ELSE @, !.first = FALSE],
                     st.first \/ st.kept # st.input))

GloballyUpdatedGoalTick ==
  /\ In({"GloballyUpdatedGoal"}, "parent")
  /\ Become(Answered([st EXCEPT !.kept = st.input, !.first = FALSE],
                     st.first \/ st.kept # st.input))

-----------------------------------------------------------------------------
(* Is it over? *)

TimeExpiredTick ==
  /\ In({"TimeExpired"}, "parent")
  /\ LET over == ~Fresh /\ st.age = Period
     IN  Become(Answered([st EXCEPT !.age = IF Fresh \/ over THEN 0 ELSE @,
                                    !.since = IF Fresh THEN 0 ELSE @], over))

\* getCurrentPose sets the pose to the identity before it looks the transform up: a fresh
\* node that finds no robot pose measures from the origin of the map, at any distance.
DistanceTraveledTick ==
  /\ In({"DistanceTraveled"}, "parent")
  /\ \/ ~Fresh /\ Become(Answered(st, FALSE))
     \/ /\ Fresh
        /\ \E d \in 0 .. Period :
             Become(Answered([st EXCEPT !.age = d, !.since = 0, !.first = TRUE], FALSE))
     \/ LET over == ~Fresh /\ st.age = Period
        IN  Become(Answered([st EXCEPT !.age = IF Fresh \/ over THEN 0 ELSE @,
                                       !.since = IF Fresh THEN 0 ELSE @,
                                       !.first = IF Fresh \/ over THEN FALSE ELSE @], over))

PathExpiringTimerTick ==
  /\ In({"PathExpiringTimer"}, "parent")
  /\ LET new == st.first \/ st.kept # st.input
         over == ~new /\ st.age = Period
     IN  Become(Answered([st EXCEPT !.kept = st.input, !.first = FALSE,
                                    !.age = IF new \/ over THEN 0 ELSE @,
                                    !.since = IF new THEN 0 ELSE @], over))

\* The robot may come nearer to where it started.
TimePasses ==
  /\ In(Timers, "parent")
  /\ \E a \in IF part = "DistanceTraveled" THEN 0 .. Older(st.age) ELSE {Older(st.age)} :
       Become([st EXCEPT !.age = a, !.since = Older(@)])

-----------------------------------------------------------------------------
(* What was the last message? *)

\* The callbacks run in spin_some, one per message; a selector's queue has room for
\* one message, the newest.
Newest(s) ==
  IF s.queue = <<>> THEN s ELSE [s EXCEPT !.kept = s.queue[Len(s.queue)], !.queue = <<>>]

BatteryTick ==
  /\ In(Listeners \ Selectors, "parent")
  /\ Become(Answered(Newest(st), Newest(st).kept = "a"))

SelectorTick ==
  /\ In(Selectors, "parent")
  /\ LET s == Newest(st)
         chosen == IF s.kept = Nothing THEN s.default ELSE s.kept
     IN  Become(Answered([s EXCEPT !.kept = chosen], chosen # Nothing))

MessageArrives ==
  /\ part \in Listeners
  /\ \E m \in Inputs :
       \/ /\ part \in Selectors
          /\ Become([st EXCEPT !.input = m, !.queue = <<m>>])
       \/ /\ part \notin Selectors /\ Len(st.queue) < MaxQueue
          /\ Become([st EXCEPT !.input = m, !.queue = Append(@, m)])

\* onOdomReceived in a thread of its own: from the third message on, the last two
\* tell the acceleration ("a": braking hard).
OdomReceived ==
  /\ part = "IsStuck"
  /\ \E m \in Inputs :
       Become([st EXCEPT !.age = IF @ < 3 THEN @ + 1 ELSE @, !.input = m,
                         !.kept = IF st.age >= 2 THEN m ELSE Nothing])

IsStuckTick == In({"IsStuck"}, "parent") /\ Become(Answered(st, st.kept = "a"))

\* A transform that was found once is never looked up again.
TransformAvailableTick ==
  /\ In({"TransformAvailable"}, "parent")
  /\ LET found == ~st.first \/ st.input = "a"
     IN  Become(Answered([st EXCEPT !.first = ~found], found))

-----------------------------------------------------------------------------
\* The blackboard, or the world, changes; a parent resets the node.
InputChanges ==
  /\ In(GoalConditions \cup {"PathExpiringTimer", "TransformAvailable"}, "parent")
  /\ \E i \in Inputs \ {st.input} : Become([st EXCEPT !.input = i])
ConditionReset ==
  /\ In(Conditions, "parent") /\ ~Fresh
  /\ Become([st EXCEPT !.status = "IDLE"])

ConditionsNext ==
  \/ GoalUpdatedTick \/ GloballyUpdatedGoalTick
  \/ TimeExpiredTick \/ DistanceTraveledTick \/ PathExpiringTimerTick \/ TimePasses
  \/ BatteryTick \/ SelectorTick \/ MessageArrives \/ OdomReceived \/ IsStuckTick
  \/ TransformAvailableTick \/ InputChanges \/ ConditionReset

-----------------------------------------------------------------------------
(* Properties *)

\* A change of the goal is reported by the first tick after it and by no other
\* (GoalUpdated: unless it was reset in between).  A timer that answers SUCCESS has
\* run for the whole period since it last did so, since it was started and, for a
\* path, since the path is the same; DistanceTraveled only if the robot pose was known
\* when it started.  Battery and selector nodes answer from the newest message that has
\* arrived.
ConditionHolds ==
  part \in Conditions /\ ~Fresh =>
    LET yes == st.status = "SUCCESS"
        changed == st.tick.before # st.tick.input
    IN  /\ part = "GoalUpdated" => (yes <=> changed /\ ~st.tick.fresh)
        /\ part = "GloballyUpdatedGoal" => (yes <=> changed)
        /\ part \in Timers /\ yes =>
             \/ st.tick.since = Period
             \/ part = "DistanceTraveled" /\ st.tick.first
        /\ part \in {"IsBatteryLow", "IsBatteryCharging"} /\ st.kept # Nothing =>
             (yes <=> st.tick.input = "a")
        /\ part \in Selectors /\ st.kept # st.default => yes /\ st.kept = st.tick.input

\* DistanceTraveled answers SUCCESS only after the robot has travelled the distance.
\* It does not hold: README, Disagreements.
DistanceIsTraveled ==
  part = "DistanceTraveled" /\ st.status = "SUCCESS" => st.tick.since = Period
=============================================================================
