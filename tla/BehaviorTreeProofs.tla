------------------------- MODULE BehaviorTreeProofs -------------------------
(***************************************************************************)
(* Proofs about the nodes of a behavior tree, for every number of retries, *)
(* goals, requests, messages and every period.  The inductive invariant    *)
(* has one part per kind of node: what a node has been through in this     *)
(* activation, which goals it has left to the server, and what it          *)
(* remembers from the last tick.                                           *)
(***************************************************************************)
EXTENDS BehaviorTree, TLAPS

-----------------------------------------------------------------------------
(* Control and decorator nodes *)

ControlState(p) ==
  [at : {"parent", "child"}, status : Statuses, child : [Children(p) -> Statuses],
   i : Nat, last : Children(p), count : Nat, skipped : 0 .. 3, first : BOOLEAN,
   heard : [Children(p) -> SUBSET Answers], recoveries : Nat, lost : BOOLEAN]

\* The node is between its first and its last tick of an activation.
Active == st.at = "child" \/ st.status = "RUNNING"

\* The child that is ticked next.
Turn == IF st.at = "child" THEN st.i ELSE st.last

Gone(c) == st.heard[c] \cap {"SUCCESS", "SKIPPED"} # {}
Failed(c) == st.heard[c] \cap {"FAILURE", "SKIPPED"} # {}

\* Every child in front of the one that runs has been through.
PipelineInv ==
  /\ ~Active => st.last = 1
  /\ Active => \A c \in Children(part) : c < st.last => Gone(c)
  /\ st.at = "child" => \A c \in Children(part) : c < st.i => Gone(c)
  /\ st.heard[2] # {} => Gone(1)
  /\ st.heard[3] # {} => Gone(2)
  /\ st.skipped = 0 \/ (st.at = "child" /\ st.skipped < st.i)

\* retry_count_ counts the recoveries of this activation, unless it began with the
\* count an earlier one has left; a recovery is only run while one is allowed.
RecoveryInv ==
  /\ st.at = "child" => st.status = "RUNNING"
  /\ st.count <= Retries /\ st.recoveries <= Retries
  /\ Active /\ Turn = 2 => st.count < Retries /\ st.child[1] # "RUNNING"
  /\ ~Active => st.last = 1
  /\ Active => st.recoveries <= st.count /\ (st.lost \/ st.recoveries = st.count)
  /\ st.status = "FAILURE" => st.recoveries = Retries \/ Failed(2) \/ st.lost

Before(c) == IF c = 1 THEN 3 ELSE c - 1

\* The children that failed or were skipped are the ones before the one whose turn
\* it is.
RoundRobinInv ==
  /\ st.at = "child" => st.status = "RUNNING"
  /\ st.at = "parent" => st.skipped = 0
  /\ st.count + st.skipped <= 2
  /\ ~Active => st.count = 0
  /\ st.count + st.skipped >= 1 => Failed(Before(Turn))
  /\ st.count + st.skipped >= 2 => Failed(Before(Before(Turn)))
  /\ st.status = "FAILURE" => \A c \in Children(part) : Failed(c)

\* A child is running only in a running node; SingleTrigger knows it by first_time_.
DecoratorInv ==
  /\ part # "GoalUpdater" /\ st.at = "child" => st.status = "RUNNING"
  /\ part = "GoalUpdater" /\ st.child[1] = "RUNNING" => st.status = "RUNNING"
  /\ part = "SingleTrigger" /\ st.child[1] = "RUNNING" => st.first
  /\ part = "SingleTrigger" /\ st.at = "child" => st.first

ControlInv ==
  /\ st \in ControlState(part) /\ st.i \in Children(part)
  /\ part = "PipelineSequence" => PipelineInv
  /\ part = "RecoveryNode" => RecoveryInv
  /\ part = "RoundRobin" => RoundRobinInv
  /\ part \in Decorators => DecoratorInv
  /\ NoChildLeftRunning

-----------------------------------------------------------------------------
(* Action nodes *)

GoalStates == {"none", "sent", "rejected", "executing", "canceling"} \cup Ended

ActionState ==
  [at : {"parent", "response", "response2", "wait", "spin", "result", "cancel", "cancelled"},
   status : Statuses, goal : [Goals -> GoalStates], handle : Goals \cup {NoGoal},
   future : Goals \cup {NoGoal}, result : Goals \cup {NoGoal}, updated : BOOLEAN,
   recovery : BOOLEAN, recoveries : Nat, path : Goals \cup {NoGoal}, error : {"NONE", "CODE"},
   sent : Goals \cup {NoGoal}, unseen : SUBSET Goals]

\* The goals sent are numbered, the node waits for the response to the last one only,
\* and a result it has is that of the last one.
ClientInv ==
  /\ \A g \in Goals : st.goal[g] = "none" <=> g > st.sent
  /\ st.future \in {NoGoal, st.sent} /\ st.result \in {NoGoal, st.sent} /\ st.handle <= st.sent
  /\ st.result # NoGoal => st.goal[st.result] \in Ended /\ st.future = NoGoal
  /\ st.at \in {"response", "response2"} => st.future # NoGoal
  /\ st.at \in {"wait", "spin"} => st.handle = st.sent /\ st.future = NoGoal /\ st.sent # NoGoal
  /\ st.at \in {"wait", "spin"} => st.result = NoGoal
  /\ st.at \in {"response", "response2", "wait", "spin", "cancel", "cancelled"} =>
       st.status \in {"RUNNING", "SUCCESS"}
  /\ st.at = "result" => st.result # NoGoal
  /\ st.at = "cancel" => st.handle # NoGoal /\ st.status = "RUNNING"
  /\ st.handle = NoGoal \/ st.goal[st.handle] \notin {"none", "sent", "rejected"}
  /\ st.at = "parent" /\ st.status = "SUCCESS" => st.result # NoGoal
  /\ st.at \in {"parent", "cancel"} /\ st.status = "RUNNING" =>
       st.result = NoGoal /\ (st.future = NoGoal => st.handle = st.sent /\ st.sent # NoGoal)
  /\ ~Hooks.codes => st.error = "NONE"

\* The last goal is no longer the node's concern.
Settled ==
  \/ st.sent = NoGoal \/ st.sent \in st.unseen
  \/ st.goal[st.sent] \in {"rejected", "canceling"} \cup Ended

\* The server has every goal whose response the node was not there to see, and
\* works on the goals in their order.
LeftInv ==
  /\ \A g \in Goals : st.goal[g] = "sent" => g \in st.unseen \/ g = st.future
  /\ \A g, r \in Goals :
       g < r /\ st.goal[r] \in Ended /\ st.goal[g] \in {"sent", "executing", "canceling"} =>
         \E u \in st.unseen : g <= u
  /\ st.at = "cancel" /\ st.future # NoGoal => st.sent \in st.unseen
  /\ st.at = "parent" /\ st.status # "RUNNING" => Settled
  /\ st.at = "cancelled" => Settled

ActionInv == st \in ActionState /\ ClientInv /\ LeftInv /\ ReportIsOfLastGoal

-----------------------------------------------------------------------------
(* Service and cancel nodes *)

ServiceState ==
  [at : {"parent", "future"}, status : Statuses, requests : 0 .. MaxRequests, pending : BOOLEAN,
   served : SUBSET Requests, recoveries : Nat]

ServiceInv == st \in ServiceState

CancelState ==
  [at : {"parent", "request"}, status : Statuses,
   goal : [Requests -> {"none", "executing", "canceling", "ended"}], old : SUBSET Requests,
   asked : SUBSET Requests]

CancelInv ==
  /\ st \in CancelState
  /\ st.asked \subseteq st.old
  /\ \A g \in st.old : st.goal[g] # "none"

-----------------------------------------------------------------------------
(* Conditions *)

Ticks == [fresh : BOOLEAN, before : Inputs \cup {Nothing}, input : Inputs \cup {Nothing},
          since : 0 .. Period, first : BOOLEAN]

ConditionState ==
  [at : {"parent"}, status : {"IDLE", "SUCCESS", "FAILURE"}, input : Inputs,
   kept : Inputs \cup {Nothing}, first : BOOLEAN, age : Nat, queue : Seq(Inputs),
   default : {"a", Nothing}, since : 0 .. Period, tick : Ticks]

RememberInv ==
  /\ part \in GoalConditions => st.kept = st.tick.input
  /\ part = "GloballyUpdatedGoal" => (st.first <=> st.kept = Nothing)
  /\ part \in Timers => st.age <= st.since \/ (part = "DistanceTraveled" /\ st.first)
  /\ part \in Listeners /\ st.queue # <<>> => st.queue[Len(st.queue)] = st.input
  /\ part \in Listeners /\ st.queue = <<>> => st.kept \in {Nothing, st.default, st.input}
  /\ part \in Listeners \ Selectors => st.default = Nothing
  /\ part \in {"IsBatteryLow", "IsBatteryCharging"} /\ ~Fresh =>
       (st.status = "SUCCESS" <=> st.kept = "a")
       /\ (st.kept # Nothing => st.kept = st.tick.input)

ConditionInv == st \in ConditionState /\ RememberInv /\ ConditionHolds

-----------------------------------------------------------------------------
TreeInv ==
  /\ part \in Nodes
  /\ part \in Controls \cup Decorators => ControlInv
  /\ part \in ActionNodes => ActionInv
  /\ part \in ServiceNodes => ServiceInv
  /\ part \in CancelNodes => CancelInv
  /\ part \in Conditions => ConditionInv
  /\ ServiceWasCalled

-----------------------------------------------------------------------------
(* The kinds of nodes are different nodes. *)

ActionNames ==
  {"ComputePathToPose", "NavbimComputePathToPose", "ComputePathThroughPoses", "ComputeRoute",
   "ComputeAndTrackRoute", "FollowPath", "SmoothPath", "Spin", "BackUp", "DriveOnHeading",
   "AssistedTeleop", "Wait", "NavigateToPose", "NavigateThroughPoses"}

\* The names of the action nodes, written out.
LEMMA ActionNodesAre == ActionNodes = ActionNames
BY DEF ActionNodes, ActionNames, Plugin

\* No node is of two kinds: the invariant of one kind says nothing of another.
LEMMA KindsDiffer ==
  ASSUME NEW p
  PROVE  /\ p \in Controls => p \notin Decorators
         /\ p \in Controls \cup Decorators =>
              p \notin ActionNodes /\ p \notin ServiceNodes /\ p \notin CancelNodes /\ p \notin Conditions
         /\ p \in ActionNodes => p \notin ServiceNodes /\ p \notin CancelNodes /\ p \notin Conditions
         /\ p \in ServiceNodes => p \notin CancelNodes /\ p \notin Conditions
         /\ p \in CancelNodes => p \notin Conditions
<1> USE ActionNodesAre DEF ActionNames, Controls, Decorators, ServiceNodes, ClearNodes, CancelNodes,
        Conditions, GoalConditions, Timers, Listeners
<1> QED OBVIOUS

-----------------------------------------------------------------------------
(* Control nodes *)

\* The initial state of a control or decorator node.
LEMMA InitControl ==
  ASSUME part \in Controls \cup Decorators, st \in ControlNodeInit(part)
  PROVE  ControlInv
<1> USE RetriesAssumption DEF ControlNodeInit, Children, Statuses, Answers
<1>1. st \in ControlState(part)
  <2> DEFINE f == part \in {"SingleTrigger", "PathLongerOnApproach"}
  <2>1. f \in BOOLEAN
    OBVIOUS
  <2>2. st = [at |-> "parent", status |-> "IDLE", child |-> [c \in Children(part) |-> "IDLE"],
              i |-> 1, last |-> 1, count |-> 0, skipped |-> 0, first |-> f,
              heard |-> [c \in Children(part) |-> {}], recoveries |-> 0, lost |-> FALSE]
    BY Zenon
  <2> HIDE DEF f
  <2> QED BY <2>1, <2>2 DEF ControlState
<1>2. NoChildLeftRunning
  BY DEF NoChildLeftRunning
<1>3. part = "PipelineSequence" => PipelineInv
  BY DEF PipelineInv, Active, Turn, Gone, Decorators
<1>4. part = "RecoveryNode" => RecoveryInv
  BY DEF RecoveryInv, Active, Turn, Failed, Decorators
<1>5. part = "RoundRobin" => RoundRobinInv
  BY DEF RoundRobinInv, Active, Turn, Failed, Before, Decorators
<1>6. part \in Decorators => DecoratorInv
  BY DEF DecoratorInv, Decorators
<1>7. st.i \in Children(part)
  OBVIOUS
<1> QED BY <1>1, <1>2, <1>3, <1>4, <1>5, <1>6, <1>7 DEF ControlInv

\* A tick of child st.i changes its status and what was heard of it.
LEMMA TickedIs ==
  ASSUME NEW p, p = part, st \in ControlState(p), st.i \in Children(p), NEW a \in Answers
  PROVE  /\ Ticked(a) \in ControlState(p)
         /\ Ticked(a) = [st EXCEPT !.child = Ticked(a).child, !.heard = Ticked(a).heard]
         /\ Ticked(a).child = [st.child EXCEPT ![st.i] = IF a = "SKIPPED" THEN @ ELSE a]
         /\ Ticked(a).heard = [st.heard EXCEPT ![st.i] = @ \cup {a}]
BY ZenonT(40) DEF Ticked, ControlState, Answers, Statuses

\* tick() of a control node returns b.
LEMMA ReturnIs ==
  ASSUME NEW p, p = part, p \in Controls, NEW r \in ControlState(p), NEW b \in Answers
  PROVE  /\ Return(r, b) \in ControlState(p)
         /\ Return(r, b).at = "parent" /\ Return(r, b).i = 1 /\ Return(r, b).skipped = 0
         /\ Return(r, b).status = IF b = "SKIPPED" THEN r.status ELSE b
         /\ Return(r, b).child = r.child /\ Return(r, b).heard = r.heard
         /\ Return(r, b).last = r.last /\ Return(r, b).count = r.count
         /\ Return(r, b).recoveries = r.recoveries /\ Return(r, b).lost = r.lost
<1>1. p \notin Decorators /\ 1 \in Children(p)
  BY DEF Controls, Decorators, Children
<1> DEFINE v == IF b = "SKIPPED" THEN r.status ELSE b
<1>2. v \in Statuses
  BY DEF ControlState, Answers, Statuses
<1>3. Return(r, b) = [r EXCEPT !.at = "parent", !.i = 1, !.skipped = 0, !.status = v, !.child = r.child]
  BY <1>1 DEF Return
<1> HIDE DEF v
<1>4. Return(r, b) =
        [at |-> "parent", status |-> v, child |-> r.child, i |-> 1, last |-> r.last,
         count |-> r.count, skipped |-> 0, first |-> r.first, heard |-> r.heard,
         recoveries |-> r.recoveries, lost |-> r.lost]
  BY <1>3, Zenon DEF ControlState
<1>5. Return(r, b) \in ControlState(p)
  BY <1>1, <1>2, <1>4 DEF ControlState
<1> QED BY <1>4, <1>5 DEF v

\* haltChildren() and a new current child.
LEMMA HaltIs ==
  ASSUME NEW p, p = part, NEW r \in ControlState(p)
  PROVE  /\ HaltChildren(r) \in ControlState(p)
         /\ HaltChildren(r) = [r EXCEPT !.child = HaltChildren(r).child]
         /\ \A c \in Children(p) : HaltChildren(r).child[c] = "IDLE"
BY DEF HaltChildren, ControlState, Statuses

\* The next child.
LEMMA NextIs ==
  ASSUME NEW p, NEW r \in ControlState(p), NEW i \in Nat, NEW n \in 0 .. 3
  PROVE  [r EXCEPT !.i = i, !.skipped = n] \in ControlState(p)
BY ZenonT(40) DEF ControlState

\* PipelineSequence hears from a child.
LEMMA PipelineStep ==
  ASSUME ControlInv, part = "PipelineSequence", st.at = "child", NEW a \in Answers,
         Become(PipelineSequence(a))
  PROVE  ControlInv'
<1>c. part \in Controls /\ part \notin Decorators /\ Children(part) = {1, 2, 3}
  BY DEF Controls, Decorators, Children
<1>p. part' = part /\ st' = PipelineSequence(a)
  BY DEF Become
<1> DEFINE t == Ticked(a)
<1>s. st \in ControlState(part) /\ t \in ControlState(part) /\ PipelineInv
  BY TickedIs, Zenon DEF ControlInv
<1>t. /\ t = [st EXCEPT !.child = t.child, !.heard = t.heard]
      /\ t.heard = [st.heard EXCEPT ![st.i] = @ \cup {a}]
  BY TickedIs, Zenon DEF ControlInv
<1>g. \A c \in {1, 2, 3} : t.heard[c] = IF c = st.i THEN st.heard[c] \cup {a} ELSE st.heard[c]
  BY <1>c, <1>s, <1>t, ZenonT(40) DEF ControlState
<1>i. t.i = st.i /\ t.last = st.last /\ t.skipped = st.skipped /\ t.at = st.at
      /\ st.i \in {1, 2, 3} /\ st.last \in {1, 2, 3} /\ st.skipped \in 0 .. 3
      /\ (st.skipped = 0 \/ st.skipped < st.i)
  BY <1>s, <1>t, <1>c, Zenon DEF ControlState, PipelineInv, ControlInv
<1> DEFINE n == IF a = "SKIPPED" THEN t.skipped + 1 ELSE t.skipped
           more == [t EXCEPT !.i = t.i + 1, !.skipped = n]
<1>m. n \in 0 .. 3 /\ n < st.i + 1
  BY <1>i
<1>n. t.i + 1 \in Nat
  BY <1>i
<1> HIDE DEF t, n
<1>4. CASE a = "FAILURE"
  <2> DEFINE r == [HaltChildren(t) EXCEPT !.last = 1]
  <2>1. r \in ControlState(part) /\ r.last = 1 /\ r.heard = t.heard
        /\ \A c \in {1, 2, 3} : r.child[c] = "IDLE"
    BY <1>c, <1>s, HaltIs, SMTT(30) DEF ControlState
  <2>2. st' = Return(r, "FAILURE")
    BY <1>p, <1>4 DEF PipelineSequence, t
  <2> HIDE DEF r
  <2>3. st' \in ControlState(part) /\ st'.i = 1 /\ st'.at = "parent" /\ st'.status = "FAILURE" /\ st'.skipped = 0
        /\ st'.last = 1 /\ st'.heard = t.heard /\ \A c \in {1, 2, 3} : st'.child[c] = "IDLE"
    BY <1>c, <2>1, <2>2, ReturnIs DEF Answers
  <2>4. PipelineInv'
    BY <1>c, <1>p, <1>g, <1>s, <1>i, <2>3, <1>4 DEF PipelineInv, Active, Gone
  <2> QED BY <1>c, <1>p, <2>3, <2>4 DEF ControlInv, NoChildLeftRunning
<1>5. CASE a = "RUNNING" /\ st.i >= st.last
  <2> DEFINE r == [t EXCEPT !.last = t.i]
  <2>1. r \in ControlState(part) /\ r.last = st.i /\ r.heard = t.heard
    BY <1>c, <1>s, <1>i DEF ControlState
  <2>2. st' = Return(r, "RUNNING")
    BY <1>p, <1>5, <1>i DEF PipelineSequence, t
  <2> HIDE DEF r
  <2>3. st' \in ControlState(part) /\ st'.i = 1 /\ st'.at = "parent" /\ st'.status = "RUNNING" /\ st'.skipped = 0
        /\ st'.last = st.i /\ st'.heard = t.heard
    BY <1>c, <2>1, <2>2, ReturnIs DEF Answers
  <2>4. PipelineInv'
    BY <1>c, <1>p, <1>g, <1>s, <1>i, <2>3, <1>5 DEF PipelineInv, Active, Gone
  <2> QED BY <1>c, <1>p, <2>3, <2>4 DEF ControlInv, NoChildLeftRunning
<1>6. CASE a # "FAILURE" /\ ~(a = "RUNNING" /\ st.i >= st.last) /\ st.i < 3
  <2>1. st' = more
    BY <1>p, <1>6, <1>i, SMTT(30) DEF PipelineSequence, t, n
  <2>2. st' \in ControlState(part)
    BY <2>1, <1>s, <1>m, <1>n, NextIs, Zenon
  <2>3. st'.at = "child" /\ st'.i = st.i + 1 /\ st'.skipped = n /\ st'.last = st.last
        /\ st'.heard = t.heard
    BY <2>1, <1>s, <1>i DEF ControlState
  <2>4. a \in {"SUCCESS", "SKIPPED"} \/ Gone(st.i)
    BY <1>6, <1>i, <1>s, <1>c DEF Answers, PipelineInv, Active
  <2>5. \A c \in {1, 2, 3} : c < st.i + 1 => Gone(c)'
    BY <1>c, <1>g, <1>s, <1>i, <2>3, <2>4 DEF PipelineInv, Gone
  <2>6. \A c \in {1, 2, 3} : Gone(c) => Gone(c)'
    BY <1>g, <2>3 DEF Gone
  <2>7. PipelineInv'
    BY <1>c, <1>p, <1>g, <1>s, <1>i, <1>m, <2>3, <2>5, <2>6, SMTT(30) DEF PipelineInv, Active
  <2> QED BY <1>c, <1>p, <1>i, <1>6, <2>2, <2>3, <2>7 DEF ControlInv, NoChildLeftRunning
<1>7. CASE a # "FAILURE" /\ ~(a = "RUNNING" /\ st.i >= st.last) /\ ~(st.i < 3)
  <2> DEFINE r == [HaltChildren(more) EXCEPT !.last = 1]
             b == IF more.skipped = 3 THEN "SKIPPED" ELSE "SUCCESS"
  <2>1. st' = Return(r, b)
    BY <1>p, <1>7, <1>i, SMTT(30) DEF PipelineSequence, t, n
  <2>2. more \in ControlState(part)
    BY <1>s, <1>m, <1>n, NextIs, Zenon
  <2>7. more.heard = t.heard
    BY <1>s DEF ControlState
  <2> HIDE DEF more
  <2>3. r \in ControlState(part) /\ r.last = 1 /\ r.heard = t.heard
        /\ \A c \in {1, 2, 3} : r.child[c] = "IDLE"
    BY <1>c, <2>2, <2>7, HaltIs DEF ControlState
  <2>4. b \in Answers /\ b # "FAILURE"
    BY DEF Answers
  <2> HIDE DEF r, b
  <2>5. st' \in ControlState(part) /\ st'.i = 1 /\ st'.at = "parent" /\ st'.skipped = 0
        /\ st'.last = 1 /\ st'.heard = t.heard /\ \A c \in {1, 2, 3} : st'.child[c] = "IDLE"
    BY <1>c, <2>1, <2>3, <2>4, ReturnIs
  <2>6. PipelineInv'
    BY <1>c, <1>p, <1>g, <1>s, <1>i, <2>5 DEF PipelineInv, Active, Gone
  <2> QED BY <1>c, <1>p, <2>5, <2>6 DEF ControlInv, NoChildLeftRunning
<1> QED BY <1>4, <1>5, <1>6, <1>7

\* haltChild()
LEMMA HaltChildIs ==
  ASSUME NEW p, NEW r \in ControlState(p), NEW c \in Children(p)
  PROVE  /\ HaltChild(r, c) \in ControlState(p)
         /\ HaltChild(r, c) = [r EXCEPT !.child = HaltChild(r, c).child]
         /\ HaltChild(r, c).child = [r.child EXCEPT ![c] = "IDLE"]
BY DEF HaltChild, ControlState, Statuses

\* halt() of a control node.
LEMMA HaltNodeIs ==
  ASSUME NEW p, p = part, NEW r \in ControlState(p)
  PROVE  /\ RecoveryHalt(r) \in ControlState(p)
         /\ RecoveryHalt(r).status = "IDLE" /\ RecoveryHalt(r).count = 0
         /\ RecoveryHalt(r).last = 1 /\ RecoveryHalt(r).at = r.at /\ RecoveryHalt(r).i = r.i
         /\ RecoveryHalt(r).skipped = r.skipped /\ RecoveryHalt(r).heard = r.heard
         /\ RecoveryHalt(r).recoveries = r.recoveries /\ RecoveryHalt(r).lost = r.lost
         /\ \A c \in Children(p) : RecoveryHalt(r).child[c] = "IDLE"
<1> DEFINE h == RecoveryHalt(r)
           idle == [c \in Children(p) |-> "IDLE"]
<1>1. 1 \in Children(p) /\ idle \in [Children(p) -> Statuses] /\ "IDLE" \in Statuses
  BY DEF Children, Statuses
<1>2. h = [r EXCEPT !.child = idle, !.status = "IDLE", !.count = 0, !.last = 1]
  BY DEF RecoveryHalt, HaltNode, HaltChildren
<1>3. \A c \in Children(p) : idle[c] = "IDLE"
  OBVIOUS
<1> HIDE DEF idle, h
<1>4. h = [at |-> r.at, status |-> "IDLE", child |-> idle, i |-> r.i, last |-> 1, count |-> 0,
           skipped |-> r.skipped, first |-> r.first, heard |-> r.heard,
           recoveries |-> r.recoveries, lost |-> r.lost]
  BY <1>2, ZenonT(40) DEF ControlState
<1>5. h \in ControlState(p)
  BY <1>1, <1>4 DEF ControlState
<1> QED BY <1>3, <1>4, <1>5 DEF h

\* RecoveryNode hears from a child.
LEMMA RecoveryStep ==
  ASSUME ControlInv, part = "RecoveryNode", st.at = "child", NEW a \in Answers,
         Become(RecoveryNode(a))
  PROVE  ControlInv'
<1> USE RetriesAssumption
<1>c. part \in Controls /\ part \notin Decorators /\ Children(part) = {1, 2}
  BY DEF Controls, Decorators, Children
<1>p. part' = part /\ st' = RecoveryNode(a)
  BY DEF Become
<1> DEFINE t == Ticked(a)
<1>s. st \in ControlState(part) /\ t \in ControlState(part) /\ RecoveryInv
  BY TickedIs, Zenon DEF ControlInv
<1>t. /\ t = [st EXCEPT !.child = t.child, !.heard = t.heard]
      /\ t.child = [st.child EXCEPT ![st.i] = IF a = "SKIPPED" THEN @ ELSE a]
      /\ t.heard = [st.heard EXCEPT ![st.i] = @ \cup {a}]
  BY TickedIs, Zenon DEF ControlInv
<1>g. \A c \in {1, 2} : t.heard[c] = IF c = st.i THEN st.heard[c] \cup {a} ELSE st.heard[c]
  BY <1>c, <1>s, <1>t, ZenonT(40) DEF ControlState
<1>h. \A c \in {1, 2} : c # st.i => t.child[c] = st.child[c]
  BY <1>c, <1>s, <1>t DEF ControlState
<1>i. /\ t.i = st.i /\ t.last = st.last /\ t.count = st.count /\ t.recoveries = st.recoveries
      /\ t.at = st.at /\ t.lost = st.lost /\ t.status = st.status
      /\ st.i \in {1, 2} /\ st.last \in {1, 2} /\ st.count \in Nat /\ st.recoveries \in Nat
  BY <1>s, <1>t, <1>c, Zenon DEF ControlState, ControlInv
<1>r. /\ st.status = "RUNNING" /\ st.count <= Retries /\ st.recoveries <= st.count
      /\ (st.lost \/ st.recoveries = st.count)
      /\ st.i = 2 => st.count < Retries /\ st.child[1] # "RUNNING"
  BY <1>s DEF RecoveryInv, Active, Turn
<1> HIDE DEF t
<1>4. CASE a = "RUNNING"
  <2> DEFINE r == [t EXCEPT !.last = t.i]
  <2>1. r \in ControlState(part)
    BY <1>c, <1>s, <1>i DEF ControlState
  <2>2. r.last = st.i /\ r.heard = t.heard /\ r.count = t.count /\ r.child = t.child
        /\ r.recoveries = t.recoveries /\ r.lost = t.lost
    BY <1>s, <1>i DEF ControlState
  <2>3. st' = Return(r, "RUNNING")
    BY <1>p, <1>4, <1>i DEF RecoveryNode, t
  <2> HIDE DEF r
  <2>4. st' \in ControlState(part) /\ st'.i = 1 /\ st'.at = "parent" /\ st'.status = "RUNNING"
        /\ st'.last = st.i /\ st'.heard = t.heard /\ st'.count = st.count /\ st'.lost = st.lost
        /\ st'.recoveries = st.recoveries /\ st'.child = t.child
    BY <1>c, <1>i, <2>1, <2>2, <2>3, ReturnIs, SMTT(30) DEF Answers
  <2>5. RecoveryInv'
    BY <1>c, <1>p, <1>h, <1>i, <1>r, <2>4, SMTT(30) DEF RecoveryInv, Active, Turn, Failed
  <2> QED BY <1>c, <1>p, <2>4, <2>5 DEF ControlInv, NoChildLeftRunning
<1>5. CASE st.i = 1 /\ a = "FAILURE" /\ st.count < Retries
  <2> DEFINE h == HaltChild(t, 1)
  <2>0. 1 \in Children(part) /\ t \in ControlState(part)
    BY <1>c, <1>s
  <2>1. h \in ControlState(part) /\ h = [t EXCEPT !.child = h.child]
        /\ h.child = [t.child EXCEPT ![1] = "IDLE"]
    BY ONLY <2>0, HaltChildIs
  <2>2. st' = [h EXCEPT !.i = 2]
    BY <1>p, <1>5, <1>i DEF RecoveryNode, t
  <2> HIDE DEF h
  <2>3. st' \in ControlState(part) /\ st'.i = 2 /\ st'.at = "child" /\ st'.status = "RUNNING"
        /\ st'.last = st.last /\ st'.count = st.count /\ st'.lost = st.lost
        /\ st'.recoveries = st.recoveries /\ st'.child = h.child
    BY <1>i, <1>r, <1>s, <2>1, <2>2, SMTT(30) DEF ControlState
  <2>4. h.child[1] = "IDLE"
    BY <1>c, <1>s, <2>1 DEF ControlState
  <2>5. RecoveryInv'
    BY <1>c, <1>p, <1>i, <1>r, <1>5, <2>3, <2>4 DEF RecoveryInv, Active, Turn, Failed
  <2> QED BY <1>c, <1>p, <2>3, <2>5 DEF ControlInv, NoChildLeftRunning
<1>6. CASE st.i = 2 /\ a = "SUCCESS"
  <2> DEFINE h == HaltChild(t, 2)
  <2>0. 2 \in Children(part) /\ t \in ControlState(part)
    BY <1>c, <1>s
  <2>1. h \in ControlState(part) /\ h = [t EXCEPT !.child = h.child]
        /\ h.child = [t.child EXCEPT ![2] = "IDLE"]
    BY ONLY <2>0, HaltChildIs
  <2>2. st' = [h EXCEPT !.i = 1, !.count = h.count + 1, !.recoveries = h.recoveries + 1]
    BY <1>p, <1>6, <1>i DEF RecoveryNode, t
  <2> HIDE DEF h
  <2>3. /\ h.count = st.count /\ h.recoveries = st.recoveries /\ h.at = "child"
        /\ h.status = "RUNNING" /\ h.lost = st.lost
    BY <1>i, <1>r, <1>s, <2>1 DEF ControlState
  <2>4. st' = [h EXCEPT !.i = 1, !.count = st.count + 1, !.recoveries = st.recoveries + 1]
        /\ st.count + 1 \in Nat /\ st.recoveries + 1 \in Nat
    BY <1>i, <2>2, <2>3
  <2>5. st' \in ControlState(part) /\ st'.i = 1 /\ st'.at = "child" /\ st'.status = "RUNNING"
        /\ st'.count = st.count + 1 /\ st'.lost = st.lost /\ st'.recoveries = st.recoveries + 1
    BY <2>1, <2>3, <2>4, Zenon DEF ControlState
  <2>6. RecoveryInv'
    BY <1>c, <1>p, <1>i, <1>r, <1>6, <2>5 DEF RecoveryInv, Active, Turn, Failed
  <2> QED BY <1>c, <1>p, <2>5, <2>6 DEF ControlInv, NoChildLeftRunning
<1>7. CASE st.i = 2 /\ a = "SKIPPED"
  <2> DEFINE r == [HaltChild(t, 2) EXCEPT !.last = 1]
  <2>1. st' = Return(r, "FAILURE")
    BY <1>p, <1>7, <1>i DEF RecoveryNode, t
  <2>2. /\ r \in ControlState(part) /\ r.heard = t.heard /\ r.last = 1 /\ r.count = st.count
        /\ r.recoveries = st.recoveries /\ r.lost = st.lost
        /\ r.child = [t.child EXCEPT ![2] = "IDLE"]
    BY <1>c, <1>s, <1>i, HaltChildIs, SMTT(30) DEF ControlState
  <2> HIDE DEF r
  <2>3. \A c \in {1, 2} : r.child[c] # "RUNNING"
    BY <1>c, <1>h, <1>r, <1>s, <1>7, <2>2 DEF ControlState
  <2>4. st' \in ControlState(part) /\ st'.i = 1 /\ st'.at = "parent" /\ st'.status = "FAILURE"
        /\ st'.last = 1 /\ st'.heard = t.heard /\ st'.count = st.count /\ st'.lost = st.lost
        /\ st'.recoveries = st.recoveries /\ st'.child = r.child
    BY <1>c, <2>1, <2>2, ReturnIs DEF Answers
  <2>5. RecoveryInv'
    BY <1>c, <1>p, <1>g, <1>i, <1>r, <1>7, <2>4 DEF RecoveryInv, Active, Turn, Failed
  <2> QED BY <1>c, <1>p, <2>3, <2>4, <2>5 DEF ControlInv, NoChildLeftRunning
<1>8. CASE a # "RUNNING" /\ ~(st.i = 1 /\ a = "FAILURE" /\ st.count < Retries)
           /\ ~(st.i = 2 /\ a = "SUCCESS") /\ ~(st.i = 2 /\ a = "SKIPPED")
  <2> DEFINE r == RecoveryHalt(t)
  <2>1. st' = Return(r, a)
    BY <1>p, <1>8, <1>i DEF RecoveryNode, t
  <2>2. /\ r \in ControlState(part) /\ r.status = "IDLE" /\ r.count = 0 /\ r.last = 1
        /\ r.heard = t.heard /\ r.recoveries = t.recoveries /\ r.lost = t.lost
        /\ \A c \in Children(part) : r.child[c] = "IDLE"
    BY ONLY <1>s, HaltNodeIs
  <2> HIDE DEF r
  <2>3. /\ st' \in ControlState(part) /\ st'.i = 1 /\ st'.at = "parent" /\ st'.last = 1
        /\ st'.heard = t.heard /\ st'.count = 0 /\ st'.lost = st.lost
        /\ st'.recoveries = st.recoveries /\ st'.child = r.child
    BY <1>c, <1>i, <2>1, <2>2, ReturnIs
  <2>4. st'.status = IF a = "SKIPPED" THEN "IDLE" ELSE a
    BY <1>c, <1>i, <2>1, <2>2, ReturnIs
  <2>5. st.i = 1 /\ a = "FAILURE" => st.lost \/ st.recoveries = Retries
    BY <1>8, <1>i, <1>r
  <2>6. RecoveryInv'
    BY <1>c, <1>p, <1>g, <1>i, <1>r, <1>8, <2>3, <2>4, <2>5
       DEF RecoveryInv, Active, Turn, Failed, Answers
  <2> QED BY <1>c, <1>p, <2>2, <2>3, <2>6 DEF ControlInv, NoChildLeftRunning
<1> QED BY <1>4, <1>5, <1>6, <1>7, <1>8

\* RoundRobin hears from a child.
LEMMA RoundRobinStep ==
  ASSUME ControlInv, part = "RoundRobin", st.at = "child", NEW a \in Answers,
         Become(RoundRobin(a))
  PROVE  ControlInv'
<1>c. part \in Controls /\ part \notin Decorators /\ Children(part) = {1, 2, 3}
  BY DEF Controls, Decorators, Children
<1>p. part' = part /\ st' = RoundRobin(a)
  BY SMTT(30) DEF Become
<1> DEFINE t == Ticked(a)
<1>s. st \in ControlState(part) /\ t \in ControlState(part) /\ RoundRobinInv
  BY TickedIs, ZenonT(40) DEF ControlInv
<1>t. /\ t = [st EXCEPT !.child = t.child, !.heard = t.heard]
      /\ t.heard = [st.heard EXCEPT ![st.i] = @ \cup {a}]
  BY TickedIs, Zenon DEF ControlInv
<1>g. \A c \in {1, 2, 3} : t.heard[c] = IF c = st.i THEN st.heard[c] \cup {a} ELSE st.heard[c]
  BY <1>c, <1>s, <1>t, ZenonT(20) DEF ControlState
<1>i. t.i = st.i /\ t.count = st.count /\ t.skipped = st.skipped /\ t.at = st.at
      /\ t.status = st.status
      /\ st.i \in {1, 2, 3} /\ st.count \in Nat /\ st.skipped \in 0 .. 3
  BY <1>s, <1>t, <1>c, Zenon DEF ControlState, ControlInv
<1>r. /\ st.status = "RUNNING" /\ st.count + st.skipped <= 2
      /\ st.count + st.skipped >= 1 => Failed(Before(st.i))
      /\ st.count + st.skipped >= 2 => Failed(Before(Before(st.i)))
  BY <1>s DEF RoundRobinInv, Turn
<1> DEFINE next == IF t.i = 3 THEN 1 ELSE t.i + 1
           failed == IF a = "FAILURE" THEN t.count + 1 ELSE t.count
           skipped == IF a = "SKIPPED" THEN t.skipped + 1 ELSE t.skipped
<1>n. next \in {1, 2, 3} /\ Before(next) = st.i
  BY <1>i DEF Before
<1>f. failed \in Nat /\ skipped \in 0 .. 3
      /\ (a \in {"FAILURE", "SKIPPED"} => failed + skipped = st.count + st.skipped + 1)
  BY <1>i, <1>r
<1>b. st.i # Before(st.i) /\ Before(st.i) \in {1, 2, 3} /\ Before(Before(st.i)) \in {1, 2, 3}
      /\ \A c \in {1, 2, 3} : c = st.i \/ c = Before(st.i) \/ c = Before(Before(st.i))
  BY <1>i DEF Before
<1> HIDE DEF t, next, failed, skipped
<1>4. CASE a = "RUNNING"
  <2> DEFINE r == [t EXCEPT !.last = t.i]
  <2>1. r \in ControlState(part)
    BY <1>c, <1>s, <1>i DEF ControlState
  <2>2. r.last = st.i /\ r.heard = t.heard /\ r.count = t.count
    BY <1>s, <1>i DEF ControlState
  <2>3. st' = Return(r, "RUNNING")
    BY <1>p, <1>4, <1>i DEF RoundRobin, t
  <2> HIDE DEF r
  <2>4. st' \in ControlState(part) /\ st'.i = 1 /\ st'.at = "parent" /\ st'.status = "RUNNING"
        /\ st'.last = st.i /\ st'.heard = t.heard /\ st'.count = st.count /\ st'.skipped = 0
    BY <1>c, <1>i, <2>1, <2>2, <2>3, ReturnIs DEF Answers
  <2>5. \A c \in {1, 2, 3} : Failed(c) => Failed(c)'
    BY <1>g, <2>4 DEF Failed
  <2>6. Turn' = st.i
    BY <2>4 DEF Turn
  <2>7. RoundRobinInv'
    BY <1>c, <1>p, <1>i, <1>r, <1>b, <2>4, <2>5, <2>6 DEF RoundRobinInv, Active
  <2> QED BY <1>c, <1>p, <2>4, <2>7 DEF ControlInv, NoChildLeftRunning
<1>5. CASE a = "SUCCESS"
  <2> DEFINE r == [HaltChildren(t) EXCEPT !.count = 0, !.last = next]
  <2>1. st' = Return(r, "SUCCESS")
    BY <1>p, <1>5, <1>i DEF RoundRobin, t, next
  <2> DEFINE h == HaltChildren(t)
  <2>5. /\ h \in ControlState(part)
        /\ h = [t EXCEPT !.child = h.child]
        /\ \A c \in Children(part) : h.child[c] = "IDLE"
    BY ONLY <1>s, HaltIs
  <2> HIDE DEF h
  <2>6. r \in ControlState(part) /\ r.count = 0 /\ r.child = h.child
    BY <1>c, <1>n, <2>5, Zenon DEF ControlState, h
  <2>2. r \in ControlState(part) /\ r.count = 0 /\ \A c \in {1, 2, 3} : r.child[c] = "IDLE"
    BY <1>c, <2>5, <2>6
  <2> HIDE DEF r
  <2>3. st' \in ControlState(part) /\ st'.i = 1 /\ st'.at = "parent" /\ st'.status = "SUCCESS"
        /\ st'.count = 0 /\ st'.skipped = 0 /\ st'.child = r.child
    BY <1>c, <2>1, <2>2, ReturnIs DEF Answers
  <2>4. RoundRobinInv'
    BY <1>c, <1>p, <2>3 DEF RoundRobinInv, Active
  <2> QED BY <1>c, <1>p, <2>2, <2>3, <2>4 DEF ControlInv, NoChildLeftRunning
<1>6. CASE a \in {"FAILURE", "SKIPPED"} /\ failed + skipped < 3
  <2>1. st' = [t EXCEPT !.i = next, !.count = failed, !.skipped = skipped]
    BY <1>p, <1>6, <1>i DEF RoundRobin, t, next, failed, skipped
  <2>7. st' = [at |-> t.at, status |-> t.status, child |-> t.child, i |-> next, last |-> t.last,
               count |-> failed, skipped |-> skipped, first |-> t.first, heard |-> t.heard,
               recoveries |-> t.recoveries, lost |-> t.lost]
    BY <1>s, <2>1, Zenon DEF ControlState
  <2>8. next \in Nat
    BY <1>n
  <2>9. st' \in ControlState(part)
    BY <1>s, <1>f, <2>7, <2>8 DEF ControlState
  <2>2. st' \in ControlState(part) /\ st'.i = next /\ st'.count = failed /\ st'.skipped = skipped
        /\ st'.at = "child" /\ st'.status = "RUNNING" /\ st'.heard = t.heard
    BY <1>i, <1>r, <2>7, <2>9
  <2>3. \A c \in {1, 2, 3} : Failed(c) => Failed(c)'
    BY <1>g, <2>2 DEF Failed
  <2>4. \A c \in {1, 2, 3} : c = st.i => Failed(c)'
    BY <1>g, <1>i, <1>6, <2>2 DEF Failed
  <2>5. Turn' = next
    BY <2>2 DEF Turn
  <2>6. RoundRobinInv'
    BY <1>c, <1>p, <1>i, <1>r, <1>b, <1>n, <1>f, <1>6, <2>2, <2>3, <2>4, <2>5
       DEF RoundRobinInv, Active
  <2> QED BY <1>c, <1>p, <1>n, <2>2, <2>6 DEF ControlInv, NoChildLeftRunning
<1>7. CASE a \in {"FAILURE", "SKIPPED"} /\ ~(failed + skipped < 3)
  <2> DEFINE r == RecoveryHalt(t)
             b == IF skipped = 3 THEN "SKIPPED" ELSE "FAILURE"
  <2>1. st' = Return(r, b)
    BY <1>p, <1>7, <1>i DEF RoundRobin, RecoveryHalt, t, failed, skipped
  <2>2. /\ r \in ControlState(part) /\ r.status = "IDLE" /\ r.count = 0 /\ r.heard = t.heard
        /\ \A c \in Children(part) : r.child[c] = "IDLE"
    BY ONLY <1>s, HaltNodeIs
  <2>3. b \in {"SKIPPED", "FAILURE"} /\ b \in Answers
    BY DEF Answers
  <2> HIDE DEF r, b
  <2>4. /\ st' \in ControlState(part) /\ st'.i = 1 /\ st'.at = "parent"
        /\ st'.heard = t.heard /\ st'.count = 0 /\ st'.skipped = 0 /\ st'.child = r.child
        /\ st'.status \in {"IDLE", "FAILURE"}
    BY <1>c, <2>1, <2>2, <2>3, ReturnIs
  <2>5. st.count + st.skipped >= 2
    BY <1>7, <1>f, <1>i
  <2>6. \A c \in {1, 2, 3} : Failed(c)'
    BY <1>7, <1>g, <1>i, <1>r, <1>b, <2>4, <2>5 DEF Failed
  <2>7. RoundRobinInv'
    BY <1>c, <1>p, <2>4, <2>6 DEF RoundRobinInv, Active
  <2> QED BY <1>c, <1>p, <2>2, <2>4, <2>7 DEF ControlInv, NoChildLeftRunning
<1> QED BY <1>4, <1>5, <1>6, <1>7 DEF Answers

\* The parent ticks a control node.
LEMMA ControlTickStep ==
  ASSUME ControlInv, ControlTick
  PROVE  ControlInv'
<1> USE RetriesAssumption
<1>c. part \in Controls /\ part \notin Decorators /\ st.at = "parent" /\ part' = part
  BY DEF ControlTick, In, Become, Controls, Decorators
<1>s. st \in ControlState(part)
  BY DEF ControlInv
<1> DEFINE fresh == st.status # "RUNNING"
           i == IF part = "PipelineSequence" THEN 1 ELSE st.last
           heard == IF fresh THEN [c \in Children(part) |-> {}] ELSE st.heard
           n == IF fresh THEN 0 ELSE st.recoveries
           began == part = "RecoveryNode" /\ st.count > 0
           lost == IF fresh THEN began ELSE st.lost
           status == IF part = "PipelineSequence" THEN st.status ELSE "RUNNING"
<1>b. began \in BOOLEAN
  OBVIOUS
<1>1. st' = [st EXCEPT !.at = "child", !.i = i, !.heard = heard, !.recoveries = n, !.lost = lost,
                       !.status = status]
  BY DEF ControlTick, Become
<1>2. i \in Children(part) /\ i \in Nat
  BY <1>s DEF Children, ControlState
<1>3. heard \in [Children(part) -> SUBSET Answers] /\ n \in Nat /\ status \in Statuses
  BY <1>s DEF ControlState, Statuses
<1>4. lost \in BOOLEAN
  <2> HIDE DEF began
  <2> QED BY <1>s, <1>b DEF ControlState
<1> HIDE DEF i, heard, n, began, lost, status
<1>5. st' = [at |-> "child", status |-> status, child |-> st.child, i |-> i, last |-> st.last,
             count |-> st.count, skipped |-> st.skipped, first |-> st.first, heard |-> heard,
             recoveries |-> n, lost |-> lost]
  BY <1>s, <1>1, Zenon DEF ControlState
<1>6. st' \in ControlState(part)
  BY <1>s, <1>2, <1>3, <1>4, <1>5 DEF ControlState
<1>7. st'.at = "child" /\ st'.status = status /\ st'.child = st.child /\ st'.i = i
      /\ st'.last = st.last /\ st'.count = st.count /\ st'.skipped = st.skipped
      /\ st'.heard = heard /\ st'.recoveries = n /\ st'.lost = lost
  BY <1>5
<1>8. part = "PipelineSequence" => PipelineInv'
  <2> SUFFICES ASSUME part = "PipelineSequence" PROVE PipelineInv'
    OBVIOUS
  <2>1. PipelineInv /\ Children(part) = {1, 2, 3} /\ i = 1 /\ status = st.status
    BY DEF ControlInv, Children, Decorators, i, status
  <2>2. \A c \in {1, 2, 3} : ~fresh => heard[c] = st.heard[c]
    BY DEF heard
  <2>3. \A c \in {1, 2, 3} : fresh => heard[c] = {}
    BY <2>1 DEF heard
  <2> QED BY <1>c, <1>7, <2>1, <2>2, <2>3 DEF PipelineInv, Active, Gone
<1>9. part = "RecoveryNode" => RecoveryInv'
  <2> SUFFICES ASSUME part = "RecoveryNode" PROVE RecoveryInv'
    OBVIOUS
  <2>1. RecoveryInv /\ i = st.last /\ status = "RUNNING" /\ st.count \in Nat /\ st.recoveries \in Nat
    BY <1>s DEF ControlInv, i, status, ControlState
  <2>2. fresh => n = 0 /\ (lost \/ st.count = 0) /\ st.last = 1
    BY <1>c, <2>1 DEF n, lost, began, RecoveryInv, Active
  <2>3. ~fresh => n = st.recoveries /\ lost = st.lost
    BY DEF n, lost
  <2> QED BY <1>c, <1>7, <2>1, <2>2, <2>3 DEF RecoveryInv, Active, Turn
<1>10. part = "RoundRobin" => RoundRobinInv'
  <2> SUFFICES ASSUME part = "RoundRobin" PROVE RoundRobinInv'
    OBVIOUS
  <2>1. RoundRobinInv /\ i = st.last /\ status = "RUNNING" /\ Children(part) = {1, 2, 3}
        /\ st.count \in Nat /\ st.skipped = 0 /\ st.last \in {1, 2, 3}
    BY <1>s, <1>c DEF ControlInv, i, status, ControlState, Children, Decorators, RoundRobinInv
  <2>2. fresh => st.count = 0
    BY <1>c, <2>1 DEF RoundRobinInv, Active
  <2>3. ~fresh => heard = st.heard
    BY DEF heard
  <2>4. Turn' = st.last /\ Turn = st.last
    BY <1>c, <1>7, <2>1 DEF Turn
  <2> QED BY <1>c, <1>7, <2>1, <2>2, <2>3, <2>4 DEF RoundRobinInv, Active, Failed
<1> QED BY <1>c, <1>2, <1>6, <1>7, <1>8, <1>9, <1>10 DEF ControlInv, NoChildLeftRunning

\* halt() of a control node.
LEMMA ControlHaltStep ==
  ASSUME ControlInv, ControlHalt
  PROVE  ControlInv'
<1> USE RetriesAssumption
<1>c. part \in Controls /\ part \notin Decorators /\ st.at = "parent" /\ part' = part
  BY DEF ControlHalt, In, Become, Controls, Decorators
<1>s. st \in ControlState(part) /\ st' = RecoveryHalt(st)
  BY DEF ControlInv, ControlHalt, Become, RecoveryHalt
<1>1. /\ st' \in ControlState(part) /\ st'.status = "IDLE" /\ st'.count = 0 /\ st'.last = 1
      /\ st'.at = st.at /\ st'.i = st.i /\ st'.skipped = st.skipped /\ st'.heard = st.heard
      /\ st'.recoveries = st.recoveries /\ st'.lost = st.lost
      /\ \A c \in Children(part) : st'.child[c] = "IDLE"
  BY ONLY <1>s, HaltNodeIs
<1>2. part = "PipelineSequence" => PipelineInv'
  BY <1>c, <1>1 DEF ControlInv, PipelineInv, Active, Gone
<1>3. part = "RecoveryNode" => RecoveryInv'
  BY <1>c, <1>1 DEF ControlInv, RecoveryInv, Active
<1>4. part = "RoundRobin" => RoundRobinInv'
  BY <1>c, <1>1 DEF ControlInv, RoundRobinInv, Active
<1> QED BY <1>c, <1>1, <1>2, <1>3, <1>4 DEF ControlInv, NoChildLeftRunning

\* A child of a control node answers.
LEMMA ControlChildStep ==
  ASSUME ControlInv, ControlChild
  PROVE  ControlInv'
<1>1. part \in Controls /\ st.at = "child"
  BY DEF ControlChild, In
<1>2. PICK a \in Answers :
        Become(CASE part = "PipelineSequence" -> PipelineSequence(a)
                 [] part = "RecoveryNode"     -> RecoveryNode(a)
                 [] part = "RoundRobin"       -> RoundRobin(a))
  BY Zenon DEF ControlChild
<1>3. CASE part = "PipelineSequence"
  BY <1>1, <1>2, <1>3, PipelineStep
<1>4. CASE part = "RecoveryNode"
  BY <1>1, <1>2, <1>4, RecoveryStep
<1>5. CASE part = "RoundRobin"
  BY <1>1, <1>2, <1>5, RoundRobinStep
<1> QED BY <1>1, <1>3, <1>4, <1>5 DEF Controls

\* A parent resets a node that has finished.
LEMMA NodeResetStep ==
  ASSUME ControlInv, NodeReset
  PROVE  ControlInv'
<1> USE RetriesAssumption
<1>c. part \in Controls \cup Decorators /\ st.at = "parent" /\ part' = part
      /\ st.status \in {"SUCCESS", "FAILURE"} /\ st' = [st EXCEPT !.status = "IDLE"]
  BY DEF NodeReset, In, Become
<1>s. st \in ControlState(part) /\ st.i \in Children(part)
  BY DEF ControlInv
<1>1. /\ st' \in ControlState(part) /\ st'.status = "IDLE" /\ st'.count = st.count
      /\ st'.last = st.last /\ st'.at = st.at /\ st'.i = st.i /\ st'.skipped = st.skipped
      /\ st'.heard = st.heard /\ st'.recoveries = st.recoveries /\ st'.lost = st.lost
      /\ st'.child = st.child /\ st'.first = st.first
  BY <1>c, <1>s DEF ControlState, Statuses
<1>2. part = "PipelineSequence" => PipelineInv'
  BY <1>c, <1>1 DEF ControlInv, PipelineInv, Active, Gone
<1>3. part = "RecoveryNode" => RecoveryInv'
  BY <1>c, <1>1 DEF ControlInv, RecoveryInv, Active
<1>4. part = "RoundRobin" => RoundRobinInv'
  BY <1>c, <1>1 DEF ControlInv, RoundRobinInv, Active, Turn, Failed
<1>5. part \in Decorators => DecoratorInv'
  <2> SUFFICES ASSUME part \in Decorators PROVE DecoratorInv'
    OBVIOUS
  <2>1. Children(part) = {1}
    BY DEF Children
  <2> QED BY <1>c, <1>1, <2>1 DEF ControlInv, DecoratorInv, NoChildLeftRunning
<1> QED BY <1>c, <1>s, <1>1, <1>2, <1>3, <1>4, <1>5 DEF ControlInv, NoChildLeftRunning

-----------------------------------------------------------------------------
(* Decorators *)

\* tick() of a decorator returns b: executeTick resets a child that has finished.
LEMMA DecoratorReturnIs ==
  ASSUME NEW p, p = part, p \in Decorators, NEW r \in ControlState(p), NEW b \in Answers
  PROVE  /\ Return(r, b) \in ControlState(p)
         /\ Return(r, b).at = "parent" /\ Return(r, b).i = 1
         /\ Return(r, b).status = IF b = "SKIPPED" THEN r.status ELSE b
         /\ Return(r, b).child[1] = "RUNNING" <=> r.child[1] = "RUNNING"
         /\ Return(r, b).first = r.first /\ Return(r, b).lost = r.lost
<1>1. Children(p) = {1}
  BY DEF Children
<1> DEFINE v == IF b = "SKIPPED" THEN r.status ELSE b
           k == IF r.child[1] \in {"SUCCESS", "FAILURE"} THEN [c \in {1} |-> "IDLE"] ELSE r.child
<1>2. v \in Statuses
  BY DEF ControlState, Answers, Statuses
<1>3. k \in [{1} -> Statuses] /\ (k[1] = "RUNNING" <=> r.child[1] = "RUNNING")
  BY <1>1 DEF ControlState, Statuses
<1>4. Return(r, b) = [r EXCEPT !.at = "parent", !.i = 1, !.skipped = 0, !.status = v, !.child = k]
  BY DEF Return
<1> HIDE DEF v, k
<1>5. Return(r, b) =
        [at |-> "parent", status |-> v, child |-> k, i |-> 1, last |-> r.last,
         count |-> r.count, skipped |-> 0, first |-> r.first, heard |-> r.heard,
         recoveries |-> r.recoveries, lost |-> r.lost]
  BY <1>4, Zenon DEF ControlState
<1>6. Return(r, b) \in ControlState(p)
  BY <1>1, <1>2, <1>3, <1>5 DEF ControlState
<1> QED BY <1>3, <1>5, <1>6 DEF v

\* What the decorators have in common: the invariant of a decorator is that of its
\* type, DecoratorInv and NoChildLeftRunning.
LEMMA DecoratorIs ==
  ASSUME part \in Decorators, part' = part, st' \in ControlState(part), st'.i = 1,
         DecoratorInv', NoChildLeftRunning'
  PROVE  ControlInv'
<1>1. part \notin Controls /\ 1 \in Children(part)
  BY DEF Decorators, Controls, Children
<1> QED BY <1>1 DEF ControlInv, Controls

\* The tick goes to the child.
LEMMA TickChildIs ==
  ASSUME ControlInv, part \in Decorators
  PROVE  /\ TickChild \in ControlState(part) /\ st.i = 1
         /\ TickChild.at = "child" /\ TickChild.status = "RUNNING" /\ TickChild.i = st.i
         /\ TickChild.child = st.child /\ TickChild.first = st.first /\ TickChild.lost = st.lost
BY Zenon DEF TickChild, ControlInv, ControlState, Statuses, Children

\* The tick of a decorator that does not look at first_time_ goes to the child or waits.
LEMMA WaitStep ==
  ASSUME ControlInv, part \in Decorators, part \notin {"SingleTrigger", "GoalUpdater"}, part' = part,
         st' = TickChild \/ st' = Wait
  PROVE  ControlInv'
<1>s. st \in ControlState(part) /\ "RUNNING" \in Answers
  BY DEF ControlInv, Answers
<1>1. CASE st' = TickChild
  <2>1. st' \in ControlState(part) /\ st'.i = 1 /\ st'.at = "child" /\ st'.status = "RUNNING"
    BY <1>1, TickChildIs
  <2>2. DecoratorInv' /\ NoChildLeftRunning'
    BY <2>1 DEF DecoratorInv, NoChildLeftRunning
  <2> QED BY <2>1, <2>2, DecoratorIs
<1>2. CASE st' = Wait
  <2>1. st' \in ControlState(part) /\ st'.i = 1 /\ st'.at = "parent" /\ st'.status = "RUNNING"
    BY <1>2, <1>s, DecoratorReturnIs DEF Wait
  <2>2. DecoratorInv' /\ NoChildLeftRunning'
    BY <2>1 DEF DecoratorInv, NoChildLeftRunning
  <2> QED BY <2>1, <2>2, DecoratorIs
<1> QED BY <1>1, <1>2

\* The parent ticks a decorator.
LEMMA DecoratorTickStep ==
  ASSUME ControlInv,
         RateControllerTick \/ SpeedControllerTick \/ GoalUpdatedControllerTick
         \/ DistanceControllerTick \/ SingleTriggerTick \/ GoalUpdaterTick
         \/ PathLongerOnApproachTick
  PROVE  ControlInv'
<1>s. st \in ControlState(part) /\ "FAILURE" \in Answers /\ "SUCCESS" \in Answers
  BY DEF ControlInv, Answers
<1>1. CASE RateControllerTick
  <2>1. part = "RateController" /\ part' = part /\ (st' = TickChild \/ st' = Wait)
    BY <1>1 DEF RateControllerTick, In, Become
  <2> QED BY <2>1, WaitStep DEF Decorators
<1>2. CASE SpeedControllerTick
  <2>1. part = "SpeedController" /\ part' = part /\ (st' = TickChild \/ st' = Wait)
    BY <1>2 DEF SpeedControllerTick, In, Become
  <2> QED BY <2>1, WaitStep DEF Decorators
<1>3. CASE GoalUpdatedControllerTick
  <2>1. part = "GoalUpdatedController" /\ part' = part /\ (st' = TickChild \/ st' = Wait)
    BY <1>3, SMTT(30) DEF GoalUpdatedControllerTick, In, Become
  <2> QED BY <2>1, WaitStep DEF Decorators
<1>4. CASE DistanceControllerTick
  <2>0. part = "DistanceController" /\ part' = part /\ part \in Decorators /\ part \notin {"SingleTrigger", "GoalUpdater"}
    BY <1>4, Zenon DEF DistanceControllerTick, In, Become, Decorators
  <2>1. CASE st' = Wait
    BY <2>0, <2>1, WaitStep
  <2>2. CASE st' = [TickChild EXCEPT !.first = FALSE]
    <3>1. st' \in ControlState(part) /\ st'.i = 1 /\ st'.at = "child" /\ st'.status = "RUNNING"
      BY <2>0, <2>2, TickChildIs, Zenon DEF ControlState
    <3>2. DecoratorInv' /\ NoChildLeftRunning'
      BY <2>0, <3>1 DEF DecoratorInv, NoChildLeftRunning
    <3> QED BY <2>0, <3>1, <3>2, DecoratorIs
  <2>3. CASE \E first \in BOOLEAN :
               st' = [Return(st, "FAILURE") EXCEPT !.lost = ChildRunning, !.first = first]
    <3> DEFINE r == Return(st, "FAILURE")
               l == ChildRunning
    <3>1. PICK first \in BOOLEAN : st' = [r EXCEPT !.lost = l, !.first = first]
      BY <2>3, Zenon
    <3>2. /\ r \in ControlState(part) /\ r.at = "parent" /\ r.i = 1 /\ r.status = "FAILURE"
          /\ r.child[1] = "RUNNING" <=> st.child[1] = "RUNNING"
      BY <1>s, <2>0, DecoratorReturnIs
    <3>3. l \in BOOLEAN /\ (l <=> st.child[1] = "RUNNING")
      BY DEF ChildRunning
    <3> HIDE DEF r, l
    <3>4. st' \in ControlState(part) /\ st'.i = 1 /\ st'.at = "parent" /\ st'.status = "FAILURE"
          /\ st'.child = r.child /\ st'.lost = l
      BY <3>1, <3>2, <3>3, Zenon DEF ControlState
    <3>5. Children(part) = {1}
      BY <2>0 DEF Children
    <3>6. DecoratorInv' /\ NoChildLeftRunning'
      BY <2>0, <3>2, <3>3, <3>4, <3>5 DEF DecoratorInv, NoChildLeftRunning
    <3> QED BY <2>0, <3>4, <3>6, DecoratorIs
  <2>4. (IF Idle THEN {st.first, TRUE} ELSE {st.first}) \subseteq BOOLEAN
    BY <1>s, Zenon DEF ControlState
  <2> QED BY <1>4, <2>1, <2>2, <2>3, <2>4, ZenonT(40) DEF DistanceControllerTick, Become
<1>5. CASE SingleTriggerTick
  <2>0. part = "SingleTrigger" /\ part' = part /\ part \in Decorators /\ Children(part) = {1}
        /\ st.at = "parent"
    BY <1>5 DEF SingleTriggerTick, In, Become, Decorators, Children
  <2>1. CASE Idle \/ st.first
    <3>1. st' = [TickChild EXCEPT !.first = TRUE]
      BY <1>5, <2>1 DEF SingleTriggerTick, Become
    <3>2. st' \in ControlState(part) /\ st'.i = 1 /\ st'.at = "child" /\ st'.status = "RUNNING"
          /\ st'.first
      BY <2>0, <3>1, TickChildIs, Zenon DEF ControlState
    <3>3. DecoratorInv' /\ NoChildLeftRunning'
      BY <2>0, <3>2 DEF DecoratorInv, NoChildLeftRunning
    <3> QED BY <2>0, <3>2, <3>3, DecoratorIs
  <2>2. CASE ~(Idle \/ st.first)
    <3>1. st' = Return(st, "FAILURE")
      BY <1>5, <2>2 DEF SingleTriggerTick, Become
    <3>2. st' \in ControlState(part) /\ st'.i = 1 /\ st'.at = "parent"
          /\ (st'.child[1] = "RUNNING" <=> st.child[1] = "RUNNING")
      BY <1>s, <2>0, <3>1, DecoratorReturnIs
    <3>3. st.child[1] # "RUNNING"
      BY <2>0, <2>2 DEF ControlInv, DecoratorInv
    <3>4. DecoratorInv' /\ NoChildLeftRunning'
      BY <2>0, <3>2, <3>3 DEF DecoratorInv, NoChildLeftRunning
    <3> QED BY <2>0, <3>2, <3>4, DecoratorIs
  <2> QED BY <2>1, <2>2
<1>6. CASE GoalUpdaterTick
  <2>0. part = "GoalUpdater" /\ part' = part /\ part \in Decorators /\ Children(part) = {1}
        /\ st.at = "parent" /\ st' = [TickChild EXCEPT !.status = st.status]
    BY <1>6 DEF GoalUpdaterTick, In, Become, Decorators, Children
  <2>1. st' \in ControlState(part) /\ st'.i = 1 /\ st'.at = "child" /\ st'.status = st.status
        /\ st'.child = st.child
    BY <1>s, <2>0, TickChildIs DEF ControlState
  <2>2. DecoratorInv' /\ NoChildLeftRunning'
    BY <2>0, <2>1 DEF DecoratorInv, NoChildLeftRunning, ControlInv
  <2> QED BY <2>0, <2>1, <2>2, DecoratorIs
<1>7. CASE PathLongerOnApproachTick
  <2>0. part = "PathLongerOnApproach" /\ part' = part /\ part \in Decorators /\ part \notin {"SingleTrigger", "GoalUpdater"}
    BY <1>7 DEF PathLongerOnApproachTick, In, Become, Decorators
  <2>1. CASE st' = TickChild
    BY <2>0, <2>1, WaitStep
  <2>2. CASE st' = [Return(st, "SUCCESS") EXCEPT !.lost = ChildRunning, !.first = FALSE]
    <3> DEFINE r == Return(st, "SUCCESS")
               l == ChildRunning
    <3>1. st' = [r EXCEPT !.lost = l, !.first = FALSE]
      BY <2>2
    <3>2. /\ r \in ControlState(part) /\ r.at = "parent" /\ r.i = 1 /\ r.status = "SUCCESS"
          /\ r.child[1] = "RUNNING" <=> st.child[1] = "RUNNING"
      BY <1>s, <2>0, DecoratorReturnIs
    <3>3. l \in BOOLEAN /\ (l <=> st.child[1] = "RUNNING")
      BY DEF ChildRunning
    <3> HIDE DEF r, l
    <3>4. st' \in ControlState(part) /\ st'.i = 1 /\ st'.at = "parent" /\ st'.status = "SUCCESS"
          /\ st'.child = r.child /\ st'.lost = l
      BY <3>1, <3>2, <3>3, ZenonT(40) DEF ControlState
    <3>5. Children(part) = {1}
      BY <2>0 DEF Children
    <3>6. DecoratorInv' /\ NoChildLeftRunning'
      BY <2>0, <3>2, <3>3, <3>4, <3>5 DEF DecoratorInv, NoChildLeftRunning
    <3> QED BY <2>0, <3>4, <3>6, DecoratorIs
  <2> QED BY <1>7, <2>1, <2>2 DEF PathLongerOnApproachTick, Become
<1> QED BY <1>1, <1>2, <1>3, <1>4, <1>5, <1>6, <1>7

\* The child of a decorator answers.
LEMMA DecoratorChildStep ==
  ASSUME ControlInv, DecoratorChild
  PROVE  ControlInv'
<1>c. part \in Decorators /\ part' = part /\ st.at = "child" /\ Children(part) = {1}
  BY DEF DecoratorChild, In, Become, Children
<1>i. st \in ControlState(part) /\ st.i = 1 /\ DecoratorInv
  BY <1>c DEF ControlInv
<1>1. PICK a \in Answers :
        LET r == [Ticked(a) EXCEPT !.lost = FALSE, !.first = @ /\ a \in {"SKIPPED", "RUNNING"}]
        IN  \/ st' = Return(r, a)
            \/ part = "DistanceController" /\ a = "SUCCESS" /\ st' = Return(r, "FAILURE")
  BY Zenon DEF DecoratorChild, Become
<1> DEFINE t == Ticked(a)
           first == t.first /\ a \in {"SKIPPED", "RUNNING"}
           r == [t EXCEPT !.lost = FALSE, !.first = first]
<1>2. PICK b \in Answers : st' = Return(r, b) /\ (b = a \/ a = "SUCCESS")
  BY <1>1 DEF Answers
<1>3. t \in ControlState(part) /\ t = [st EXCEPT !.child = t.child, !.heard = t.heard]
      /\ t.child = [st.child EXCEPT ![st.i] = IF a = "SKIPPED" THEN @ ELSE a]
  BY <1>c, <1>i, TickedIs, Zenon
<1>4. first \in BOOLEAN
  OBVIOUS
<1> HIDE DEF t
<1>5. t.first = st.first /\ t.status = st.status
      /\ t.child[1] = IF a = "SKIPPED" THEN st.child[1] ELSE a
  BY <1>c, <1>i, <1>3, ZenonT(40) DEF ControlState
<1>6. first => st.first /\ a \in {"SKIPPED", "RUNNING"}
  BY <1>5
<1>9. st.first /\ a \in {"SKIPPED", "RUNNING"} => first
  BY <1>5
<1> HIDE DEF first
<1>7. r \in ControlState(part) /\ r.status = st.status /\ r.child = t.child /\ r.first = first
  BY <1>3, <1>4, <1>5, Zenon DEF ControlState
<1> HIDE DEF r
<1>8. /\ st' \in ControlState(part) /\ st'.i = 1 /\ st'.at = "parent"
      /\ st'.status = IF b = "SKIPPED" THEN st.status ELSE b
      /\ st'.child[1] = "RUNNING" <=> t.child[1] = "RUNNING"
      /\ st'.first = first
  BY <1>c, <1>2, <1>7, DecoratorReturnIs
<1>10. st'.child[1] = "RUNNING" => st'.status = "RUNNING"
  BY <1>2, <1>5, <1>8, <1>c, <1>i DEF DecoratorInv
<1>11. part = "SingleTrigger" /\ st'.child[1] = "RUNNING" => st'.first
  <2> SUFFICES ASSUME part = "SingleTrigger", st'.child[1] = "RUNNING" PROVE st'.first
    OBVIOUS
  <2>1. a \in {"SKIPPED", "RUNNING"} /\ st.first
    BY <1>c, <1>i, <1>5, <1>8 DEF DecoratorInv
  <2> QED BY <1>8, <1>9, <2>1
<1>12. DecoratorInv'
  BY <1>c, <1>8, <1>10, <1>11 DEF DecoratorInv
<1>13. NoChildLeftRunning'
  BY <1>c, <1>8, <1>10 DEF NoChildLeftRunning
<1> QED BY <1>c, <1>8, <1>12, <1>13, DecoratorIs

\* halt() of a decorator.
LEMMA DecoratorHaltStep ==
  ASSUME ControlInv, DecoratorHalt
  PROVE  ControlInv'
<1>c. part \in Decorators /\ part' = part /\ st.at = "parent" /\ Children(part) = {1}
      /\ st' = [HaltNode(st) EXCEPT !.lost = FALSE]
  BY DEF DecoratorHalt, In, Become, Children
<1>i. st \in ControlState(part) /\ st.i = 1
  BY <1>c DEF ControlInv
<1> DEFINE idle == [c \in {1} |-> "IDLE"]
<1>1. st' = [st EXCEPT !.child = idle, !.status = "IDLE", !.lost = FALSE]
  BY <1>c DEF HaltNode, HaltChildren
<1>2. idle \in [{1} -> Statuses] /\ idle[1] = "IDLE" /\ "IDLE" \in Statuses
  BY DEF Statuses
<1> HIDE DEF idle
<1>3. st' \in ControlState(part) /\ st'.i = 1 /\ st'.at = "parent" /\ st'.child = idle
  BY <1>1, <1>2, <1>c, <1>i, Zenon DEF ControlState
<1>4. DecoratorInv' /\ NoChildLeftRunning'
  BY <1>2, <1>3, <1>c DEF DecoratorInv, NoChildLeftRunning
<1> QED BY <1>c, <1>3, <1>4, DecoratorIs

-----------------------------------------------------------------------------
(* Service and cancel nodes *)

\* Every step of a service node.
LEMMA ServiceStep ==
  ASSUME ServiceInv, ServiceWasCalled, part \in ServiceNodes,
         ServiceTick \/ CheckFuture \/ ServiceHalt \/ ServiceServes
  PROVE  part' = part /\ ServiceInv' /\ ServiceWasCalled'
<1> USE MaxRequestsAssumption
<1>s. st \in ServiceState /\ part \notin CancelNodes
  BY KindsDiffer DEF ServiceInv
<1>1. CASE ServiceTick /\ st.pending
  <2>1. part' = part /\ st.at = "parent" /\ st' = [st EXCEPT !.at = "future"]
    BY <1>1 DEF ServiceTick, In, Become
  <2> QED BY <1>s, <1>1, <2>1 DEF ServiceState, ServiceInv, ServiceWasCalled
<1>2. CASE ServiceTick /\ ~st.pending
  <2> DEFINE r == [st EXCEPT !.requests = @ + 1, !.pending = TRUE, !.at = "future"]
  <2>1. part' = part /\ st.requests < MaxRequests /\ st' = CountRecovery(r)
    BY <1>2 DEF ServiceTick, In, Become
  <2>2. st.requests + 1 \in 0 .. MaxRequests
    BY <1>s, <2>1 DEF ServiceState
  <2>3. r \in ServiceState /\ r.pending /\ r.at = "future"
    BY <1>s, <2>2, Zenon DEF ServiceState
  <2> HIDE DEF r
  <2>4. st' \in ServiceState /\ st'.pending /\ st'.at = "future"
    BY <2>1, <2>3 DEF CountRecovery, ServiceState
  <2> QED BY <1>s, <2>1, <2>4 DEF ServiceInv, ServiceWasCalled
<1>3. CASE CheckFuture
  <2>1. part' = part
    BY <1>3 DEF CheckFuture, Become
  <2>2. CASE st.requests \in st.served
             /\ st' = [st EXCEPT !.at = "parent", !.status = "SUCCESS", !.pending = FALSE]
    BY <1>s, <2>1, <2>2, Zenon DEF ServiceState, ServiceInv, ServiceWasCalled, Statuses
  <2>3. CASE st' = [st EXCEPT !.at = "parent", !.status = "RUNNING"]
    BY <1>s, <2>1, <2>3, Zenon DEF ServiceState, ServiceInv, ServiceWasCalled, Statuses
  <2>4. CASE st' = [st EXCEPT !.at = "parent", !.status = "FAILURE", !.pending = FALSE]
    BY <1>s, <2>1, <2>4, Zenon DEF ServiceState, ServiceInv, ServiceWasCalled, Statuses
  <2> QED BY <1>3, <2>2, <2>3, <2>4 DEF CheckFuture, Become
<1>4. CASE ServiceHalt
  <2>1. part' = part /\ st.at = "parent" /\ st' = [st EXCEPT !.pending = FALSE, !.status = "IDLE"]
    BY <1>4 DEF ServiceHalt, In, Become
  <2> QED BY <1>s, <2>1, Zenon DEF ServiceState, ServiceInv, ServiceWasCalled, Statuses
<1>5. CASE ServiceServes
  <2>1. PICK r \in 1 .. st.requests : part' = part /\ st' = [st EXCEPT !.served = @ \cup {r}]
    BY <1>5, Zenon DEF ServiceServes, Become
  <2>2. r \in Requests
    BY <1>s DEF ServiceState, Requests
  <2> QED BY <1>s, <2>1, <2>2 DEF ServiceState, ServiceInv, ServiceWasCalled
<1> QED BY <1>1, <1>2, <1>3, <1>4, <1>5

\* Every step of a cancel node and of the goals it is to cancel.
LEMMA CancelStep ==
  ASSUME CancelInv, ServiceWasCalled, part \in CancelNodes,
         CancelTick \/ CancelResponse \/ GoalStep
  PROVE  part' = part /\ CancelInv' /\ ServiceWasCalled'
<1>s. st \in CancelState /\ part \notin ServiceNodes
  BY KindsDiffer DEF CancelInv
<1>1. CASE CancelTick
  <2> DEFINE asked == {g \in st.old : st.goal[g] = "executing"}
  <2>1. part' = part /\ st' = [st EXCEPT !.at = "request", !.status = "RUNNING", !.asked = asked]
    BY <1>1 DEF CancelTick, In, Become
  <2>2. asked \subseteq st.old /\ asked \in SUBSET Requests
    BY <1>s DEF CancelState
  <2> HIDE DEF asked
  <2>3. st' \in CancelState /\ st'.status = "RUNNING" /\ st'.asked = asked /\ st'.old = st.old
        /\ st'.goal = st.goal
    BY <1>s, <2>1, <2>2, Zenon DEF CancelState, Statuses
  <2> QED BY <1>s, <2>1, <2>2, <2>3 DEF CancelInv, ServiceWasCalled
<1>2. CASE CancelResponse
  <2> DEFINE goal == [g \in Requests |-> IF g \in st.asked /\ st.goal[g] = "executing"
                                         THEN "canceling" ELSE st.goal[g]]
  <2>1. part' = part
    BY <1>2 DEF CancelResponse, Become
  <2>2. CASE st' = [st EXCEPT !.at = "parent", !.status = "SUCCESS", !.goal = goal]
    <3>1. goal \in [Requests -> {"none", "executing", "canceling", "ended"}]
      BY <1>s DEF CancelState
    <3>2. \A g \in Requests : (st.goal[g] # "none" => goal[g] # "none")
                              /\ (g \in st.asked => goal[g] # "executing")
      OBVIOUS
    <3> HIDE DEF goal
    <3>3. st' \in CancelState /\ st'.asked = st.asked /\ st'.old = st.old /\ st'.goal = goal
      BY <1>s, <2>2, <3>1, Zenon DEF CancelState, Statuses
    <3> QED BY <1>s, <2>1, <3>2, <3>3 DEF CancelInv, ServiceWasCalled, CancelState
  <2>3. CASE st' = [st EXCEPT !.at = "parent", !.status = "FAILURE"]
    BY <1>s, <2>1, <2>3, Zenon DEF CancelState, CancelInv, ServiceWasCalled, Statuses
  <2> QED BY <1>2, <2>2, <2>3 DEF CancelResponse, Become
<1>3. CASE GoalStep
  <2>1. PICK g \in Requests :
          /\ part' = part
          /\ \/ st.goal[g] = "none" /\ st' = [st EXCEPT !.goal[g] = "executing"]
             \/ st.goal[g] \in {"executing", "canceling"} /\ st' = [st EXCEPT !.goal[g] = "ended"]
             \/ st.goal[g] # "none" /\ st' = [st EXCEPT !.old = @ \cup {g}]
    BY <1>3 DEF GoalStep, Become
  <2>2. CASE st.goal[g] = "none" /\ st' = [st EXCEPT !.goal[g] = "executing"]
    BY <1>s, <2>1, <2>2 DEF CancelState, CancelInv, ServiceWasCalled
  <2>3. CASE st.goal[g] \in {"executing", "canceling"} /\ st' = [st EXCEPT !.goal[g] = "ended"]
    BY <1>s, <2>1, <2>3 DEF CancelState, CancelInv, ServiceWasCalled
  <2>4. CASE st.goal[g] # "none" /\ st' = [st EXCEPT !.old = @ \cup {g}]
    BY <1>s, <2>1, <2>4 DEF CancelState, CancelInv, ServiceWasCalled
  <2> QED BY <2>1, <2>2, <2>3, <2>4
<1> QED BY <1>1, <1>2, <1>3

-----------------------------------------------------------------------------
(* Conditions *)

\* The kinds of conditions are different.
LEMMA ConditionKinds ==
  ASSUME NEW p
  PROVE  /\ p \in GoalConditions => p \notin Timers /\ p \notin Listeners /\ p \notin Selectors
         /\ p \in Timers => p \notin Listeners /\ p \notin Selectors
         /\ p \in {"IsBatteryLow", "IsBatteryCharging"} <=> p \in Listeners \ Selectors
         /\ p \in Selectors => p \in Listeners
         /\ p \in {"IsStuck", "TransformAvailable"} =>
              p \notin GoalConditions /\ p \notin Timers /\ p \notin Listeners /\ p \notin Selectors
         /\ p \in GoalConditions \cup Timers \cup Listeners \cup {"IsStuck", "TransformAvailable"} =>
              p \in Conditions
BY DEF GoalConditions, Timers, Listeners, Selectors, Conditions

\* A tick answers yes or no, and is remembered.
LEMMA AnsweredIs ==
  ASSUME st \in ConditionState, NEW r \in ConditionState, NEW yes \in BOOLEAN,
         st' = Answered(r, yes)
  PROVE  /\ st' \in ConditionState
         /\ st'.status = IF yes THEN "SUCCESS" ELSE "FAILURE"
         /\ st'.since = IF yes THEN 0 ELSE r.since
         /\ st'.tick.fresh <=> st.status = "IDLE"
         /\ st'.tick.before = r.tick.input /\ st'.tick.input = st.input
         /\ st'.tick.since = st.since /\ st'.tick.first = st.first
         /\ st'.input = r.input /\ st'.kept = r.kept /\ st'.first = r.first /\ st'.age = r.age
         /\ st'.queue = r.queue /\ st'.default = r.default
<1> USE ConditionsAssumption
<1> DEFINE f == Fresh
           status == IF yes THEN "SUCCESS" ELSE "FAILURE"
           since == IF yes THEN 0 ELSE r.since
           tick == [fresh |-> f, before |-> r.tick.input, input |-> st.input, since |-> st.since,
                    first |-> st.first]
<1>1. f \in BOOLEAN /\ (f <=> st.status = "IDLE")
  BY DEF Fresh
<1>2. status \in {"IDLE", "SUCCESS", "FAILURE"} /\ since \in 0 .. Period
  BY DEF ConditionState
<1>3. st' = [r EXCEPT !.status = status, !.since = since, !.tick = tick]
  BY DEF Answered
<1>4. r.tick \in Ticks /\ st.input \in Inputs /\ st.since \in 0 .. Period /\ st.first \in BOOLEAN
  BY DEF ConditionState
<1> HIDE DEF f
<1>5. tick \in Ticks
  BY <1>1, <1>4 DEF Ticks
<1>6. (tick.fresh <=> st.status = "IDLE") /\ tick.before = r.tick.input /\ tick.input = st.input
      /\ tick.since = st.since /\ tick.first = st.first
  BY <1>1
<1> HIDE DEF status, since, tick
<1>7. st' \in ConditionState
  BY <1>2, <1>3, <1>5, ZenonT(40) DEF ConditionState
<1>8. /\ st'.status = status /\ st'.since = since /\ st'.tick = tick
      /\ st'.input = r.input /\ st'.kept = r.kept /\ st'.first = r.first /\ st'.age = r.age
      /\ st'.queue = r.queue /\ st'.default = r.default
  BY <1>3 DEF ConditionState
<1> QED BY <1>6, <1>7, <1>8 DEF status, since

\* The goal conditions tick.
LEMMA GoalConditionStep ==
  ASSUME ConditionInv, GoalUpdatedTick \/ GloballyUpdatedGoalTick
  PROVE  part' = part /\ ConditionInv'
<1>s. st \in ConditionState /\ st.input \in Inputs /\ Nothing \notin Inputs
  BY DEF ConditionInv, ConditionState, Inputs, Nothing
<1>1. CASE GoalUpdatedTick
  <2> DEFINE r == [st EXCEPT !.kept = st.input]
             yes == ~Fresh /\ st.kept # st.input
  <2>0. part = "GoalUpdated" /\ part' = part /\ st' = Answered(r, yes)
    BY <1>1 DEF GoalUpdatedTick, In, Become
  <2>1. part \in GoalConditions /\ part \notin Timers /\ part \notin Listeners /\ part \notin Selectors
        /\ part # "GloballyUpdatedGoal" /\ part \notin {"IsBatteryLow", "IsBatteryCharging"}
    BY <2>0, ConditionKinds DEF GoalConditions
  <2>2. r \in ConditionState /\ r.kept = st.input /\ r.tick = st.tick
    BY <1>s DEF ConditionState
  <2>3. yes \in BOOLEAN /\ (yes <=> st.status # "IDLE" /\ st.kept # st.input)
    BY DEF Fresh
  <2> HIDE DEF r, yes
  <2>4. /\ st' \in ConditionState
        /\ st'.status = IF yes THEN "SUCCESS" ELSE "FAILURE"
        /\ st'.tick.fresh <=> st.status = "IDLE"
        /\ st'.tick.before = st.tick.input /\ st'.tick.input = st.input /\ st'.kept = st.input
    BY <1>s, <2>0, <2>2, <2>3, AnsweredIs
  <2>5. st.kept = st.tick.input
    BY <2>1, SMTT(30) DEF ConditionInv, RememberInv
  <2>6. RememberInv'
    BY <2>0, <2>1, <2>4 DEF RememberInv
  <2>7. ConditionHolds'
    BY <2>0, <2>1, <2>3, <2>4, <2>5 DEF ConditionHolds
  <2> QED BY <2>0, <2>4, <2>6, <2>7 DEF ConditionInv
<1>2. CASE GloballyUpdatedGoalTick
  <2> DEFINE r == [st EXCEPT !.kept = st.input, !.first = FALSE]
             yes == st.first \/ st.kept # st.input
  <2>0. part = "GloballyUpdatedGoal" /\ part' = part /\ st' = Answered(r, yes)
    BY <1>2 DEF GloballyUpdatedGoalTick, In, Become
  <2>1. part \in GoalConditions /\ part \notin Timers /\ part \notin Listeners /\ part \notin Selectors
        /\ part # "GoalUpdated" /\ part \notin {"IsBatteryLow", "IsBatteryCharging"}
    BY <2>0, ConditionKinds DEF GoalConditions
  <2>2. r \in ConditionState /\ r.kept = st.input /\ r.tick = st.tick /\ r.first = FALSE
    BY <1>s, Zenon DEF ConditionState
  <2>3. yes \in BOOLEAN /\ (yes <=> st.first \/ st.kept # st.input)
    OBVIOUS
  <2> HIDE DEF r, yes
  <2>4. /\ st' \in ConditionState
        /\ st'.status = IF yes THEN "SUCCESS" ELSE "FAILURE"
        /\ st'.tick.before = st.tick.input /\ st'.tick.input = st.input /\ st'.kept = st.input
        /\ st'.first = FALSE
    BY <1>s, <2>0, <2>2, <2>3, AnsweredIs
  <2>5. st.kept = st.tick.input /\ (st.first <=> st.kept = Nothing)
    BY <2>0, <2>1 DEF ConditionInv, RememberInv
  <2>6. RememberInv'
    BY <1>s, <2>0, <2>1, <2>4 DEF RememberInv
  <2>7. ConditionHolds'
    BY <1>s, <2>0, <2>1, <2>3, <2>4, <2>5 DEF ConditionHolds
  <2> QED BY <2>0, <2>4, <2>6, <2>7 DEF ConditionInv
<1> QED BY <1>1, <1>2

\* What the timers have in common: SUCCESS only when the age is the whole period, and
\* then the age starts again.  The age of a distance counts from a known start only.
LEMMA TimerAnswers ==
  ASSUME ConditionInv, part \in Timers, part' = part, NEW r \in ConditionState, NEW yes \in BOOLEAN,
         r.age <= r.since \/ (part = "DistanceTraveled" /\ r.first),
         yes => st.age = Period /\ r.age = 0, st' = Answered(r, yes)
  PROVE  ConditionInv'
<1> USE ConditionsAssumption
<1>s. st \in ConditionState
  BY DEF ConditionInv
<1>1. part \notin GoalConditions /\ part \notin Listeners /\ part \notin Selectors
      /\ part \notin {"GoalUpdated", "GloballyUpdatedGoal", "IsBatteryLow", "IsBatteryCharging"}
  BY ConditionKinds DEF GoalConditions
<1>2. /\ st.age \in Nat /\ st.since \in 0 .. Period /\ r.age \in Nat /\ r.since \in 0 .. Period
      /\ st.age <= st.since \/ (part = "DistanceTraveled" /\ st.first)
  BY <1>s DEF ConditionInv, RememberInv, ConditionState
<1>3. /\ st' \in ConditionState
      /\ st'.status = IF yes THEN "SUCCESS" ELSE "FAILURE"
      /\ st'.since = IF yes THEN 0 ELSE r.since
      /\ st'.tick.since = st.since /\ st'.tick.first = st.first /\ st'.age = r.age
      /\ st'.first = r.first
  BY <1>s, AnsweredIs
<1>4. /\ st'.age <= st'.since \/ (part = "DistanceTraveled" /\ st'.first)
      /\ yes => st.since = Period \/ (part = "DistanceTraveled" /\ st.first)
  BY <1>2, <1>3
<1>5. RememberInv'
  BY <1>1, <1>3, <1>4 DEF RememberInv
<1>6. ConditionHolds'
  BY <1>1, <1>3, <1>4 DEF ConditionHolds
<1> QED BY <1>3, <1>5, <1>6 DEF ConditionInv

\* The timers tick, and time passes.
LEMMA TimerStep ==
  ASSUME ConditionInv,
         TimeExpiredTick \/ DistanceTraveledTick \/ PathExpiringTimerTick \/ TimePasses
  PROVE  part' = part /\ ConditionInv'
<1> USE ConditionsAssumption
<1>c. part \in Timers /\ part' = part
  BY Zenon DEF TimeExpiredTick, DistanceTraveledTick, PathExpiringTimerTick, TimePasses, In, Become, Timers
<1>s. /\ st \in ConditionState /\ st.age \in Nat /\ st.since \in 0 .. Period /\ st.input \in Inputs
      /\ st.age <= st.since \/ (part = "DistanceTraveled" /\ st.first)
      /\ st.first \in BOOLEAN
  BY <1>c DEF ConditionInv, RememberInv, ConditionState
<1> DEFINE over == ~Fresh /\ st.age = Period
           age == IF Fresh \/ over THEN 0 ELSE st.age
           since == IF Fresh THEN 0 ELSE st.since
<1>0. /\ over \in BOOLEAN /\ age \in Nat /\ since \in 0 .. Period
      /\ over => st.age = Period /\ age = 0
      /\ Fresh \/ over => age <= since
      /\ age <= since \/ (part = "DistanceTraveled" /\ st.first)
  BY <1>s DEF Fresh
<1>1. CASE TimeExpiredTick
  <2> DEFINE r == [st EXCEPT !.age = age, !.since = since]
  <2>1. st' = Answered(r, over) /\ part = "TimeExpired"
    BY <1>1, Zenon DEF TimeExpiredTick, Become, In
  <2> HIDE DEF over, age, since
  <2>2. r \in ConditionState /\ r.age = age /\ r.since = since
    BY <1>s, <1>0, Zenon DEF ConditionState
  <2> HIDE DEF r
  <2>3. r.age <= r.since /\ over \in BOOLEAN /\ (over => st.age = Period /\ r.age = 0)
    BY <1>0, <2>1, <2>2
  <2>4. r.age <= r.since \/ (part = "DistanceTraveled" /\ r.first)
    BY <2>3, Zenon
  <2> QED BY <1>c, <2>1, <2>2, <2>3, <2>4, TimerAnswers, ZenonT(40)
<1>2. CASE DistanceTraveledTick
  <2>p. part = "DistanceTraveled"
    BY <1>2 DEF DistanceTraveledTick, In
  <2>1. CASE st' = Answered(st, FALSE)
    BY <1>c, <1>s, <2>1, TimerAnswers, Zenon
  <2>2. ASSUME NEW d \in 0 .. Period,
               st' = Answered([st EXCEPT !.age = d, !.since = 0, !.first = TRUE], FALSE)
        PROVE  ConditionInv'
    <3> DEFINE r == [st EXCEPT !.age = d, !.since = 0, !.first = TRUE]
    <3>1. d \in Nat /\ 0 \in 0 .. Period
      OBVIOUS
    <3>2. r \in ConditionState /\ r.first
      BY <1>s, <3>1, Zenon DEF ConditionState
    <3> HIDE DEF r
    <3> QED BY <1>c, <2>p, <2>2, <3>2, TimerAnswers, Zenon DEF r
  <2>3. CASE st' = Answered([st EXCEPT !.age = age, !.since = since,
                                       !.first = IF Fresh \/ over THEN FALSE ELSE st.first], over)
    <3> DEFINE first == IF Fresh \/ over THEN FALSE ELSE st.first
               r == [st EXCEPT !.age = age, !.since = since, !.first = first]
    <3> HIDE DEF over, age, since
    <3>1. first \in BOOLEAN /\ (age <= since \/ (part = "DistanceTraveled" /\ first))
      <4>1. CASE Fresh \/ over
        BY <1>0, <4>1, Zenon
      <4>2. CASE ~(Fresh \/ over)
        BY <1>s, <1>0, <2>p, <4>2, Zenon
      <4> QED BY <4>1, <4>2
    <3> HIDE DEF first
    <3>2. r \in ConditionState /\ r.age = age /\ r.since = since /\ r.first = first
      BY <1>s, <1>0, <3>1, Zenon DEF ConditionState
    <3>3. st' = Answered(r, over)
      BY <2>3, Zenon DEF first
    <3> HIDE DEF r
    <3>4. /\ r.age <= r.since \/ (part = "DistanceTraveled" /\ r.first)
          /\ over \in BOOLEAN /\ (over => st.age = Period /\ r.age = 0)
      BY <1>0, <3>1, <3>2
    <3> QED BY <1>c, <3>2, <3>3, <3>4, TimerAnswers, ZenonT(40)
  <2> QED BY <1>2, <2>1, <2>2, <2>3, Zenon DEF DistanceTraveledTick, Become
<1>3. CASE PathExpiringTimerTick
  <2> DEFINE new == st.first \/ st.kept # st.input
             done == ~new /\ st.age = Period
             a == IF new \/ done THEN 0 ELSE st.age
             c == IF new THEN 0 ELSE st.since
             q == [st EXCEPT !.kept = st.input, !.first = FALSE, !.age = a, !.since = c]
  <2>1. st' = Answered(q, done)
    BY <1>3 DEF PathExpiringTimerTick, Become
  <2>2. done \in BOOLEAN /\ part # "DistanceTraveled"
    BY <1>3 DEF PathExpiringTimerTick, In
  <2>3. a \in Nat /\ c \in 0 .. Period /\ a <= c /\ (done => st.age = Period /\ a = 0)
    BY <1>s, <2>2
  <2> HIDE DEF done, new, a, c
  <2> DEFINE u == [st EXCEPT !.kept = st.input, !.first = FALSE]
  <2>4. u \in ConditionState /\ q = [u EXCEPT !.age = a, !.since = c]
    BY <1>s, Zenon DEF ConditionState
  <2> HIDE DEF u, q
  <2>5. q \in ConditionState /\ q.age = a /\ q.since = c
    BY <2>3, <2>4, Zenon DEF ConditionState
  <2>6. q.age <= q.since /\ done \in BOOLEAN /\ (done => st.age = Period /\ q.age = 0)
    BY <2>2, <2>3, <2>5
  <2>7. q.age <= q.since \/ (part = "DistanceTraveled" /\ q.first)
    BY <2>6, Zenon
  <2> QED BY <1>c, <2>1, <2>5, <2>6, <2>7, TimerAnswers, ZenonT(40)
<1>4. CASE TimePasses
  <2>1. PICK a \in IF part = "DistanceTraveled" THEN 0 .. Older(st.age) ELSE {Older(st.age)} :
          st' = [st EXCEPT !.age = a, !.since = Older(st.since)]
    BY <1>4 DEF TimePasses, Become
  <2>2. /\ a \in Nat /\ Older(st.since) \in 0 .. Period
        /\ a <= Older(st.since) \/ (part = "DistanceTraveled" /\ st.first)
    BY <1>s DEF Older
  <2>3. st' \in ConditionState /\ st'.age = a /\ st'.since = Older(st.since)
        /\ st'.status = st.status /\ st'.tick = st.tick /\ st'.first = st.first
    BY <1>s, <2>1, <2>2, Zenon DEF ConditionState
  <2>4. part \notin GoalConditions /\ part \notin Listeners /\ part \notin Selectors
        /\ part \notin {"GoalUpdated", "GloballyUpdatedGoal", "IsBatteryLow", "IsBatteryCharging"}
    BY <1>c, ConditionKinds DEF GoalConditions
  <2>5. RememberInv'
    BY <1>c, <2>2, <2>3, <2>4 DEF RememberInv
  <2>6. ConditionHolds'
    BY <1>c, <2>3, <2>4 DEF ConditionHolds, ConditionInv, Fresh
  <2> QED BY <1>c, <2>3, <2>5, <2>6 DEF ConditionInv
<1> QED BY <1>c, <1>1, <1>2, <1>3, <1>4

\* The callbacks of the messages that have arrived.
LEMMA NewestIs ==
  ASSUME ConditionInv, part \in Listeners
  PROVE  /\ Newest(st) \in ConditionState
         /\ Newest(st) = [st EXCEPT !.kept = Newest(st).kept, !.queue = <<>>]
         /\ Newest(st).kept \in {Nothing, st.default, st.input}
<1>s. st \in ConditionState
  BY DEF ConditionInv
<1>1. CASE st.queue = <<>>
  <2>1. Newest(st) = st /\ st.kept \in {Nothing, st.default, st.input}
    BY <1>1 DEF Newest, ConditionInv, RememberInv
  <2> QED BY <1>s, <1>1, <2>1, Zenon DEF ConditionState
<1>2. CASE st.queue # <<>>
  <2>1. st.queue[Len(st.queue)] = st.input
    BY <1>2 DEF ConditionInv, RememberInv
  <2>2. Newest(st) = [st EXCEPT !.kept = st.input, !.queue = <<>>]
    BY <1>2, <2>1 DEF Newest
  <2>3. <<>> \in Seq(Inputs)
    OBVIOUS
  <2> QED BY <1>s, <2>2, <2>3, Zenon DEF ConditionState
<1> QED BY <1>1, <1>2

\* The battery conditions and the selectors tick, and messages arrive.
LEMMA ListenerStep ==
  ASSUME ConditionInv, BatteryTick \/ SelectorTick \/ MessageArrives
  PROVE  part' = part /\ ConditionInv'
<1> USE ConditionsAssumption
<1>c. part \in Listeners /\ part' = part /\ part \notin GoalConditions /\ part \notin Timers
      /\ part \notin {"GoalUpdated", "GloballyUpdatedGoal"}
  BY ConditionKinds, Zenon DEF BatteryTick, SelectorTick, MessageArrives, In, Become, GoalConditions
<1>s. st \in ConditionState /\ st.input \in Inputs /\ Nothing \notin Inputs /\ "a" \in Inputs
      /\ st.default \in {"a", Nothing} /\ Nothing # "a"
  BY DEF ConditionInv, ConditionState, Inputs, Nothing
<1> DEFINE n == Newest(st)
<1>n. /\ n \in ConditionState
      /\ n = [st EXCEPT !.kept = n.kept, !.queue = <<>>]
      /\ n.kept \in {Nothing, st.default, st.input}
  BY <1>c, NewestIs
<1> HIDE DEF n
<1>m. n.queue = <<>> /\ n.input = st.input /\ n.default = st.default
  BY <1>n, <1>s, Zenon DEF ConditionState
<1>1. CASE BatteryTick
  <2> DEFINE yes == n.kept = "a"
  <2>0. part \notin Selectors /\ part \in {"IsBatteryLow", "IsBatteryCharging"}
        /\ st' = Answered(n, yes)
    BY <1>1, ConditionKinds DEF BatteryTick, In, Become, n
  <2>1. yes \in BOOLEAN /\ (yes <=> n.kept = "a") /\ st.default = Nothing
    BY <1>c, <2>0 DEF ConditionInv, RememberInv
  <2> HIDE DEF yes
  <2>2. /\ st' \in ConditionState
        /\ st'.status = IF yes THEN "SUCCESS" ELSE "FAILURE"
        /\ st'.tick.input = st.input /\ st'.kept = n.kept /\ st'.queue = <<>>
        /\ st'.input = st.input /\ st'.default = st.default
    BY <1>s, <1>n, <1>m, <2>0, <2>1, AnsweredIs, SMTT(30)
  <2>3. RememberInv'
    BY <1>c, <1>n, <2>0, <2>1, <2>2 DEF RememberInv
  <2>4. ConditionHolds'
    BY <1>c, <1>n, <2>0, <2>1, <2>2 DEF ConditionHolds
  <2> QED BY <1>c, <2>2, <2>3, <2>4 DEF ConditionInv
<1>2. CASE SelectorTick
  <2> DEFINE chosen == IF n.kept = Nothing THEN n.default ELSE n.kept
             yes == chosen # Nothing
             r == [n EXCEPT !.kept = chosen]
  <2>0. part \in Selectors /\ part \notin {"IsBatteryLow", "IsBatteryCharging"}
        /\ st' = Answered(r, yes)
    BY <1>2, ConditionKinds DEF SelectorTick, In, Become, n
  <2>1. yes \in BOOLEAN /\ (yes <=> chosen # Nothing)
    OBVIOUS
  <2>5. chosen \in {st.default, st.input}
    BY <1>n, <1>m
  <2> HIDE DEF yes, chosen
  <2>6. r \in ConditionState /\ r.kept = chosen /\ r.queue = <<>> /\ r.input = st.input
        /\ r.default = st.default
    BY <1>s, <1>n, <1>m, <2>5, SMTT(30) DEF ConditionState
  <2> HIDE DEF r
  <2>2. /\ st' \in ConditionState
        /\ st'.status = IF yes THEN "SUCCESS" ELSE "FAILURE"
        /\ st'.tick.input = st.input /\ st'.kept = chosen /\ st'.queue = <<>>
        /\ st'.input = st.input /\ st'.default = st.default
    BY <1>s, <2>0, <2>1, <2>6, AnsweredIs
  <2>3. RememberInv'
    BY <1>c, <2>0, <2>2, <2>5, SMTT(30) DEF RememberInv
  <2>4. ConditionHolds'
    BY <1>c, <1>s, <2>0, <2>1, <2>2, <2>5, SMTT(30) DEF ConditionHolds
  <2> QED BY <1>c, <2>2, <2>3, <2>4 DEF ConditionInv
<1>3. CASE MessageArrives
  <2>1. PICK m \in Inputs, q \in Seq(Inputs) :
          q # <<>> /\ q[Len(q)] = m /\ st' = [st EXCEPT !.input = m, !.queue = q]
    <3>1. PICK m \in Inputs :
            \/ st' = [st EXCEPT !.input = m, !.queue = <<m>>]
            \/ st' = [st EXCEPT !.input = m, !.queue = Append(@, m)]
      BY <1>3, Zenon DEF MessageArrives, Become
    <3>2. <<m>> \in Seq(Inputs) /\ <<m>> # <<>> /\ <<m>>[Len(<<m>>)] = m
      OBVIOUS
    <3>3. Append(st.queue, m) \in Seq(Inputs) /\ Append(st.queue, m) # <<>>
          /\ Append(st.queue, m)[Len(Append(st.queue, m))] = m
      <4>1. st.queue \in Seq(Inputs)
        BY <1>s DEF ConditionState
      <4> QED BY <4>1
    <3> QED BY <3>1, <3>2, <3>3, ZenonT(40)
  <2>2. /\ st' \in ConditionState
        /\ st'.status = st.status /\ st'.tick = st.tick /\ st'.kept = st.kept /\ st'.queue = q
        /\ st'.input = m /\ st'.default = st.default
    BY <1>s, <2>1, Zenon DEF ConditionState
  <2>3. RememberInv'
    BY <1>c, <2>1, <2>2 DEF RememberInv, ConditionInv, Fresh
  <2>4. ConditionHolds'
    BY <1>c, <2>2 DEF ConditionHolds, ConditionInv, Fresh
  <2> QED BY <1>c, <2>2, <2>3, <2>4, SMTT(30) DEF ConditionInv
<1> QED BY <1>1, <1>2, <1>3, SMTT(30)

\* The other conditions, changes of the blackboard, and a reset by the parent.
LEMMA OtherConditionStep ==
  ASSUME ConditionInv, part \in Conditions,
         OdomReceived \/ IsStuckTick \/ TransformAvailableTick \/ InputChanges \/ ConditionReset
  PROVE  part' = part /\ ConditionInv'
<1>s. st \in ConditionState
  BY SMTT(30) DEF ConditionInv
<1>p. part' = part
  BY Zenon DEF OdomReceived, IsStuckTick, TransformAvailableTick, InputChanges, ConditionReset, Become
<1>o. ASSUME part \in {"IsStuck", "TransformAvailable"}, st' \in ConditionState PROVE ConditionInv'
  <2>1. part \notin GoalConditions /\ part \notin Timers /\ part \notin Listeners
        /\ part \notin Selectors
        /\ part \notin {"GoalUpdated", "GloballyUpdatedGoal", "IsBatteryLow", "IsBatteryCharging"}
    BY <1>o, ConditionKinds DEF GoalConditions
  <2>2. RememberInv' /\ ConditionHolds'
    BY <1>p, <2>1 DEF RememberInv, ConditionHolds
  <2> QED BY <1>o, <2>2 DEF ConditionInv
<1>1. CASE OdomReceived
  <2>0. part = "IsStuck"
    BY <1>1, ZenonT(40) DEF OdomReceived
  <2>1. PICK m \in Inputs :
          st' = [st EXCEPT !.age = IF @ < 3 THEN @ + 1 ELSE @, !.input = m,
                           !.kept = IF st.age >= 2 THEN m ELSE Nothing]
    BY <1>1, Zenon DEF OdomReceived, Become
  <2> DEFINE age == IF st.age < 3 THEN st.age + 1 ELSE st.age
             kept == IF st.age >= 2 THEN m ELSE Nothing
  <2>2. age \in Nat /\ kept \in Inputs \cup {Nothing} /\ m \in Inputs
    BY <1>s DEF ConditionState
  <2>3. st' = [st EXCEPT !.age = age, !.input = m, !.kept = kept]
    BY <2>1
  <2> HIDE DEF age, kept
  <2>4. st' \in ConditionState
    BY <1>s, <2>2, <2>3, Zenon DEF ConditionState
  <2> QED BY <1>o, <1>p, <2>0, <2>4, SMTT(30)
<1>2. CASE IsStuckTick
  <2> DEFINE yes == st.kept = "a"
  <2>0. part = "IsStuck" /\ yes \in BOOLEAN /\ st' = Answered(st, yes)
    BY <1>2 DEF IsStuckTick, In, Become
  <2> HIDE DEF yes
  <2>1. st' \in ConditionState
    BY <1>s, <2>0, AnsweredIs
  <2> QED BY <1>o, <1>p, <2>0, <2>1
<1>3. CASE TransformAvailableTick
  <2> DEFINE found == ~st.first \/ st.input = "a"
             first == ~found
             r == [st EXCEPT !.first = first]
  <2>0. part = "TransformAvailable" /\ st' = Answered(r, found)
    BY <1>3 DEF TransformAvailableTick, In, Become
  <2>1. found \in BOOLEAN /\ first \in BOOLEAN
    OBVIOUS
  <2> HIDE DEF found, first
  <2>2. r \in ConditionState
    BY <1>s, <2>1 DEF ConditionState
  <2> HIDE DEF r
  <2>3. st' \in ConditionState
    BY <1>s, <2>0, <2>1, <2>2, AnsweredIs
  <2> QED BY <1>o, <1>p, <2>0, <2>3
<1>4. CASE InputChanges
  <2>0. part \in GoalConditions \cup {"PathExpiringTimer", "TransformAvailable"}
    BY <1>4 DEF InputChanges, In
  <2>1. PICK i \in Inputs : st' = [st EXCEPT !.input = i]
    BY <1>4 DEF InputChanges, Become
  <2>2. st' \in ConditionState /\ st'.status = st.status /\ st'.kept = st.kept
        /\ st'.first = st.first /\ st'.age = st.age /\ st'.since = st.since /\ st'.tick = st.tick
        /\ st'.queue = st.queue /\ st'.default = st.default
    BY <1>s, <2>1 DEF ConditionState
  <2>3. part \notin Listeners /\ part \notin Selectors
        /\ part \notin {"IsBatteryLow", "IsBatteryCharging"}
    BY <2>0 DEF GoalConditions, Listeners, Selectors
  <2>4. RememberInv'
    BY <1>p, <2>2, <2>3, SMTT(30) DEF ConditionInv, RememberInv
  <2>5. ConditionHolds'
    BY <1>p, <2>2, <2>3 DEF ConditionInv, ConditionHolds, Fresh
  <2> QED BY <1>p, <2>2, <2>4, <2>5 DEF ConditionInv
<1>5. CASE ConditionReset
  <2>1. st' = [st EXCEPT !.status = "IDLE"]
    BY <1>5 DEF ConditionReset, Become
  <2>2. st' \in ConditionState /\ st'.status = "IDLE" /\ st'.kept = st.kept
        /\ st'.first = st.first /\ st'.age = st.age /\ st'.since = st.since /\ st'.tick = st.tick
        /\ st'.queue = st.queue /\ st'.default = st.default /\ st'.input = st.input
    BY <1>s, <2>1 DEF ConditionState
  <2>3. RememberInv'
    BY <1>p, <2>2 DEF ConditionInv, RememberInv, Fresh
  <2>4. ConditionHolds'
    BY <1>p, <2>2 DEF ConditionHolds, Fresh
  <2> QED BY <1>p, <2>2, <2>3, <2>4 DEF ConditionInv
<1> QED BY <1>p, <1>1, <1>2, <1>3, <1>4, <1>5

\* The initial state of a condition.
LEMMA InitCondition ==
  ASSUME part \in Conditions, st \in ConditionInit(part)
  PROVE  ConditionInv
<1> USE ConditionsAssumption
<1>1. PICK i \in Inputs, d \in IF part \in Selectors THEN {"a", Nothing} ELSE {Nothing} :
        st = [at |-> "parent", status |-> "IDLE", input |-> i, kept |-> Nothing, first |-> TRUE,
              age |-> 0, queue |-> <<>>, default |-> d, since |-> 0,
              tick |-> [fresh |-> TRUE, before |-> Nothing, input |-> Nothing, since |-> 0,
                        first |-> TRUE]]
  BY DEF ConditionInit
<1> DEFINE tick == [fresh |-> TRUE, before |-> Nothing, input |-> Nothing, since |-> 0,
                    first |-> TRUE]
<1>2. tick \in Ticks /\ tick.input = Nothing
  BY DEF Ticks
<1>3. d \in {"a", Nothing} /\ (part \notin Selectors => d = Nothing) /\ <<>> \in Seq(Inputs)
  BY <1>1
<1> HIDE DEF tick
<1>4. st = [at |-> "parent", status |-> "IDLE", input |-> i, kept |-> Nothing, first |-> TRUE,
            age |-> 0, queue |-> <<>>, default |-> d, since |-> 0, tick |-> tick]
  BY <1>1, ZenonT(20) DEF tick
<1>5. st \in ConditionState
  BY <1>2, <1>3, <1>4, SMTT(30) DEF ConditionState
<1>6. RememberInv
  BY <1>2, <1>3, <1>4, ConditionKinds, SMTT(30) DEF RememberInv, Fresh
<1>7. ConditionHolds
  BY <1>4 DEF ConditionHolds, Fresh
<1> QED BY <1>5, <1>6, <1>7, ZenonT(20) DEF ConditionInv

\* The initial states of service and cancel nodes.
LEMMA InitRemote ==
  /\ part \in ServiceNodes /\ st \in ServiceNodeInit => ServiceInv /\ ServiceWasCalled
  /\ part \in CancelNodes /\ st \in CancelNodeInit => CancelInv /\ ServiceWasCalled
<1>1. ASSUME part \in ServiceNodes, st \in ServiceNodeInit PROVE ServiceInv /\ ServiceWasCalled
  <2>1. part \notin CancelNodes /\ 0 \in 0 .. MaxRequests
    BY <1>1, KindsDiffer, MaxRequestsAssumption
  <2>2. st = [at |-> "parent", status |-> "IDLE", requests |-> 0, pending |-> FALSE, served |-> {},
              recoveries |-> 0]
    BY <1>1 DEF ServiceNodeInit
  <2>3. ServiceInv
    BY <2>1, <2>2 DEF ServiceInv, ServiceState, Statuses
  <2>4. ServiceWasCalled
    BY <2>1, <2>2 DEF ServiceWasCalled
  <2> QED BY <2>3, <2>4
<1>2. ASSUME part \in CancelNodes, st \in CancelNodeInit PROVE CancelInv /\ ServiceWasCalled
  <2>1. PICK g \in [Requests -> {"none", "executing"}] :
          st = [at |-> "parent", status |-> "IDLE", goal |-> g, old |-> {}, asked |-> {}]
    BY <1>2 DEF CancelNodeInit
  <2>2. g \in [Requests -> {"none", "executing", "canceling", "ended"}] /\ part \notin ServiceNodes
    BY <1>2, KindsDiffer
  <2> QED BY <1>2, <2>1, <2>2, SMTT(30) DEF CancelInv, CancelState, ServiceWasCalled, Statuses
<1> QED BY <1>1, <1>2

-----------------------------------------------------------------------------
(* Action nodes *)

\* The initial state of an action node.
LEMMA InitAction ==
  ASSUME part \in ActionNodes, st \in ActionNodeInit(part)
  PROVE  ActionInv
<1> USE MaxGoalsAssumption
<1>1. PICK r \in Plugin[part].counts :
        st = [at |-> "parent", status |-> "IDLE", goal |-> [g \in Goals |-> "none"],
              handle |-> NoGoal, future |-> NoGoal, result |-> NoGoal, updated |-> FALSE,
              recovery |-> r, recoveries |-> 0, path |-> NoGoal, error |-> "NONE", sent |-> 0,
              unseen |-> {}]
  BY SMTT(30) DEF ActionNodeInit
<1>2. r \in BOOLEAN
  <2>1. part \in ActionNames
    BY ActionNodesAre
  <2>2. Plain.counts = {FALSE} /\ Cleared.counts = {FALSE}
    BY DEF Plain, Cleared
  <2>3. /\ ComputePathToPoseAction.counts = {FALSE} /\ NavbimComputePathToPoseAction.counts = {FALSE}
        /\ ComputePathThroughPosesAction.counts = {FALSE} /\ ComputeRouteAction.counts = {FALSE}
        /\ ComputeAndTrackRouteAction.counts = {FALSE} /\ FollowPathAction.counts = {FALSE}
        /\ SmoothPathAction.counts = {FALSE} /\ SpinAction.counts = BOOLEAN
        /\ BackUpAction.counts = {TRUE} /\ DriveOnHeadingAction.counts = {FALSE}
        /\ AssistedTeleopAction.counts = BOOLEAN /\ WaitAction.counts = {TRUE}
        /\ NavigateToPoseAction.counts = {FALSE} /\ NavigateThroughPosesAction.counts = {FALSE}
    BY DEF Plain, Cleared, ComputePathToPoseAction, NavbimComputePathToPoseAction,
       ComputePathThroughPosesAction, ComputeRouteAction, ComputeAndTrackRouteAction,
       FollowPathAction, SmoothPathAction, SpinAction, BackUpAction, DriveOnHeadingAction,
       AssistedTeleopAction, WaitAction, NavigateToPoseAction, NavigateThroughPosesAction
  <2>4. Plugin[part] \in
          {ComputePathToPoseAction, NavbimComputePathToPoseAction, ComputePathThroughPosesAction,
           ComputeRouteAction, ComputeAndTrackRouteAction, FollowPathAction, SmoothPathAction,
           SpinAction, BackUpAction, DriveOnHeadingAction, AssistedTeleopAction, WaitAction,
           NavigateToPoseAction, NavigateThroughPosesAction}
    BY <2>1 DEF ActionNames, Plugin
  <2>5. Plugin[part].counts \in {{FALSE}, {TRUE}, BOOLEAN}
    BY <2>3, <2>4, ZenonT(40)
  <2> QED BY <1>1, <2>5, Zenon
<1> DEFINE none == [g \in Goals |-> "none"]
<1>3. none \in [Goals -> GoalStates] /\ \A g \in Goals : none[g] = "none"
  BY DEF GoalStates
<1> HIDE DEF none
<1>4. st = [at |-> "parent", status |-> "IDLE", goal |-> none,
            handle |-> NoGoal, future |-> NoGoal, result |-> NoGoal, updated |-> FALSE,
            recovery |-> r, recoveries |-> 0, path |-> NoGoal, error |-> "NONE", sent |-> 0,
            unseen |-> {}]
  BY <1>1 DEF none
<1>5. st \in ActionState
  BY <1>2, <1>3, <1>4 DEF ActionState, Statuses, NoGoal
<1>6. ClientInv
  BY <1>3, <1>4, SMTT(30) DEF ClientInv, NoGoal, Goals
<1>7. LeftInv
  BY <1>3, <1>4, ZenonT(20) DEF LeftInv, Settled, NoGoal, Ended
<1>8. ReportIsOfLastGoal
  BY <1>4 DEF ReportIsOfLastGoal
<1> QED BY <1>5, <1>6, <1>7, <1>8, ZenonT(20) DEF ActionInv

\* The hooks of the plugin: a path is that of a goal or none, and a plugin without
\* error codes does not touch the port.
LEMMA HooksAre ==
  ASSUME NEW s \in ActionState
  PROVE  /\ \A what : Port(what, s) \in Goals \cup {NoGoal}
         /\ Port("set", s) = s.result
         /\ \A code \in {"NONE", "CODE"} : Code(s, code) \in {"NONE", "CODE"}
         /\ \A code : Code(s, code) = IF Hooks.codes THEN code ELSE s.error
BY SMTT(30) DEF Port, Code, ActionState

\* send_new_goal
LEMMA SendNewGoalIs ==
  ASSUME NEW s \in ActionState, s.sent < MaxGoals
  PROVE  /\ SendNewGoal(s) \in ActionState
         /\ SendNewGoal(s).result = NoGoal /\ SendNewGoal(s).sent = s.sent + 1
         /\ SendNewGoal(s).future = s.sent + 1
         /\ SendNewGoal(s).goal = [s.goal EXCEPT ![s.sent + 1] = "sent"]
         /\ SendNewGoal(s).at = s.at /\ SendNewGoal(s).status = s.status
         /\ SendNewGoal(s).handle = s.handle /\ SendNewGoal(s).updated = s.updated
         /\ SendNewGoal(s).recovery = s.recovery /\ SendNewGoal(s).recoveries = s.recoveries
         /\ SendNewGoal(s).path = s.path /\ SendNewGoal(s).error = s.error
         /\ SendNewGoal(s).unseen = s.unseen
<1> USE MaxGoalsAssumption
<1> DEFINE n == s.sent + 1
           goal == [s.goal EXCEPT ![n] = "sent"]
<1>1. n \in Goals
  BY DEF ActionState, Goals, NoGoal
<1>2. goal \in [Goals -> GoalStates]
  BY <1>1 DEF ActionState, GoalStates
<1>3. SendNewGoal(s) = [s EXCEPT !.result = NoGoal, !.sent = n, !.future = n, !.goal = goal]
  BY DEF SendNewGoal
<1> HIDE DEF n, goal
<1>4. SendNewGoal(s) =
        [at |-> s.at, status |-> s.status, goal |-> goal, handle |-> s.handle, future |-> n,
         result |-> NoGoal, updated |-> s.updated, recovery |-> s.recovery,
         recoveries |-> s.recoveries, path |-> s.path, error |-> s.error, sent |-> n,
         unseen |-> s.unseen]
  BY <1>3, ZenonT(40) DEF ActionState
<1>5. SendNewGoal(s) \in ActionState
  BY <1>1, <1>2, <1>4 DEF ActionState
<1> QED BY <1>4, <1>5 DEF n, goal

\* A new goal is sent when the last one is settled or has been accepted.
LEMMA NewGoal ==
  ASSUME ActionInv, part \in ActionNodes, part' = part, st' \in ActionState, st.sent < MaxGoals,
         st'.goal = [st.goal EXCEPT ![st.sent + 1] = "sent"], st'.sent = st.sent + 1,
         st'.future = st.sent + 1, st'.result = NoGoal, st'.unseen = st.unseen,
         st'.handle = st.handle, st'.at \in {"response", "response2"},
         st'.status \in {"RUNNING", "SUCCESS"}, st'.error = st.error,
         st.sent # NoGoal /\ st.goal[st.sent] = "sent" => st.sent \in st.unseen
  PROVE  ActionInv'
<1> USE MaxGoalsAssumption
<1>h. Hooks' = Hooks
  BY DEF Hooks, Plugin
<1>s. st.sent \in Nat /\ st.sent + 1 \in Goals /\ st.goal \in [Goals -> GoalStates]
      /\ st.handle \in Nat /\ st.future \in Nat
  BY DEF ActionInv, ActionState, Goals, NoGoal
<1>1. \A g \in Goals : st'.goal[g] = IF g = st.sent + 1 THEN "sent" ELSE st.goal[g]
  BY <1>s, ZenonT(20)
<1>2. ClientInv'
  <2>1. \A g \in Goals : st'.goal[g] = "none" <=> g > st'.sent
    BY <1>1, <1>s, SMTT(30) DEF ActionInv, ClientInv, Goals
  <2>2. st'.handle <= st'.sent
    BY <1>s, SMTT(30) DEF ActionInv, ClientInv
  <2>3. st'.handle = NoGoal \/ st'.goal[st'.handle] \notin {"none", "sent", "rejected"}
    BY <1>s, <1>1 DEF ActionInv, ClientInv, ActionState, NoGoal
  <2>4. st'.future # NoGoal
    BY <1>s DEF NoGoal
  <2> QED BY <1>h, <2>1, <2>2, <2>3, <2>4, ZenonT(20) DEF ActionInv, ClientInv
<1>3. LeftInv'
  <2>1. \A g \in Goals : st'.goal[g] = "sent" => g \in st'.unseen \/ g = st'.future
    BY <1>1, <1>s, SMTT(30) DEF ActionInv, LeftInv, ClientInv, NoGoal, Goals
  <2>2. \A g, r \in Goals :
          g < r /\ st'.goal[r] \in Ended /\ st'.goal[g] \in {"sent", "executing", "canceling"} =>
            \E u \in st'.unseen : g <= u
    <3> SUFFICES ASSUME NEW g \in Goals, NEW r \in Goals, g < r, st'.goal[r] \in Ended,
                        st'.goal[g] \in {"sent", "executing", "canceling"}
                 PROVE  \E u \in st.unseen : g <= u
      OBVIOUS
    <3>1. st.goal[r] \in Ended
      BY <1>1, ZenonT(20) DEF Ended
    <3>2. g # st.sent + 1
      BY <1>s, <3>1 DEF ActionInv, ClientInv, Ended, Goals
    <3> QED BY <1>1, <3>1, <3>2, SMTT(30) DEF ActionInv, LeftInv
  <2> QED BY <2>1, <2>2, ZenonT(20) DEF LeftInv
<1>4. ReportIsOfLastGoal'
  BY DEF ReportIsOfLastGoal
<1> QED BY <1>2, <1>3, <1>4 DEF ActionInv

\* A node is ticked.
LEMMA ActionTickStep ==
  ASSUME ActionInv, ActionTick
  PROVE  part' = part /\ ActionInv'
<1>c. part \in ActionNodes /\ part' = part /\ st.at = "parent"
  BY DEF ActionTick, In, Become
<1>h. Hooks' = Hooks
  BY <1>c DEF Hooks, Plugin
<1>s. st \in ActionState /\ ClientInv /\ LeftInv /\ ReportIsOfLastGoal
  BY DEF ActionInv
<1>1. CASE st.status = "IDLE"
  <2> DEFINE n == SendNewGoal(st)
             k == IF st.recovery THEN n.recoveries + 1 ELSE n.recoveries
  <2>1. st.sent < MaxGoals /\ st' = [n EXCEPT !.at = "response", !.status = "RUNNING",
                                              !.recoveries = k]
    BY <1>1 DEF ActionTick, Become
  <2>2. /\ n \in ActionState
        /\ n.result = NoGoal /\ n.sent = st.sent + 1 /\ n.future = st.sent + 1
        /\ n.goal = [st.goal EXCEPT ![st.sent + 1] = "sent"] /\ n.handle = st.handle
        /\ n.error = st.error /\ n.unseen = st.unseen
    BY <1>s, <2>1, SendNewGoalIs, SMTT(30)
  <2>3. k \in Nat
    BY <2>2 DEF ActionState
  <2> HIDE DEF n, k
  <2>4. st' \in ActionState /\ st'.at = "response" /\ st'.status = "RUNNING"
        /\ st'.result = n.result /\ st'.sent = n.sent /\ st'.future = n.future
        /\ st'.goal = n.goal /\ st'.handle = n.handle /\ st'.error = n.error
        /\ st'.unseen = n.unseen
    BY <2>1, <2>2, <2>3, ZenonT(40) DEF ActionState, Statuses
  <2>5. st.sent # NoGoal /\ st.goal[st.sent] = "sent" => st.sent \in st.unseen
    BY <1>c, <1>1, <1>s DEF LeftInv, Settled, Ended
  <2> QED BY <1>c, <2>1, <2>2, <2>4, <2>5, NewGoal
<1>2. CASE st.status \in {"RUNNING", "SUCCESS"}
  <2> DEFINE at == IF st.future # NoGoal THEN "response"
                   ELSE IF st.result = NoGoal THEN "wait" ELSE "result"
  <2>1. st' = [st EXCEPT !.at = at]
    BY <1>2 DEF ActionTick, Become
  <2>2. at \in {"response", "wait", "result"} /\ (at = "response" <=> st.future # NoGoal)
        /\ (at = "wait" => st.result = NoGoal) /\ (at = "result" => st.result # NoGoal)
    OBVIOUS
  <2> HIDE DEF at
  <2>3. st' \in ActionState /\ st'.at = at /\ st'.status = st.status /\ st'.goal = st.goal
        /\ st'.handle = st.handle /\ st'.future = st.future /\ st'.result = st.result
        /\ st'.error = st.error /\ st'.sent = st.sent /\ st'.unseen = st.unseen
    BY <1>s, <2>1, <2>2 DEF ActionState
  <2>4. ClientInv'
    BY <1>c, <1>h, <1>s, <1>2, <2>2, <2>3 DEF ClientInv
  <2>5. LeftInv'
    BY <1>s, <2>2, <2>3, SMTT(30) DEF LeftInv
  <2>6. ReportIsOfLastGoal'
    BY <1>c, <1>s, <2>2, <2>3 DEF ReportIsOfLastGoal
  <2> QED BY <1>c, <2>3, <2>4, <2>5, <2>6 DEF ActionInv
<1> QED BY <1>1, <1>2 DEF ActionTick

\* A node learns, or gives up learning, what the server said to its goal.
LEMMA GoalResponseStep ==
  ASSUME ActionInv, GoalResponse
  PROVE  part' = part /\ ActionInv'
<1>c. part \in ActionNodes /\ part' = part /\ st.at \in {"response", "response2"}
  BY SMTT(30) DEF GoalResponse, Become
<1>h. Hooks' = Hooks
  BY <1>c, SMTT(30) DEF Hooks, Plugin
<1>s. st \in ActionState /\ ClientInv /\ LeftInv /\ ReportIsOfLastGoal
  BY DEF ActionInv
<1>f. st.future = st.sent /\ st.sent # NoGoal /\ st.sent \in Goals /\ st.result = NoGoal
      /\ st.goal[st.sent] # "none" /\ st.status \in {"RUNNING", "SUCCESS"}
  BY <1>c, <1>s, SMTT(30) DEF ClientInv, ActionState, Goals, NoGoal
<1>1. CASE /\ st.goal[st.future] \notin {"sent", "rejected"}
           /\ st' = [st EXCEPT !.handle = st.future, !.future = NoGoal,
                               !.at = IF @ = "response" THEN "wait" ELSE "spin"]
  <2> DEFINE at == IF st.at = "response" THEN "wait" ELSE "spin"
  <2>1. st' = [st EXCEPT !.handle = st.sent, !.future = NoGoal, !.at = at]
    BY <1>1, <1>f
  <2>2. at \in {"wait", "spin"}
    OBVIOUS
  <2> HIDE DEF at
  <2>3. st' \in ActionState /\ st'.at = at /\ st'.status = st.status /\ st'.goal = st.goal
        /\ st'.handle = st.sent /\ st'.future = NoGoal /\ st'.result = st.result
        /\ st'.error = st.error /\ st'.sent = st.sent /\ st'.unseen = st.unseen
    BY <1>s, <1>f, <2>1, <2>2, ZenonT(40) DEF ActionState
  <2>4. ClientInv'
    BY <1>h, <1>s, <1>f, <1>1, <2>2, <2>3 DEF ClientInv, Goals
  <2>5. LeftInv'
    BY <1>s, <1>f, <1>1, <2>2, <2>3 DEF LeftInv
  <2>6. ReportIsOfLastGoal'
    BY <1>f, <2>2, <2>3 DEF ReportIsOfLastGoal
  <2> QED BY <1>c, <2>3, <2>4, <2>5, <2>6 DEF ActionInv
<1>2. CASE /\ st.goal[st.future] = "rejected"
           /\ st' = Answer([st EXCEPT !.handle = NoGoal, !.future = NoGoal], "FAILURE")
  <2> DEFINE r == [st EXCEPT !.handle = NoGoal, !.future = NoGoal]
  <2>1. r \in ActionState /\ r.goal = st.goal /\ r.handle = NoGoal /\ r.future = NoGoal
        /\ r.result = st.result /\ r.error = st.error /\ r.sent = st.sent /\ r.unseen = st.unseen
    BY <1>s, Zenon DEF ActionState
  <2>2. st' = [r EXCEPT !.at = "parent", !.status = "FAILURE"]
    BY <1>2 DEF Answer
  <2> HIDE DEF r
  <2>3. st' \in ActionState /\ st'.at = "parent" /\ st'.status = "FAILURE" /\ st'.goal = st.goal
        /\ st'.handle = NoGoal /\ st'.future = NoGoal /\ st'.result = st.result
        /\ st'.error = st.error /\ st'.sent = st.sent /\ st'.unseen = st.unseen
    BY <2>1, <2>2, Zenon DEF ActionState, Statuses
  <2>4. ClientInv'
    BY <1>h, <1>s, <1>f, <2>3 DEF ClientInv, NoGoal, Goals
  <2>5. LeftInv'
    BY <1>s, <1>f, <1>2, <2>3 DEF LeftInv, Settled
  <2>6. ReportIsOfLastGoal'
    BY <1>f, <2>3 DEF ReportIsOfLastGoal
  <2> QED BY <1>c, <2>3, <2>4, <2>5, <2>6 DEF ActionInv
<1>3. CASE st' = Answer(st, "RUNNING")
  <2>2. st' = [st EXCEPT !.at = "parent", !.status = "RUNNING"]
    BY <1>3 DEF Answer
  <2>3. st' \in ActionState /\ st'.at = "parent" /\ st'.status = "RUNNING" /\ st'.goal = st.goal
        /\ st'.handle = st.handle /\ st'.future = st.future /\ st'.result = st.result
        /\ st'.error = st.error /\ st'.sent = st.sent /\ st'.unseen = st.unseen
    BY <1>s, <2>2, Zenon DEF ActionState, Statuses
  <2>4. ClientInv'
    BY <1>h, <1>s, <1>f, <2>3 DEF ClientInv
  <2>5. LeftInv'
    BY <1>s, <2>3 DEF LeftInv
  <2>6. ReportIsOfLastGoal'
    BY <1>f, <2>3 DEF ReportIsOfLastGoal
  <2> QED BY <1>c, <2>3, <2>4, <2>5, <2>6 DEF ActionInv
<1>4. CASE st' = Answer([st EXCEPT !.future = NoGoal, !.unseen = @ \cup {st.future}], "FAILURE")
  <2> DEFINE r == [st EXCEPT !.future = NoGoal, !.unseen = @ \cup {st.future}]
  <2>1. r \in ActionState /\ r.goal = st.goal /\ r.handle = st.handle /\ r.future = NoGoal
        /\ r.result = st.result /\ r.error = st.error /\ r.sent = st.sent
        /\ r.unseen = st.unseen \cup {st.sent}
    BY <1>s, <1>f, ZenonT(40) DEF ActionState
  <2>2. st' = [r EXCEPT !.at = "parent", !.status = "FAILURE"]
    BY <1>4 DEF Answer
  <2> HIDE DEF r
  <2>3. st' \in ActionState /\ st'.at = "parent" /\ st'.status = "FAILURE" /\ st'.goal = st.goal
        /\ st'.handle = st.handle /\ st'.future = NoGoal /\ st'.result = st.result
        /\ st'.error = st.error /\ st'.sent = st.sent /\ st'.unseen = st.unseen \cup {st.sent}
    BY <2>1, <2>2, ZenonT(40) DEF ActionState, Statuses
  <2>4. ClientInv'
    BY <1>h, <1>s, <1>f, <2>3 DEF ClientInv
  <2>5. LeftInv'
    BY <1>s, <1>f, <2>3 DEF LeftInv, Settled
  <2>6. ReportIsOfLastGoal'
    BY <1>f, <2>3 DEF ReportIsOfLastGoal
  <2> QED BY <1>c, <2>3, <2>4, <2>5, <2>6 DEF ActionInv
<1> QED BY <1>c, <1>1, <1>2, <1>3, <1>4 DEF GoalResponse, Become

\* on_wait_for_result
LEMMA WaitForResultStep ==
  ASSUME ActionInv, WaitForResult
  PROVE  part' = part /\ ActionInv'
<1>c. part \in ActionNodes /\ part' = part /\ st.at = "wait"
  BY DEF WaitForResult, In, Become
<1>h. Hooks' = Hooks
  BY <1>c, ZenonT(20) DEF Hooks, Plugin
<1>s. st \in ActionState /\ ClientInv /\ LeftInv /\ ReportIsOfLastGoal
  BY DEF ActionInv
<1>f. st.handle = st.sent /\ st.future = NoGoal /\ st.sent # NoGoal /\ st.result = NoGoal
      /\ st.status \in {"RUNNING", "SUCCESS"} /\ st.goal[st.sent] \notin {"none", "sent", "rejected"}
  BY <1>c, <1>s, SMTT(30) DEF ClientInv
<1>1. PICK update \in IF Hooks.updates THEN BOOLEAN ELSE {FALSE},
           fed \in IF Hooks.feedback THEN BOOLEAN ELSE {FALSE},
           known \in IF st.goal[st.handle] \in Ended THEN BOOLEAN ELSE {FALSE} :
        LET r == [st EXCEPT !.updated = @ \/ update, !.path = IF fed THEN st.handle ELSE @]
        IN  IF r.updated /\ ~known
            THEN /\ r.sent < MaxGoals
                 /\ st' = [SendNewGoal(r) EXCEPT !.updated = FALSE, !.at = "response2"]
            ELSE st' = [r EXCEPT !.at = "spin"]
  BY ZenonT(40) DEF WaitForResult, Become
<1> DEFINE updated == st.updated \/ update
           path == IF fed THEN st.handle ELSE st.path
           r == [st EXCEPT !.updated = updated, !.path = path]
<1>2. updated \in BOOLEAN
  OBVIOUS
<1>3. path \in Goals \cup {NoGoal}
  BY <1>s DEF ActionState
<1>4. \/ /\ r.sent < MaxGoals
         /\ st' = [SendNewGoal(r) EXCEPT !.updated = FALSE, !.at = "response2"]
      \/ st' = [r EXCEPT !.at = "spin"]
  BY <1>1
<1> HIDE DEF updated, path
<1>5. r \in ActionState /\ r.status = st.status /\ r.goal = st.goal /\ r.handle = st.handle
      /\ r.future = st.future /\ r.result = st.result /\ r.error = st.error /\ r.sent = st.sent
      /\ r.unseen = st.unseen
  BY <1>s, <1>2, <1>3, Zenon DEF ActionState
<1> HIDE DEF r
<1>6. CASE r.sent < MaxGoals /\ st' = [SendNewGoal(r) EXCEPT !.updated = FALSE, !.at = "response2"]
  <2> DEFINE n == SendNewGoal(r)
  <2>2. /\ n \in ActionState
        /\ n.result = NoGoal /\ n.sent = st.sent + 1 /\ n.future = st.sent + 1
        /\ n.goal = [st.goal EXCEPT ![st.sent + 1] = "sent"] /\ n.handle = st.handle
        /\ n.error = st.error /\ n.unseen = st.unseen /\ n.status = st.status
    BY <1>5, <1>6, SendNewGoalIs
  <2>3. st' = [n EXCEPT !.updated = FALSE, !.at = "response2"]
    BY <1>6
  <2> HIDE DEF n
  <2>4. st' \in ActionState /\ st'.at = "response2" /\ st'.status = n.status
        /\ st'.result = n.result /\ st'.sent = n.sent /\ st'.future = n.future
        /\ st'.goal = n.goal /\ st'.handle = n.handle /\ st'.error = n.error
        /\ st'.unseen = n.unseen
    BY <2>2, <2>3, ZenonT(40) DEF ActionState
  <2> QED BY <1>c, <1>f, <1>5, <1>6, <2>2, <2>4, NewGoal
<1>7. CASE st' = [r EXCEPT !.at = "spin"]
  <2>3. st' \in ActionState /\ st'.at = "spin" /\ st'.status = st.status /\ st'.goal = st.goal
        /\ st'.handle = st.handle /\ st'.future = st.future /\ st'.result = st.result
        /\ st'.error = st.error /\ st'.sent = st.sent /\ st'.unseen = st.unseen
    BY <1>5, <1>7 DEF ActionState
  <2>4. ClientInv'
    BY <1>h, <1>s, <1>f, <2>3 DEF ClientInv
  <2>5. LeftInv'
    BY <1>s, <2>3 DEF LeftInv
  <2>6. ReportIsOfLastGoal'
    BY <1>f, <2>3 DEF ReportIsOfLastGoal
  <2> QED BY <1>c, <2>3, <2>4, <2>5, <2>6 DEF ActionInv
<1> QED BY <1>c, <1>4, <1>6, <1>7

\* spin_some
LEMMA SpinSomeStep ==
  ASSUME ActionInv, SpinSome
  PROVE  part' = part /\ ActionInv'
<1>c. part \in ActionNodes /\ part' = part /\ st.at = "spin"
  BY DEF SpinSome, In, Become
<1>h. Hooks' = Hooks
  BY <1>c, SMTT(30) DEF Hooks, Plugin
<1>s. st \in ActionState /\ ClientInv /\ LeftInv /\ ReportIsOfLastGoal
  BY DEF ActionInv
<1>f. st.handle = st.sent /\ st.future = NoGoal /\ st.sent # NoGoal /\ st.result = NoGoal
  BY <1>c, <1>s DEF ClientInv
<1>1. CASE st' = Answer(st, "RUNNING")
  <2>2. st' = [st EXCEPT !.at = "parent", !.status = "RUNNING"]
    BY <1>1 DEF Answer
  <2>3. st' \in ActionState /\ st'.at = "parent" /\ st'.status = "RUNNING" /\ st'.goal = st.goal
        /\ st'.handle = st.handle /\ st'.future = st.future /\ st'.result = st.result
        /\ st'.error = st.error /\ st'.sent = st.sent /\ st'.unseen = st.unseen
    BY <1>s, <2>2, Zenon DEF ActionState, Statuses
  <2>4. ClientInv'
    BY <1>h, <1>s, <1>f, <2>3, ZenonT(20) DEF ClientInv
  <2>5. LeftInv'
    BY <1>s, <2>3 DEF LeftInv
  <2>6. ReportIsOfLastGoal'
    BY <1>f, <2>3, ZenonT(20) DEF ReportIsOfLastGoal
  <2> QED BY <1>c, <2>3, <2>4, <2>5, <2>6, ZenonT(20) DEF ActionInv
<1>2. CASE st.goal[st.handle] \in Ended /\ st' = [st EXCEPT !.result = st.handle, !.at = "result"]
  <2>3. st' \in ActionState /\ st'.at = "result" /\ st'.status = st.status /\ st'.goal = st.goal
        /\ st'.handle = st.handle /\ st'.future = st.future /\ st'.result = st.handle
        /\ st'.error = st.error /\ st'.sent = st.sent /\ st'.unseen = st.unseen
    BY <1>s, <1>2, Zenon DEF ActionState
  <2>4. ClientInv'
    BY <1>h, <1>s, <1>f, <1>2, <2>3 DEF ClientInv
  <2>5. LeftInv'
    BY <1>s, <2>3 DEF LeftInv
  <2>6. ReportIsOfLastGoal'
    BY <1>f, <2>3 DEF ReportIsOfLastGoal
  <2> QED BY <1>c, <2>3, <2>4, <2>5, <2>6 DEF ActionInv
<1> QED BY <1>c, <1>1, <1>2 DEF SpinSome, Become

\* on_success, on_aborted and on_cancelled
LEMMA GoalResultStep ==
  ASSUME ActionInv, GoalResult
  PROVE  part' = part /\ ActionInv'
<1>c. part \in ActionNodes /\ part' = part /\ st.at = "result"
  BY SMTT(30) DEF GoalResult, In, Become
<1>h. Hooks' = Hooks
  BY <1>c, SMTT(30) DEF Hooks, Plugin
<1>s. st \in ActionState /\ ClientInv /\ LeftInv /\ ReportIsOfLastGoal
  BY DEF ActionInv
<1>f. st.result = st.sent /\ st.future = NoGoal /\ st.sent # NoGoal /\ st.goal[st.sent] \in Ended
  BY <1>c, <1>s DEF ClientInv
<1> DEFINE r == [st EXCEPT !.handle = NoGoal]
<1>r. r \in ActionState /\ r.status = st.status /\ r.goal = st.goal /\ r.handle = NoGoal
      /\ r.future = st.future /\ r.result = st.result /\ r.error = st.error /\ r.sent = st.sent
      /\ r.unseen = st.unseen
  BY <1>s DEF ActionState
<1>1. PICK what \in {Hooks.success, Hooks.aborted, Hooks.cancelled}, code \in {"NONE", "CODE"},
           status \in {"SUCCESS", "FAILURE"} :
        /\ st' = Answer([r EXCEPT !.path = Port(what, r), !.error = Code(r, code)], status)
        /\ st.goal[st.sent] = "succeeded" => what = Hooks.success
        /\ st.goal[st.sent] # "aborted" => code = "NONE"
  BY <1>f DEF GoalResult, Become
<1> HIDE DEF r
<1> DEFINE p == Port(what, r)
           e == Code(r, code)
           q == [r EXCEPT !.path = p, !.error = e]
<1>2. p \in Goals \cup {NoGoal} /\ e \in {"NONE", "CODE"}
  BY <1>r, HooksAre
<1>9. (what = "set" => p = st.result) /\ e = (IF Hooks.codes THEN code ELSE st.error)
  BY <1>r, HooksAre
<1>3. st' = Answer(q, status)
  BY <1>1
<1> HIDE DEF p, e
<1>4. q \in ActionState /\ q.goal = st.goal /\ q.handle = NoGoal
      /\ q.future = st.future /\ q.result = st.result /\ q.error = e /\ q.sent = st.sent
      /\ q.unseen = st.unseen /\ q.path = p
  BY <1>r, <1>2, ZenonT(40) DEF ActionState
<1> HIDE DEF q
<1>5. st' \in ActionState /\ st'.at = "parent" /\ st'.status = status /\ st'.goal = st.goal
      /\ st'.handle = NoGoal /\ st'.future = st.future /\ st'.result = st.result
      /\ st'.error = e /\ st'.sent = st.sent /\ st'.unseen = st.unseen /\ st'.path = p
  BY <1>3, <1>4, ZenonT(40) DEF Answer, ActionState, Statuses
<1>6. ClientInv'
  <2>1. st'.handle <= st'.sent
    BY <1>5, <1>s, MaxGoalsAssumption, SMTT(30) DEF ActionState, Goals, NoGoal
  <2>2. ~Hooks.codes => st'.error = "NONE"
    BY <1>5, <1>9, <1>s DEF ClientInv
  <2>3. st'.result # NoGoal => st'.goal[st'.result] \in Ended /\ st'.future = NoGoal
    BY <1>5, <1>f, ZenonT(20)
  <2> QED BY <1>h, <1>s, <1>f, <1>5, <2>1, <2>2, <2>3, ZenonT(20) DEF ClientInv
<1>7. LeftInv'
  BY <1>s, <1>f, <1>5, SMTT(30) DEF LeftInv, Settled
<1>8. ReportIsOfLastGoal'
  <2>1. Hooks.success = "set" /\ st.goal[st.sent] = "succeeded" => p = st.sent
    BY <1>1, <1>9, <1>f
  <2>2. e = "NONE" \/ st.goal[st.sent] = "aborted"
    BY <1>1, <1>9, <1>s DEF ClientInv
  <2> QED BY <1>h, <1>f, <1>5, <2>1, <2>2 DEF ReportIsOfLastGoal
<1> QED BY <1>c, <1>5, <1>6, <1>7, <1>8 DEF ActionInv

\* halt()
LEMMA ActionHaltStep ==
  ASSUME ActionInv, ActionHalt
  PROVE  part' = part /\ ActionInv'
<1>c. part \in ActionNodes /\ part' = part /\ st.at = "parent"
  BY DEF ActionHalt, In, Become
<1>h. Hooks' = Hooks
  BY <1>c DEF Hooks, Plugin
<1>s. st \in ActionState /\ ClientInv /\ LeftInv /\ ReportIsOfLastGoal
  BY DEF ActionInv
<1> DEFINE p == Port(Hooks.halt, st)
           u == IF st.future = NoGoal THEN st.unseen ELSE st.unseen \cup {st.future}
           r == [st EXCEPT !.path = p, !.unseen = u]
           cancel == st.status = "RUNNING" /\ st.handle # NoGoal /\ st.goal[st.handle] \notin Ended
<1>1. st' = IF cancel THEN [r EXCEPT !.at = "cancel"] ELSE [r EXCEPT !.status = "IDLE"]
  BY DEF ActionHalt, Become
<1>2. p \in Goals \cup {NoGoal}
  BY <1>s, HooksAre
<1>3. u \in SUBSET Goals
  BY <1>s DEF ActionState
<1>4. st.unseen \subseteq u /\ (st.future # NoGoal => st.future \in u)
  OBVIOUS
<1> HIDE DEF p, u
<1>5. r \in ActionState /\ r.at = "parent" /\ r.status = st.status /\ r.goal = st.goal
      /\ r.handle = st.handle /\ r.future = st.future /\ r.result = st.result
      /\ r.error = st.error /\ r.sent = st.sent /\ r.unseen = u
  BY <1>c, <1>s, <1>2, <1>3, ZenonT(40) DEF ActionState
<1> HIDE DEF r
<1>6. CASE cancel
  <2>1. st' \in ActionState /\ st'.at = "cancel" /\ st'.status = "RUNNING" /\ st'.goal = st.goal
        /\ st'.handle = st.handle /\ st'.future = st.future /\ st'.result = st.result
        /\ st'.error = st.error /\ st'.sent = st.sent /\ st'.unseen = u
    BY <1>1, <1>5, <1>6 DEF ActionState
  <2>2. ClientInv'
    BY <1>c, <1>h, <1>s, <1>6, <2>1 DEF ClientInv
  <2>3. LeftInv'
    BY <1>s, <1>4, <2>1, ZenonT(20) DEF LeftInv, ClientInv
  <2>4. ReportIsOfLastGoal'
    BY <1>c, <1>s, <2>1 DEF ReportIsOfLastGoal
  <2> QED BY <1>c, <2>1, <2>2, <2>3, <2>4 DEF ActionInv
<1>7. CASE ~cancel
  <2>1. st' \in ActionState /\ st'.at = "parent" /\ st'.status = "IDLE" /\ st'.goal = st.goal
        /\ st'.handle = st.handle /\ st'.future = st.future /\ st'.result = st.result
        /\ st'.error = st.error /\ st'.sent = st.sent /\ st'.unseen = u
    BY <1>1, <1>5, <1>7, ZenonT(20) DEF ActionState, Statuses
  <2>2. ClientInv'
    BY <1>c, <1>h, <1>s, <2>1 DEF ClientInv
  <2>3. Settled'
    <3>1. CASE st.status # "RUNNING"
      BY <1>c, <1>s, <1>4, <2>1, <3>1, ZenonT(20) DEF LeftInv, Settled
    <3>2. CASE st.future # NoGoal
      BY <1>s, <1>4, <2>1, <3>2, ZenonT(20) DEF ClientInv, Settled
    <3>3. CASE st.status = "RUNNING" /\ st.future = NoGoal
      <4>1. st.handle = st.sent /\ st.sent # NoGoal
        BY <1>c, <1>s, <3>3, ZenonT(20) DEF ClientInv
      <4> QED BY <1>7, <2>1, <3>3, <4>1, ZenonT(20) DEF Settled
    <3> QED BY <3>1, <3>2, <3>3, ZenonT(20)
  <2>4. LeftInv'
    BY <1>s, <1>4, <2>1, <2>3 DEF LeftInv
  <2>5. ReportIsOfLastGoal'
    BY <1>c, <1>s, <2>1 DEF ReportIsOfLastGoal
  <2> QED BY <1>c, <2>1, <2>2, <2>4, <2>5 DEF ActionInv
<1> QED BY <1>6, <1>7

\* The cancel request, its answer or the end of the wait for it, and a reset.
LEMMA ActionCancelStep ==
  ASSUME ActionInv, ActionCancel \/ ActionCancelled \/ ActionReset
  PROVE  part' = part /\ ActionInv'
<1>c. part \in ActionNodes /\ part' = part
  BY DEF ActionCancel, ActionCancelled, ActionReset, In, Become
<1>h. Hooks' = Hooks
  BY <1>c DEF Hooks, Plugin
<1>s. st \in ActionState /\ ClientInv /\ LeftInv /\ ReportIsOfLastGoal
  BY DEF ActionInv
<1>1. CASE ActionCancel
  <2>a. st.at = "cancel"
    BY <1>1, SMTT(30) DEF ActionCancel, In
  <2>f. st.handle # NoGoal /\ st.handle \in Goals /\ st.goal \in [Goals -> GoalStates]
        /\ st.goal[st.handle] \notin {"none", "sent", "rejected"}
        /\ st.status \in {"RUNNING", "SUCCESS"}
    BY <2>a, <1>s DEF ClientInv, ActionState
  <2>1. CASE st' = [st EXCEPT !.at = "cancelled",
                              !.goal[st.handle] = IF @ = "executing" THEN "canceling" ELSE @]
    <3> DEFINE to == IF st.goal[st.handle] = "executing" THEN "canceling" ELSE st.goal[st.handle]
               goal == [st.goal EXCEPT ![st.handle] = to]
    <3>1. st' = [st EXCEPT !.at = "cancelled", !.goal = goal]
      BY <2>1
    <3>2. to \in {"canceling"} \cup Ended
      BY <2>f DEF GoalStates
    <3> HIDE DEF to
    <3>3. goal \in [Goals -> GoalStates]
      BY <2>f, <3>2 DEF GoalStates
    <3>4. \A g \in Goals : goal[g] = IF g = st.handle THEN to ELSE st.goal[g]
      BY <2>f
    <3> HIDE DEF goal
    <3>5. st' \in ActionState /\ st'.at = "cancelled" /\ st'.status = st.status /\ st'.goal = goal
          /\ st'.handle = st.handle /\ st'.future = st.future /\ st'.result = st.result
          /\ st'.error = st.error /\ st'.sent = st.sent /\ st'.unseen = st.unseen
      BY <1>s, <3>1, <3>3, ZenonT(40) DEF ActionState
    <3>6. \A g \in Goals : /\ goal[g] \in Ended <=> st.goal[g] \in Ended
                           /\ goal[g] \in {"none", "sent", "rejected"} \cup Ended => goal[g] = st.goal[g]
                           /\ st.goal[g] \in {"none", "sent", "rejected"} \cup Ended => goal[g] = st.goal[g]
      <4>1. st.goal[st.handle] \in Ended => to = st.goal[st.handle]
        BY DEF to, Ended
      <4>2. st.goal[st.handle] \notin Ended => to = "canceling"
        BY <2>f DEF to, GoalStates
      <4> QED BY <2>f, <3>2, <3>4, <4>1, <4>2 DEF Ended
    <3>7. ClientInv'
      <4>1. \A g \in Goals : st'.goal[g] = "none" <=> g > st'.sent
        BY <1>s, <3>5, <3>6, ZenonT(20) DEF ClientInv
      <4>2. st'.result # NoGoal => st'.goal[st'.result] \in Ended /\ st'.future = NoGoal
        BY <1>s, <3>5, <3>6, SMTT(30) DEF ClientInv, ActionState
      <4>3. st'.handle = NoGoal \/ st'.goal[st'.handle] \notin {"none", "sent", "rejected"}
        BY <2>f, <3>2, <3>4, <3>5 DEF Ended
      <4> QED BY <1>h, <1>s, <2>a, <2>f, <3>5, <4>1, <4>2, <4>3 DEF ClientInv
    <3>8. Settled'
      <4>1. CASE st.future # NoGoal
        BY <1>s, <2>a, <3>5, <4>1, ZenonT(20) DEF LeftInv, Settled
      <4>2. CASE st.future = NoGoal /\ st.status = "RUNNING"
        <5>1. st.handle = st.sent
          BY <1>s, <2>a, <4>2, ZenonT(20) DEF ClientInv
        <5> QED BY <2>f, <3>2, <3>4, <3>5, <5>1, ZenonT(20) DEF Settled
      <4>3. st.status = "RUNNING"
        BY <1>s, <2>a, ZenonT(20) DEF ClientInv
      <4> QED BY <4>1, <4>2, <4>3, ZenonT(20)
    <3>9. LeftInv'
      <4>1. \A g \in Goals : st'.goal[g] = "sent" => g \in st'.unseen \/ g = st'.future
        BY <1>s, <3>5, <3>6, ZenonT(20) DEF LeftInv
      <4>2. \A g, r \in Goals :
              g < r /\ st'.goal[r] \in Ended /\ st'.goal[g] \in {"sent", "executing", "canceling"} =>
                \E u \in st'.unseen : g <= u
        <5> SUFFICES ASSUME NEW g \in Goals, NEW r \in Goals, g < r, goal[r] \in Ended,
                            goal[g] \in {"sent", "executing", "canceling"}
                     PROVE  \E u \in st.unseen : g <= u
          BY <3>5
        <5>1. st.goal[r] \in Ended
          BY <3>6, SMTT(30)
        <5>2. st.goal[g] \notin {"none", "rejected"} \cup Ended
          BY <3>6, SMTT(30) DEF Ended
        <5>3. st.goal[g] \in {"sent", "executing", "canceling"}
          BY <2>f, <5>2, ZenonT(20) DEF GoalStates
        <5> QED BY <1>s, <5>1, <5>3, ZenonT(20) DEF LeftInv
      <4> QED BY <3>5, <3>8, <4>1, <4>2, ZenonT(20) DEF LeftInv
    <3>10. ReportIsOfLastGoal'
      BY <1>c, <1>s, <3>5, SMTT(30) DEF ReportIsOfLastGoal
    <3> QED BY <1>c, <3>5, <3>7, <3>9, <3>10 DEF ActionInv
  <2>2. CASE st' = [st EXCEPT !.at = "cancelled", !.unseen = @ \cup {st.handle}]
    <3>5. st' \in ActionState /\ st'.at = "cancelled" /\ st'.status = st.status /\ st'.goal = st.goal
          /\ st'.handle = st.handle /\ st'.future = st.future /\ st'.result = st.result
          /\ st'.error = st.error /\ st'.sent = st.sent /\ st'.unseen = st.unseen \cup {st.handle}
      BY <1>s, <2>2, <2>f, Zenon DEF ActionState
    <3>7. ClientInv'
      BY <1>h, <1>s, <2>f, <3>5, ZenonT(40) DEF ClientInv
    <3>8. Settled'
      BY <1>s, <2>a, <3>5, ZenonT(20) DEF LeftInv, ClientInv, Settled
    <3>9. LeftInv'
      BY <1>s, <3>5, <3>8, SMTT(30) DEF LeftInv
    <3>10. ReportIsOfLastGoal'
      BY <1>c, <1>s, <3>5, SMTT(30) DEF ReportIsOfLastGoal
    <3> QED BY <1>c, <3>5, <3>7, <3>9, <3>10, SMTT(30) DEF ActionInv
  <2> QED BY <1>1, <2>1, <2>2 DEF ActionCancel, Become
<1>2. CASE ActionCancelled
  <2> DEFINE e == Code(st, "NONE")
             p == Port(Hooks.cancelled, st)
  <2>1. st.at = "cancelled" /\ st' = [st EXCEPT !.at = "parent", !.status = "IDLE", !.error = e,
                                                !.path = p]
    BY <1>2 DEF ActionCancelled, In, Become
  <2>2. e \in {"NONE", "CODE"} /\ p \in Goals \cup {NoGoal}
    BY <1>s, HooksAre, ZenonT(20)
  <2>3. ~Hooks.codes => e = "NONE"
    BY <1>s, HooksAre DEF ClientInv
  <2> HIDE DEF e, p
  <2> DEFINE r == [st EXCEPT !.error = e, !.path = p]
  <2>4. r \in ActionState /\ st' = [r EXCEPT !.at = "parent", !.status = "IDLE"]
        /\ r.goal = st.goal /\ r.handle = st.handle /\ r.future = st.future
        /\ r.result = st.result /\ r.error = e /\ r.sent = st.sent /\ r.unseen = st.unseen
    BY <1>s, <2>1, <2>2, ZenonT(40) DEF ActionState
  <2> HIDE DEF r
  <2>5. st' \in ActionState /\ st'.at = "parent" /\ st'.status = "IDLE" /\ st'.goal = st.goal
        /\ st'.handle = st.handle /\ st'.future = st.future /\ st'.result = st.result
        /\ st'.error = e /\ st'.sent = st.sent /\ st'.unseen = st.unseen
    BY <2>4, Zenon DEF ActionState, Statuses
  <2>6. ClientInv'
    BY <1>h, <1>s, <2>3, <2>5, ZenonT(40) DEF ClientInv
  <2>7. LeftInv'
    BY <1>s, <2>1, <2>5, ZenonT(20) DEF LeftInv, Settled
  <2>8. ReportIsOfLastGoal'
    BY <1>c, <1>s, <2>5, SMTT(30) DEF ReportIsOfLastGoal
  <2> QED BY <1>c, <2>5, <2>6, <2>7, <2>8, SMTT(30) DEF ActionInv
<1>3. CASE ActionReset
  <2>1. st.at = "parent" /\ st.status \in {"SUCCESS", "FAILURE"} /\ st' = [st EXCEPT !.status = "IDLE"]
    BY <1>3 DEF ActionReset, In, Become
  <2>5. st' \in ActionState /\ st'.at = "parent" /\ st'.status = "IDLE" /\ st'.goal = st.goal
        /\ st'.handle = st.handle /\ st'.future = st.future /\ st'.result = st.result
        /\ st'.error = st.error /\ st'.sent = st.sent /\ st'.unseen = st.unseen
    BY <1>s, <2>1, ZenonT(20) DEF ActionState, Statuses
  <2>6. ClientInv'
    BY <1>h, <1>s, <2>5, SMTT(30) DEF ClientInv
  <2>7. LeftInv'
    BY <1>s, <2>1, <2>5, ZenonT(20) DEF LeftInv, Settled
  <2>8. ReportIsOfLastGoal'
    BY <1>c, <1>s, <2>5, SMTT(30) DEF ReportIsOfLastGoal
  <2> QED BY <1>c, <2>5, <2>6, <2>7, <2>8 DEF ActionInv
<1> QED BY <1>1, <1>2, <1>3

\* The action server takes a goal, rejects it or ends it.
LEMMA ServerGoalStep ==
  ASSUME ActionInv, ServerStep
  PROVE  part' = part /\ ActionInv'
<1> USE MaxGoalsAssumption
<1>c. part \in ActionNodes /\ part' = part
  BY SMTT(30) DEF ServerStep, Become
<1>h. Hooks' = Hooks
  BY <1>c DEF Hooks, Plugin
<1>s. st \in ActionState /\ ClientInv /\ LeftInv /\ ReportIsOfLastGoal
  BY DEF ActionInv
<1>1. PICK x \in Goals, to \in {"executing", "rejected", "canceling"} \cup Ended :
        /\ \/ st.goal[x] = "sent" /\ to \in {"executing", "rejected"}
           \/ st.goal[x] = "executing" /\ to \in {"succeeded", "aborted"}
           \/ st.goal[x] = "canceling" /\ to \in Ended
        /\ to \in Ended => \A h \in 1 .. x - 1 : st.goal[h] \notin {"executing", "canceling"}
        /\ st' = [st EXCEPT !.goal[x] = to]
  BY SMTT(30) DEF ServerStep, Become
<1> DEFINE goal == [st.goal EXCEPT ![x] = to]
<1>2. goal \in [Goals -> GoalStates] /\ st' = [st EXCEPT !.goal = goal]
  BY <1>1, <1>s DEF ActionState, GoalStates
<1>3. \A g \in Goals : goal[g] = IF g = x THEN to ELSE st.goal[g]
  BY <1>s DEF ActionState
<1> HIDE DEF goal
<1>4. st' \in ActionState /\ st'.at = st.at /\ st'.status = st.status /\ st'.goal = goal
      /\ st'.handle = st.handle /\ st'.future = st.future /\ st'.result = st.result
      /\ st'.error = st.error /\ st'.sent = st.sent /\ st'.unseen = st.unseen /\ st'.path = st.path
  BY <1>s, <1>2 DEF ActionState
<1>5. st.goal[x] \in {"sent", "executing", "canceling"} /\ to \notin {"none", "sent", "canceling"}
  BY <1>1, SMTT(30) DEF Ended
<1>6. x <= st.sent /\ \A g \in Goals : g \in Nat
  BY <1>5, <1>s, SMTT(30) DEF ClientInv, ActionState, Goals, NoGoal
<1>7. ClientInv'
  <2>1. \A g \in Goals : st'.goal[g] = "none" <=> g > st'.sent
    BY <1>s, <1>3, <1>4, <1>5, ZenonT(20) DEF ClientInv
  <2>2. st'.result # NoGoal => st'.goal[st'.result] \in Ended /\ st'.future = NoGoal
    BY <1>s, <1>3, <1>4, <1>5, SMTT(30) DEF ClientInv, ActionState, Ended
  <2>3. st'.handle = NoGoal \/ st'.goal[st'.handle] \notin {"none", "sent", "rejected"}
    BY <1>s, <1>1, <1>3, <1>4, <1>5, SMTT(30) DEF ClientInv, ActionState, Ended
  <2> QED BY <1>h, <1>s, <1>4, <2>1, <2>2, <2>3, ZenonT(40) DEF ClientInv
<1>8. st.sent \in Goals => (Settled => Settled')
  <2> SUFFICES ASSUME st.sent \in Goals, Settled PROVE Settled'
    OBVIOUS
  <2>1. st.goal[st.sent] \in {"rejected", "canceling"} \cup Ended =>
          goal[st.sent] \in {"rejected", "canceling"} \cup Ended
    BY <1>1, <1>3, <1>5 DEF Ended
  <2> QED BY <1>4, <2>1 DEF Settled
<1>9. Settled => Settled'
  <2>1. st.sent \in Goals \/ st.sent = NoGoal
    BY <1>s, SMTT(30) DEF ActionState
  <2>2. st.sent = NoGoal => Settled'
    BY <1>4, ZenonT(20) DEF Settled
  <2> QED BY <1>8, <2>1, <2>2, SMTT(30)
<1>10. LeftInv'
  <2>1. \A g \in Goals : st'.goal[g] = "sent" => g \in st'.unseen \/ g = st'.future
    BY <1>s, <1>3, <1>4, <1>5, SMTT(30) DEF LeftInv
  <2>2. \A g, r \in Goals :
          g < r /\ st'.goal[r] \in Ended /\ st'.goal[g] \in {"sent", "executing", "canceling"} =>
            \E u \in st'.unseen : g <= u
    <3> SUFFICES ASSUME NEW g \in Goals, NEW r \in Goals, g < r, goal[r] \in Ended,
                        goal[g] \in {"sent", "executing", "canceling"}
                 PROVE  \E u \in st.unseen : g <= u
      BY <1>4
    <3>1. st.goal[g] \in {"sent", "executing", "canceling"}
      BY <1>3, <1>5, SMTT(30)
    <3>2. CASE st.goal[r] \in Ended
      BY <1>s, <3>1, <3>2, SMTT(30) DEF LeftInv
    <3>3. CASE st.goal[r] \notin Ended
      <4>1. r = x /\ to \in Ended
        BY <1>3, <3>3
      <4>2. g \in 1 .. x - 1
        BY <4>1 DEF Goals
      <4>3. st.goal[g] = "sent"
        BY <1>1, <3>1, <4>1, <4>2, ZenonT(20)
      <4>4. g # st.future
        BY <1>s, <1>6, <4>1, SMTT(30) DEF ClientInv, NoGoal, ActionState, Goals
      <4>5. g \in st.unseen /\ g <= g
        BY <1>s, <1>6, <4>3, <4>4, SMTT(30) DEF LeftInv
      <4> QED BY <4>5
    <3> QED BY <3>2, <3>3, SMTT(30)
  <2> QED BY <1>s, <1>4, <1>9, <2>1, <2>2, ZenonT(20) DEF LeftInv
<1>11. ReportIsOfLastGoal'
  <2>1. st.status = "SUCCESS" /\ st.at = "parent" =>
          st.sent \in Goals /\ goal[st.sent] = st.goal[st.sent]
    BY <1>s, <1>3, <1>5, SMTT(30) DEF ClientInv, ActionState, Ended
  <2> QED BY <1>c, <1>h, <1>s, <1>4, <2>1, ZenonT(20) DEF ReportIsOfLastGoal
<1> QED BY <1>c, <1>4, <1>7, <1>10, <1>11, SMTT(30) DEF ActionInv

-----------------------------------------------------------------------------
(* All nodes *)

\* A freshly created node, of any kind, satisfies the invariant.
LEMMA InitTreeInv == TreeInit => TreeInv
<1> SUFFICES ASSUME TreeInit PROVE TreeInv
  OBVIOUS
<1>0. part \in Nodes
  BY SMTT(30) DEF TreeInit
<1>1. CASE part \in Controls \cup Decorators /\ st \in ControlNodeInit(part)
  BY <1>0, <1>1, InitControl, KindsDiffer, SMTT(30) DEF TreeInv, ServiceWasCalled
<1>2. CASE part \in ActionNodes /\ st \in ActionNodeInit(part)
  BY <1>0, <1>2, InitAction, KindsDiffer, SMTT(30) DEF TreeInv, ServiceWasCalled
<1>3. CASE part \in ServiceNodes /\ st \in ServiceNodeInit
  BY <1>0, <1>3, InitRemote, KindsDiffer, SMTT(30) DEF TreeInv
<1>4. CASE part \in CancelNodes /\ st \in CancelNodeInit
  BY <1>0, <1>4, InitRemote, KindsDiffer, ZenonT(20) DEF TreeInv
<1>5. CASE part \in Conditions /\ st \in ConditionInit(part)
  BY <1>0, <1>5, InitCondition, KindsDiffer DEF TreeInv, ServiceWasCalled
<1> QED BY <1>1, <1>2, <1>3, <1>4, <1>5 DEF TreeInit

\* Every tick, halt and reset by a parent, answer of a child, a server or a service,
\* message and passing of time keeps the invariant.
LEMMA NextTreeInv == TreeInv /\ [TreeNext]_componentVars => TreeInv'
<1> SUFFICES ASSUME TreeInv, [TreeNext]_componentVars PROVE TreeInv'
  BY ZenonT(20)
<1>c. ASSUME part \in Controls \cup Decorators, part' = part, ControlInv' PROVE TreeInv'
  BY <1>c, KindsDiffer, ZenonT(20) DEF TreeInv, ServiceWasCalled
<1>a. ASSUME part \in ActionNodes, part' = part, ActionInv' PROVE TreeInv'
  BY <1>a, KindsDiffer, ZenonT(20) DEF TreeInv, ServiceWasCalled
<1>o. ASSUME part \in Conditions, part' = part, ConditionInv' PROVE TreeInv'
  BY <1>o, KindsDiffer DEF TreeInv, ServiceWasCalled
<1>1. CASE ControlNodesNext
  <2>0. part \in Controls \cup Decorators /\ part' = part
    BY <1>1, Zenon DEF ControlNodesNext, ControlTick, ControlChild, ControlHalt, RateControllerTick,
       SpeedControllerTick, GoalUpdatedControllerTick, DistanceControllerTick, SingleTriggerTick,
       GoalUpdaterTick, PathLongerOnApproachTick, DecoratorChild, DecoratorHalt, NodeReset, In,
       Become, Decorators
  <2>1. ControlInv
    BY <2>0 DEF TreeInv
  <2>2. ControlInv'
    BY <1>1, <2>1, ControlTickStep, ControlChildStep, ControlHaltStep, DecoratorTickStep,
       DecoratorChildStep, DecoratorHaltStep, NodeResetStep, SMTT(30) DEF ControlNodesNext
  <2> QED BY <1>c, <2>0, <2>2, SMTT(30)
<1>2. CASE ActionNodesNext
  <2>0. part \in ActionNodes
    BY <1>2, Zenon DEF ActionNodesNext, ActionTick, GoalResponse, WaitForResult, SpinSome, GoalResult,
       ActionHalt, ActionCancel, ActionCancelled, ActionReset, ServerStep, In
  <2>1. ActionInv
    BY <2>0 DEF TreeInv
  <2>2. part' = part /\ ActionInv'
    BY <1>2, <2>1, ActionTickStep, GoalResponseStep, WaitForResultStep, SpinSomeStep,
       GoalResultStep, ActionHaltStep, ActionCancelStep, ServerGoalStep, ZenonT(20) DEF ActionNodesNext
  <2> QED BY <1>a, <2>0, <2>2, SMTT(30)
<1>3. CASE ServiceTick \/ CheckFuture \/ ServiceHalt \/ ServiceServes
  <2>0. part \in ServiceNodes
    BY <1>3 DEF ServiceTick, CheckFuture, ServiceHalt, ServiceServes, In
  <2>1. ServiceInv /\ ServiceWasCalled
    BY <2>0 DEF TreeInv
  <2>2. part' = part /\ ServiceInv' /\ ServiceWasCalled'
    BY <1>3, <2>0, <2>1, ServiceStep, SMTT(30)
  <2> QED BY <2>0, <2>2, KindsDiffer, SMTT(30) DEF TreeInv
<1>4. CASE CancelTick \/ CancelResponse \/ GoalStep
  <2>0. part \in CancelNodes
    BY <1>4 DEF CancelTick, CancelResponse, GoalStep, In
  <2>1. CancelInv /\ ServiceWasCalled
    BY <2>0 DEF TreeInv
  <2>2. part' = part /\ CancelInv' /\ ServiceWasCalled'
    BY <1>4, <2>0, <2>1, CancelStep, SMTT(30)
  <2> QED BY <2>0, <2>2, KindsDiffer DEF TreeInv
<1>5. CASE ConditionsNext
  <2>0. part \in Conditions
    BY <1>5, Zenon DEF ConditionsNext, GoalUpdatedTick, GloballyUpdatedGoalTick, TimeExpiredTick,
       DistanceTraveledTick, PathExpiringTimerTick, TimePasses, BatteryTick, SelectorTick,
       MessageArrives, OdomReceived, IsStuckTick, TransformAvailableTick, InputChanges,
       ConditionReset, In, Conditions, GoalConditions, Timers, Selectors
  <2>1. ConditionInv
    BY <2>0 DEF TreeInv
  <2>2. part' = part /\ ConditionInv'
    BY <1>5, <2>0, <2>1, GoalConditionStep, TimerStep, ListenerStep, OtherConditionStep, ZenonT(20)
       DEF ConditionsNext
  <2> QED BY <1>o, <2>0, <2>2
<1>6. CASE UNCHANGED componentVars
  <2>1. part' = part /\ st' = st
    BY <1>6 DEF componentVars
  <2>2. ControlInv => ControlInv'
    <3>1. PipelineInv => PipelineInv'
      BY <2>1, ZenonT(20) DEF PipelineInv, Active, Gone
    <3>2. RecoveryInv => RecoveryInv'
      BY <2>1, ZenonT(20) DEF RecoveryInv, Active, Turn, Failed
    <3>3. RoundRobinInv => RoundRobinInv'
      BY <2>1, SMTT(30) DEF RoundRobinInv, Active, Turn, Failed
    <3>4. DecoratorInv => DecoratorInv'
      BY <2>1 DEF DecoratorInv
    <3>5. NoChildLeftRunning => NoChildLeftRunning'
      BY <2>1 DEF NoChildLeftRunning
    <3> QED BY <2>1, <3>1, <3>2, <3>3, <3>4, <3>5, ZenonT(20) DEF ControlInv
  <2>3. ActionInv => ActionInv'
    <3>1. ClientInv => ClientInv'
      BY <2>1, ZenonT(20) DEF ClientInv, Hooks
    <3>2. LeftInv => LeftInv'
      BY <2>1, SMTT(30) DEF LeftInv, Settled
    <3>3. ReportIsOfLastGoal => ReportIsOfLastGoal'
      BY <2>1, ZenonT(20) DEF ReportIsOfLastGoal, Hooks
    <3> QED BY <2>1, <3>1, <3>2, <3>3, ZenonT(20) DEF ActionInv
  <2>4. ConditionInv => ConditionInv'
    BY <2>1, SMTT(30) DEF ConditionInv, RememberInv, ConditionHolds, Fresh
  <2>5. (ServiceInv => ServiceInv') /\ (CancelInv => CancelInv')
        /\ (ServiceWasCalled => ServiceWasCalled')
    BY <2>1 DEF ServiceInv, CancelInv, ServiceWasCalled
  <2> QED BY <2>1, <2>2, <2>3, <2>4, <2>5 DEF TreeInv
<1> QED BY <1>1, <1>2, <1>3, <1>4, <1>5, <1>6, SMTT(30) DEF TreeNext, ServiceNodesNext

\* The inductive invariant of the behavior tree nodes: what each kind of node has been
\* through, has left to a server and remembers.
THEOREM TreeInvariant == TreeSpec => []TreeInv
BY InitTreeInv, NextTreeInv, PTL DEF TreeSpec

\* A control or decorator node that has answered its parent has no child that still
\* runs, except a decorator that lost the pose or whose path stopped being longer.
THEOREM TreeNoChildLeftRunning == TreeSpec => []NoChildLeftRunning
<1>1. TreeInv => NoChildLeftRunning
  BY ZenonT(20) DEF TreeInv, ControlInv, NoChildLeftRunning
<1> QED BY <1>1, TreeInvariant, PTL

\* RoundRobin, PipelineSequence and RecoveryNode give up only after what they have to
\* try first, for every number_of_retries.
THEOREM TreeGivesUpOnlyWhenDone == TreeSpec => []GivesUpOnlyWhenDone
<1>1. TreeInv => GivesUpOnlyWhenDone
  <2> SUFFICES ASSUME TreeInv PROVE GivesUpOnlyWhenDone
    OBVIOUS
  <2>1. ASSUME part = "RoundRobin" PROVE RoundRobinInv
    BY <2>1 DEF TreeInv, ControlInv, Controls
  <2>2. ASSUME part = "PipelineSequence" PROVE PipelineInv
    BY <2>2 DEF TreeInv, ControlInv, Controls
  <2>3. ASSUME part = "RecoveryNode" PROVE RecoveryInv
    BY <2>3, SMTT(30) DEF TreeInv, ControlInv, Controls
  <2>4. part = "PipelineSequence" =>
          \A c \in {2, 3} : st.heard[c] # {} => st.heard[c - 1] \cap {"SUCCESS", "SKIPPED"} # {}
    BY <2>2, SMTT(30) DEF PipelineInv, Gone
  <2> QED BY <2>1, <2>3, <2>4 DEF GivesUpOnlyWhenDone, RoundRobinInv, RecoveryInv, Failed
<1> QED BY <1>1, TreeInvariant, PTL

\* An action node that is not running has left no goal to the action server, except one
\* whose response it did not wait for and what that goal, or a rejected one, replaces.
THEOREM TreeGoalEndsWithNode == TreeSpec => []GoalEndsWithNode
<1>1. TreeInv => GoalEndsWithNode
  <2> SUFFICES ASSUME TreeInv, part \in ActionNodes, st.at = "parent", st.status # "RUNNING",
                      NEW g \in Goals, Live(g)
               PROVE  \/ \E u \in st.unseen : g <= u
                      \/ \E r \in Goals : g < r /\ st.goal[r] = "rejected"
    BY ZenonT(20) DEF GoalEndsWithNode
  <2>s. st \in ActionState /\ ClientInv /\ LeftInv /\ Settled
    BY SMTT(30) DEF TreeInv, ActionInv, LeftInv
  <2>1. g <= st.sent /\ g \in Nat /\ st.sent \in Nat /\ st.sent \in Goals
    BY <2>s, MaxGoalsAssumption, SMTT(30) DEF Live, ClientInv, ActionState, Goals, NoGoal
  <2>2. st.goal[g] \in {"sent", "executing"}
    BY DEF Live
  <2>3. CASE st.sent \in st.unseen
    BY <2>1, <2>3
  <2>4. CASE st.goal[st.sent] = "rejected"
    BY <2>1, <2>2, <2>4
  <2>5. CASE st.goal[st.sent] = "canceling"
    <3>1. g # st.sent
      BY <2>2, <2>5
    <3>2. st.sent \in g + 1 .. MaxGoals
      BY <2>1, <3>1, MaxGoalsAssumption, SMTT(30) DEF Goals
    <3> QED BY <2>5, <3>2, SMTT(30) DEF Live
  <2>6. CASE st.goal[st.sent] \in Ended
    <3>1. g < st.sent
      BY <2>1, <2>2, <2>6 DEF Ended
    <3> QED BY <2>s, <2>1, <2>2, <2>6, <3>1, SMTT(30) DEF LeftInv
  <2> QED BY <2>s, <2>1, <2>3, <2>4, <2>5, <2>6, SMTT(30) DEF Settled, NoGoal, Goals
<1> QED BY <1>1, TreeInvariant, PTL

\* What an action, service or cancel node reports is the server's answer to its own
\* last request.
THEOREM TreeReportIsOwn == TreeSpec => []ReportIsOwn
<1>1. TreeInv => ReportIsOwn
  BY ZenonT(20) DEF TreeInv, ActionInv, ReportIsOwn, ReportIsOfLastGoal
<1> QED BY <1>1, TreeInvariant, PTL

\* A change of goal is reported once, a timer only after its period (a distance unless the
\* robot pose was not known when it began), a battery state and a selection from the newest
\* message, for every period.
THEOREM TreeConditionHolds == TreeSpec => []ConditionHolds
<1>1. TreeInv => ConditionHolds
  BY ZenonT(20) DEF TreeInv, ConditionInv, ConditionHolds
<1> QED BY <1>1, TreeInvariant, PTL

\* Every node stays in its type.
THEOREM TreeTypeCorrect == TreeSpec => []TreeTypeOK
<1>1. TreeInv => TreeTypeOK
  <2> SUFFICES ASSUME TreeInv PROVE TreeTypeOK
    OBVIOUS
  <2> USE NodesAssumption
  <2>0. part \in Nodes /\ part \in AllNodes
    BY SMTT(30) DEF TreeInv
  <2>1. ASSUME part \in Controls \cup Decorators
        PROVE  /\ st.status \in Statuses /\ st.child \in [Children(part) -> Statuses]
               /\ st.last \in Children(part) /\ st.i \in Children(part)
               /\ st.count \in Nat /\ st.skipped \in 0 .. 3
    BY <2>1, SMTT(30) DEF TreeInv, ControlInv, ControlState
  <2>2. ASSUME part \in ActionNodes
        PROVE  /\ st.status \in Statuses
               /\ st.handle \in 0 .. st.sent /\ st.future \in 0 .. st.sent /\ st.path \in 0 .. MaxGoals
               /\ st.at \in {"wait", "spin", "cancel"} => st.handle # NoGoal
               /\ st.at = "result" => st.result # NoGoal
    <3>1. st \in ActionState /\ ClientInv
      BY <2>2 DEF TreeInv, ActionInv
    <3>2. st.status \in Statuses /\ st.handle \in Nat /\ st.sent \in Nat /\ st.path \in 0 .. MaxGoals
      BY <3>1, MaxGoalsAssumption DEF ActionState, Goals, NoGoal
    <3>3. st.handle <= st.sent /\ st.future \in {0, st.sent}
      BY <3>1, Zenon DEF ClientInv, NoGoal
    <3>4. st.handle \in 0 .. st.sent /\ st.future \in 0 .. st.sent
      BY ONLY <3>2, <3>3, SMTT(30)
    <3>5. st.at \in {"wait", "spin", "cancel"} => st.handle # NoGoal
      BY <3>1, ZenonT(20) DEF ClientInv
    <3>6. st.at = "result" => st.result # NoGoal
      BY <3>1, SMTT(30) DEF ClientInv
    <3> QED BY ONLY <3>2, <3>4, <3>5, <3>6, Zenon
  <2>3. ASSUME part \in ServiceNodes
        PROVE  st.status \in Statuses /\ st.requests \in 0 .. MaxRequests /\ st.served \subseteq Requests
    BY <2>3 DEF TreeInv, ServiceInv, ServiceState
  <2>4. ASSUME part \in CancelNodes PROVE st.status \in Statuses /\ st.asked \subseteq Requests
    BY <2>4 DEF TreeInv, CancelInv, CancelState
  <2>5. ASSUME part \in Conditions PROVE st.status \in Statuses
    BY <2>5 DEF TreeInv, ConditionInv, ConditionState, Statuses
  <2> QED BY <2>0, <2>1, <2>2, <2>3, <2>4, <2>5, SMTT(30) DEF TreeTypeOK, AllNodes
<1> QED BY <1>1, TreeInvariant, PTL
=============================================================================
