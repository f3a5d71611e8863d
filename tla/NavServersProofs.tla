-------------------------- MODULE NavServersProofs -------------------------
(***************************************************************************)
(* Proofs about the execute callbacks of the navigation servers, for any   *)
(* number of goals, deactivations, retries, legs, waypoints and trees, and *)
(* about the second-level planner that calls the room planner.             *)
(*                                                                         *)
(* The inductive invariant has three parts: what the lifecycle thread and  *)
(* the worker know of each other (LifeInv), where a callback can be and    *)
(* whose data it holds there (one invariant per server), and the invariant *)
(* of the action server, which applies because every step here is a step   *)
(* of the action server.                                                   *)
(***************************************************************************)
EXTENDS NavDriveProofs, SecondLevelPlanner

-----------------------------------------------------------------------------
(* The other threads: executor, lifecycle and the worker loop *)

\* A step of the executor or the lifecycle thread, or of the worker outside the callback.
Around ==
  \/ ExecutorNext /\ UNCHANGED <<server, cb>>
  \/ NavActivate \/ NavDeactivateBegin \/ NavDeactivateEnd
  \/ (DeactivateDeadline \/ WorkReturned \/ WorkExit) /\ UNCHANGED <<server, cb>>
  \/ UNCHANGED navVars

\* What they do to a callback: it may lose its goal, but only in a deactivation.
AroundIs ==
  /\ server' = server /\ [Next]_serverVars /\ NoNewSuccess
  /\ worker = "callback" <=> worker' = "callback"
  /\ worker = "callback" => current' \in {current, None}
  /\ deactivations' = 0 => deactivations = 0
  /\ worker = "callback" /\ deactivations' = 0 =>
       current' = current /\ (pending # None => pending' # None)
  /\ worker = "callback" => lifecycle' \in {lifecycle, "deactivating"}
  /\ worker = "callback" /\ lifecycle' # "deactivating" => current' = current
  /\ LifeInv'

\* The executor thread.
LEMMA ExecutorIs ==
  ASSUME NavInv, ExecutorNext, server' = server
  PROVE  AroundIs
<1>i. IInv /\ LifeInv
  BY DEF NavInv
<1> USE NoneAssumption
<1>n. Next
  BY SMTT(30) DEF Next
<1>1. ASSUME NEW g \in Goals, SendGoal(g) \/ HandleCancel(g)
      PROVE  AroundIs
  BY <1>i, <1>n, <1>1, SMTT(30) DEF AroundIs, NoNewSuccess, LifeInv, SendGoal, HandleCancel, slotVars,
                       lifeVars, IInv, TypeOK
<1>2. ASSUME NEW g \in Goals, HandleGoal(g)
      PROVE  AroundIs
  <2>1. NoNewSuccess
    BY <1>i, <1>2, SMTT(30) DEF NoNewSuccess, HandleGoal, IInv, TypeOK
  <2>2. /\ UNCHANGED <<slotVars, worker, lifeVars>>
        /\ ~server_active => UNCHANGED accepting
    BY <1>2, SMTT(30) DEF HandleGoal
  <2>3. LifeInv'
    BY <1>i, <2>2, SMTT(30) DEF LifeInv, lifeVars, IInv, TypeOK
  <2> QED BY <1>n, <2>1, <2>2, <2>3, SMTT(30) DEF AroundIs, slotVars, lifeVars
<1>3. CASE HandleAccepted
  <2>1. NoNewSuccess
    BY <1>i, <1>3, SMTT(30) DEF NoNewSuccess, HandleAccepted, Terminate, is_active, IInv, TypeOK
  <2>2. /\ UNCHANGED lifeVars /\ accepting # None /\ accepting' = None
        /\ worker' \in {worker, "test"} /\ (worker' # worker => worker = "ready")
        /\ worker = "callback" => current' = current /\ pending' = accepting
    BY <1>3, SMTT(30) DEF HandleAccepted, is_running
  <2>3. LifeInv'
    BY <1>i, <2>2, SMTT(30) DEF LifeInv, lifeVars
  <2> QED BY <1>n, <2>1, <2>2, <2>3, SMTT(30) DEF AroundIs, lifeVars
<1> QED BY <1>1, <1>2, <1>3, SMTT(30) DEF ExecutorNext

\* The lifecycle thread.
LEMMA LifecycleIs ==
  ASSUME NavInv, Activate \/ DeactivateBegin \/ DeactivateEnd \/ DeactivateDeadline, server' = server
  PROVE  AroundIs
<1>i. IInv /\ LifeInv /\ deactivations \in Nat
  BY BoundAssumption DEF NavInv, IInv, TypeOK
<1>n. Next
  BY SMTT(30) DEF Next, LifecycleNext
<1>1. CASE Activate
  <2>1. NoNewSuccess
    BY <1>1, SMTT(30) DEF NoNewSuccess, Activate, handleVars
  <2> QED BY <1>i, <1>n, <1>1, <2>1, SMTT(30) DEF AroundIs, Activate, LifeInv, slotVars
<1>2. CASE DeactivateBegin
  <2>1. NoNewSuccess
    BY <1>2, Zenon DEF NoNewSuccess, DeactivateBegin, handleVars
  <2>2. deactivations' = deactivations + 1 /\ deactivations' > 0
    BY <1>i, <1>2, SMTT(30) DEF DeactivateBegin
  <2> QED BY <1>i, <1>n, <1>2, <2>1, <2>2, SMTT(30) DEF AroundIs, DeactivateBegin, LifeInv, slotVars
<1>3. CASE DeactivateEnd
  <2>1. NoNewSuccess
    BY <1>3, SMTT(30) DEF NoNewSuccess, DeactivateEnd, handleVars
  <2> QED BY <1>i, <1>n, <1>3, <2>1, SMTT(30) DEF AroundIs, DeactivateEnd, LifeInv, slotVars, is_running
<1>4. CASE DeactivateDeadline
  <2>1. NoNewSuccess /\ current' = None
    BY <1>i, <1>4, AllEnd, SMTT(30) DEF DeactivateDeadline
  <2>2. UNCHANGED <<accepting, worker, lifeVars>> /\ lifecycle = "deactivating" /\ deactivations > 0
    BY <1>i, <1>4, SMTT(30) DEF DeactivateDeadline, LifeInv
  <2> QED BY <1>i, <1>n, <2>1, <2>2, SMTT(30) DEF AroundIs, LifeInv, lifeVars
<1> QED BY <1>1, <1>2, <1>3, <1>4, SMTT(30)

\* The worker after the callback.
LEMMA WorkerIs ==
  ASSUME NavInv, WorkReturned \/ WorkExit, server' = server
  PROVE  AroundIs
<1>i. IInv /\ LifeInv
  BY DEF NavInv
<1>n. Next
  BY SMTT(30) DEF Next, LoopNext
<1>1. UNCHANGED <<accepting, lifeVars>> /\ worker \in {"returned", "exit"}
      /\ worker' \in {"exit", "test", "ready"} /\ (worker = "returned" => worker' # "ready")
      /\ (worker = "exit" => worker' = "ready")
  BY DEF WorkReturned, WorkExit
<1>2. NoNewSuccess
  <2>1. CASE WorkReturned
    BY <1>i, <2>1, NoneAssumption, ZenonT(40) DEF WorkReturned, TerminateAll, Terminate, is_active, NoNewSuccess, IInv, TypeOK
  <2>2. CASE WorkExit
    BY <2>2, SMTT(30) DEF WorkExit, handleVars, NoNewSuccess
  <2> QED BY <2>1, <2>2, SMTT(30)
<1> QED BY <1>i, <1>n, <1>1, <1>2, SMTT(30) DEF AroundIs, LifeInv, lifeVars

\* Nothing happens.
LEMMA StutterIs ==
  ASSUME NavInv, UNCHANGED navVars
  PROVE  AroundIs
<1>i. LifeInv
  BY DEF NavInv
<1>1. UNCHANGED serverVars /\ server' = server
  BY SMTT(30) DEF navVars
<1>2. NoNewSuccess
  BY <1>1, SMTT(30) DEF NoNewSuccess, serverVars
<1>3. LifeInv'
  BY <1>i, <1>1, SMTT(30) DEF LifeInv, serverVars
<1>4. /\ worker' = worker /\ current' = current /\ pending' = pending /\ lifecycle' = lifecycle
      /\ deactivations' = deactivations
  BY <1>1 DEF serverVars
<1> QED BY <1>1, <1>2, <1>3, <1>4, SMTT(30) DEF AroundIs

\* All of them.
LEMMA AroundHolds == ASSUME NavInv, Around PROVE AroundIs
BY ExecutorIs, LifecycleIs, WorkerIs, StutterIs, SMTT(30)
   DEF Around, NavActivate, NavDeactivateBegin, NavDeactivateEnd

\* The callback's data in such a step; only the publisher goes on and off.
LEMMA AroundData ==
  ASSUME NavInv, Around, NEW P, NEW O, cb \in Callbacks(P, O), server \notin Behaviors \cup Controllers
  PROVE  /\ cb' \in Callbacks(P, O)
         /\ cb'.at = cb.at /\ cb'.job = cb.job /\ cb'.velocity = cb.velocity /\ cb'.kept = cb.kept
         /\ cb'.own = cb.own
         /\ (cb.gate <=> lifecycle # "inactive") => (cb'.gate <=> lifecycle' # "inactive")
<1> DEFINE on == [cb EXCEPT !.gate = TRUE]
           off == [cb EXCEPT !.gate = FALSE]
<1>1. /\ on \in Callbacks(P, O) /\ on.at = cb.at /\ on.job = cb.job /\ on.velocity = cb.velocity
      /\ on.kept = cb.kept /\ on.own = cb.own /\ on.gate
      /\ off \in Callbacks(P, O) /\ off.at = cb.at /\ off.job = cb.job /\ off.velocity = cb.velocity
      /\ off.kept = cb.kept /\ off.own = cb.own /\ ~off.gate
  BY Zenon DEF Callbacks
<1>2. CASE NavActivate
  <2>1. cb' = on /\ lifecycle' = "active"
    BY <1>2 DEF NavActivate, Activate
  <2> HIDE DEF on
  <2> QED BY <1>1, <2>1
<1>3. CASE NavDeactivateEnd
  <2>1. cb' = off /\ lifecycle' = "inactive"
    BY <1>3 DEF NavDeactivateEnd, DeactivateEnd
  <2> HIDE DEF off
  <2> QED BY <1>1, <2>1
<1>4. CASE NavDeactivateBegin
  <2>1. cb' = cb /\ lifecycle = "active" /\ lifecycle' = "deactivating"
    BY <1>4, SMTT(30) DEF NavDeactivateBegin, DeactivateBegin
  <2> QED BY <2>1
<1>5. CASE /\ ~NavActivate /\ ~NavDeactivateEnd /\ ~NavDeactivateBegin
  <2>1. cb' = cb
    BY <1>5, SMTT(30) DEF Around, navVars
  <2>2. lifecycle' = lifecycle
    <3>1. CASE ExecutorNext
      BY <3>1, SMTT(30) DEF ExecutorNext, SendGoal, HandleGoal, HandleCancel, HandleAccepted, lifeVars
    <3>2. CASE DeactivateDeadline \/ WorkReturned \/ WorkExit
      BY <3>2, SMTT(30) DEF DeactivateDeadline, WorkReturned, WorkExit, lifeVars
    <3>3. CASE UNCHANGED navVars
      BY <3>3, SMTT(30) DEF navVars, serverVars
    <3> QED BY <1>5, <3>1, <3>2, <3>3, SMTT(30) DEF Around
  <2> QED BY <2>1, <2>2, SMTT(30)
<1> QED BY <1>2, <1>3, <1>4, <1>5, SMTT(30)

\* The callback runs exactly while it is somewhere.
LEMMA AtIs ==
  ASSUME NavInv
  PROVE  /\ cb.at # "off" <=> worker = "callback"
         /\ cb.at = "entry" /\ current = None => lifecycle = "deactivating"
BY SMTT(30) DEF NavInv, CallbackInv

\* The servers without a velocity publisher, and the docking server.
LEMMA AroundPathServers ==
  ASSUME NavInv, Around, server \notin Behaviors \cup Controllers
  PROVE  /\ server \in Planners => PlannerInv'
         /\ server \in RoomPlanners => RoomInv'
         /\ server \in Smoothers => SmootherInv'
         /\ server \in Routers => RouteInv'
         /\ server \in Docks => DockInv'
         /\ server \in Navigators => BtInv'
         /\ server \in Followers => FollowerInv'
<1>a. AroundIs /\ ServerInv /\ (cb.at # "off" <=> worker = "callback")
  BY AroundHolds, AtIs, SMTT(30) DEF NavInv
<1>d. ASSUME NEW P, NEW O, cb \in Callbacks(P, O)
      PROVE  /\ cb' \in Callbacks(P, O)
             /\ cb'.at = cb.at /\ cb'.job = cb.job /\ cb'.velocity = cb.velocity
             /\ cb'.kept = cb.kept /\ cb'.own = cb.own
             /\ (cb.gate <=> lifecycle # "inactive") => (cb'.gate <=> lifecycle' # "inactive")
  BY <1>d, AroundData, SMTT(30)
<1>1. ASSUME server \in Planners PROVE PlannerInv'
  <2>1. PlannerInv
    BY <1>a, <1>1, SMTT(30) DEF ServerInv
  <2>2. /\ cb' \in Callbacks(PlannerPlaces, PlannerOwn)
        /\ cb'.at = cb.at /\ cb'.job = cb.job /\ cb'.velocity = cb.velocity
        /\ cb'.kept = cb.kept /\ cb'.own = cb.own
    BY <1>d, <2>1, ZenonT(40) DEF PlannerInv
  <2> QED BY <1>a, <2>1, <2>2, Zenon DEF PlannerInv, PlannerWork, Mine, AroundIs
<1>2. ASSUME server \in RoomPlanners PROVE RoomInv'
  <2>1. RoomInv
    BY <1>a, <1>2, SMTT(30) DEF ServerInv
  <2>2. /\ cb' \in Callbacks(RoomPlaces, RoomOwn)
        /\ cb'.at = cb.at /\ cb'.job = cb.job /\ cb'.velocity = cb.velocity
        /\ cb'.kept = cb.kept /\ cb'.own = cb.own
    BY <1>d, <2>1, SMTT(30) DEF RoomInv
  <2> QED BY <1>a, <2>1, <2>2, Zenon DEF RoomInv, RoomWork, Mine, AroundIs
<1>3. ASSUME server \in Smoothers PROVE SmootherInv'
  <2>1. SmootherInv
    BY <1>a, <1>3, SMTT(30) DEF ServerInv
  <2>2. /\ cb' \in Callbacks(SmootherPlaces, SmootherOwn)
        /\ cb'.at = cb.at /\ cb'.job = cb.job /\ cb'.velocity = cb.velocity
    BY <1>d, <2>1, SMTT(30) DEF SmootherInv
  <2> QED BY <1>a, <2>1, <2>2, Zenon DEF SmootherInv, Mine, AroundIs
<1>4. ASSUME server \in Routers PROVE RouteInv'
  <2>1. RouteInv
    BY <1>a, <1>4, SMTT(30) DEF ServerInv
  <2>2. /\ cb' \in Callbacks(RoutePlaces, RouteOwn)
        /\ cb'.at = cb.at /\ cb'.job = cb.job /\ cb'.velocity = cb.velocity
        /\ cb'.kept = cb.kept /\ cb'.own = cb.own
    BY <1>d, <2>1, ZenonT(40) DEF RouteInv
  <2> QED BY <1>a, <2>1, <2>2, ZenonT(40) DEF RouteInv, RouteWork, Mine, Undisturbed, AroundIs
<1>5. ASSUME server \in Docks PROVE DockInv'
  <2>1. DockInv
    BY <1>a, <1>5 DEF ServerInv
  <2>2. /\ cb' \in Callbacks(DockPlaces, DockOwn)
        /\ cb'.at = cb.at /\ cb'.job = cb.job /\ cb'.velocity = cb.velocity
        /\ cb'.kept = cb.kept /\ cb'.own = cb.own
        /\ (cb.gate <=> lifecycle # "inactive") => (cb'.gate <=> lifecycle' # "inactive")
    BY <1>d, <2>1, Zenon DEF DockInv
  <2>3. cb.at \in DockWork \cup {"entry", "inactive"} => worker = "callback"
    BY <1>a, SMTT(30) DEF DockWork, DockHolds, DockDrives, UndockDrives
  <2>4. /\ cb'.gate <=> lifecycle' # "inactive"
        /\ cb'.at \in DockWork => cb'.job # None
    BY <2>1, <2>2, Zenon DEF DockInv
  <2>5. cb'.at = "inactive" /\ cb'.job = None => lifecycle' = "deactivating"
    BY <1>a, <2>1, <2>2, <2>3, ZenonT(40) DEF DockInv, AroundIs
  <2>6. cb'.at \in DockWork \cup {"inactive"} => Mine' \/ cb'.kept
    BY <1>a, <2>1, <2>2, <2>3, ZenonT(40) DEF DockInv, Mine, AroundIs
  <2>7. cb'.at \in DockWork \cup {"entry", "inactive"} /\ Undisturbed' => current' # None
    BY <1>a, <2>1, <2>2, <2>3, ZenonT(40) DEF DockInv, Undisturbed, AroundIs
  <2>8. /\ cb'.at = "find" => cb'.own.dock = "null" /\ cb'.own.retries = 0
        /\ cb'.at \in DockHolds \ {"error", "interrupted"} => cb'.own.retries <= MaxRetries
        /\ cb'.own.dock = "new" => cb'.at \in DockHolds \/ cb'.own.leaked
        /\ cb'.velocity = "moving" => cb'.at \in DockDrives \cup UndockDrives
    BY <2>1, <2>2, ZenonT(40) DEF DockInv
  <2> QED BY <2>2, <2>4, <2>5, <2>6, <2>7, <2>8, Zenon DEF DockInv
<1>6. ASSUME server \in Navigators PROVE BtInv'
  <2>1. BtInv
    BY <1>a, <1>6, SMTT(30) DEF ServerInv
  <2>2. /\ cb' \in Callbacks(BtPlaces, BtOwn)
        /\ cb'.at = cb.at /\ cb'.job = cb.job /\ cb'.velocity = cb.velocity
        /\ cb'.kept = cb.kept /\ cb'.own = cb.own
    BY <1>d, <2>1, ZenonT(40) DEF BtInv
  <2>3. server' = server
    BY <1>a, SMTT(30) DEF AroundIs
  <2> QED BY <1>a, <2>1, <2>2, <2>3, ZenonT(40) DEF BtInv, BtRuns, Mine, Undisturbed, AroundIs
<1>7. ASSUME server \in Followers PROVE FollowerInv'
  <2>1. FollowerInv
    BY <1>a, <1>7 DEF ServerInv
  <2>2. /\ cb' \in Callbacks(FollowerPlaces, FollowerOwn)
        /\ cb'.at = cb.at /\ cb'.job = cb.job /\ cb'.velocity = cb.velocity
        /\ cb'.kept = cb.kept /\ cb'.own = cb.own
    BY <1>d, <2>1, ZenonT(40) DEF FollowerInv
  <2>3. cb.at \in {"empty"} \cup FollowerStarts \cup FollowerCounts => current' \in {current, None}
    BY <1>a, SMTT(30) DEF FollowerStarts, FollowerCounts, FollowerLoops, AroundIs
  <2>4. deactivations' = 0 => deactivations = 0
    BY <1>a DEF AroundIs
  <2> QED BY <2>1, <2>2, <2>3, <2>4, ZenonT(40) DEF FollowerInv, FollowerAt, Undisturbed
<1> QED BY <1>1, <1>2, <1>3, <1>4, <1>5, <1>6, <1>7, SMTT(30)

\* The controller server: its publisher is on while the node is not inactive, and its
\* on_deactivate sends a stop command before it goes off.
LEMMA AroundControllers ==
  ASSUME NavInv, Around, server \in Controllers
  PROVE  ControllerInv'
<1> DEFINE C == Callbacks(ControllerPlaces, ControllerOwn)
<1>a. /\ AroundIs /\ LifeInv /\ (cb.at # "off" <=> worker = "callback")
      /\ ControllerInv /\ cb \in C
  BY AroundHolds, AtIs, ZenonT(40) DEF NavInv, ServerInv, ControllerInv
<1>1. CASE NavActivate
  <2> DEFINE c == [cb EXCEPT !.gate = TRUE]
  <2>1. cb' = c /\ lifecycle = "inactive" /\ lifecycle' = "active" /\ cb.at = "off"
    BY <1>a, <1>1, SMTT(30) DEF NavActivate, Activate, LifeInv
  <2>2. c \in C /\ c.at = cb.at /\ c.velocity = cb.velocity /\ c.gate /\ c.own = cb.own
    BY <1>a, Zenon DEF Callbacks
  <2> HIDE DEF c
  <2> QED BY <1>a, <2>1, <2>2, ZenonT(40) DEF ControllerInv, ControllerLoops
<1>2. CASE NavDeactivateEnd
  <2> DEFINE d == Publish(cb, "zero")
             c == [d EXCEPT !.gate = FALSE]
  <2>1. cb' = c
    BY <1>2, SMTT(30) DEF NavDeactivateEnd, Controllers, Behaviors, Moves, Drives
  <2>2. lifecycle = "deactivating" /\ lifecycle' = "inactive" /\ worker # "callback" /\ cb.gate
    BY <1>a, <1>2, SMTT(30) DEF NavDeactivateEnd, DeactivateEnd, is_running, ControllerInv
  <2>3. d \in C /\ d.at = cb.at /\ d.velocity = "zero"
    BY <1>a, <2>2, PublishIs, SMTT(30)
  <2> HIDE DEF d
  <2>4. c \in C /\ c.at = cb.at /\ c.velocity = "zero" /\ ~c.gate
    BY <2>3, Zenon DEF Callbacks
  <2> HIDE DEF c
  <2> QED BY <1>a, <2>1, <2>2, <2>4, Zenon DEF ControllerInv, ControllerLoops
<1>3. CASE ~NavActivate /\ ~NavDeactivateEnd
  <2>1. cb' = cb
    BY <1>3 DEF Around, navVars, NavDeactivateBegin, Controllers, Behaviors, Moves, Drives
  <2>2. lifecycle' = lifecycle \/ (lifecycle = "active" /\ lifecycle' = "deactivating")
    <3>1. CASE ExecutorNext
      BY <3>1, SMTT(30) DEF ExecutorNext, SendGoal, HandleGoal, HandleCancel, HandleAccepted, lifeVars
    <3>2. CASE DeactivateDeadline \/ WorkReturned \/ WorkExit
      BY <3>2, SMTT(30) DEF DeactivateDeadline, WorkReturned, WorkExit, lifeVars
    <3>3. CASE UNCHANGED navVars
      BY <3>3 DEF navVars, serverVars
    <3>4. CASE NavDeactivateBegin
      BY <3>4, SMTT(30) DEF NavDeactivateBegin, DeactivateBegin
    <3> QED BY <1>3, <3>1, <3>2, <3>3, <3>4, SMTT(30) DEF Around
  <2>3. cb.at # "off" => worker = "callback"
    BY <1>a
  <2> QED BY <1>a, <2>1, <2>2, <2>3, ZenonT(40) DEF ControllerInv, ControllerLoops, Mine, Undisturbed, AroundIs
<1> QED BY <1>1, <1>2, <1>3, SMTT(30)

\* The behaviors: the publisher goes off when a deactivation begins.
LEMMA AroundBehaviors ==
  ASSUME NavInv, Around, server \in Behaviors
  PROVE  BehaviorInv'
<1> DEFINE C == Callbacks(BehaviorPlaces, BehaviorOwn)
<1>a. /\ AroundIs /\ LifeInv /\ (cb.at # "off" <=> worker = "callback")
      /\ BehaviorInv /\ cb \in C /\ deactivations \in Nat /\ cb.own \in BehaviorOwn
  <2>1. AroundIs /\ (cb.at # "off" <=> worker = "callback")
    BY AroundHolds, AtIs, SMTT(30)
  <2>2. LifeInv /\ BehaviorInv
    BY SMTT(30) DEF NavInv, ServerInv
  <2>3. cb \in C
    BY <2>2 DEF BehaviorInv
  <2>4. cb.own \in BehaviorOwn
    BY ONLY <2>3, SMTT(30) DEF Callbacks
  <2>5. deactivations \in Nat
    BY BoundAssumption, SMTT(30) DEF NavInv, IInv, TypeOK
  <2> QED BY <2>1, <2>2, <2>3, <2>4, <2>5, SMTT(30)
<1>1. CASE NavActivate
  <2> DEFINE c == [cb EXCEPT !.gate = TRUE]
  <2>1. cb' = c /\ lifecycle = "inactive" /\ cb.at = "off" /\ UNCHANGED deactivations
    BY <1>a, <1>1 DEF NavActivate, Activate, LifeInv
  <2>2. c \in C /\ c.at = cb.at /\ c.velocity = cb.velocity /\ c.gate /\ c.own = cb.own
    BY <1>a, Zenon DEF Callbacks
  <2> HIDE DEF c
  <2> QED BY <1>a, <2>1, <2>2, Zenon
          DEF BehaviorInv, BehaviorWork, BehaviorLoops, Undisturbed, AroundIs
<1>2. CASE NavDeactivateBegin
  <2> DEFINE c == [cb EXCEPT !.gate = FALSE]
  <2>1. cb' = c /\ deactivations' # 0
    BY <1>a, <1>2, SMTT(30) DEF NavDeactivateBegin, DeactivateBegin
  <2>2. c \in C /\ c.at = cb.at /\ c.velocity = cb.velocity /\ c.job = cb.job /\ c.own = cb.own
    BY <1>a, Zenon DEF Callbacks
  <2> HIDE DEF c
  <2> QED BY <1>a, <2>1, <2>2, Zenon
          DEF BehaviorInv, BehaviorWork, BehaviorLoops, Mine, Undisturbed, AroundIs
<1>3. CASE NavDeactivateEnd
  <2> DEFINE c == [cb EXCEPT !.own.enabled = FALSE]
  <2>1. /\ cb' = c /\ cb.at = "off" /\ lifecycle' = "inactive" /\ UNCHANGED deactivations
    BY <1>a, <1>3, SMTT(30)
       DEF NavDeactivateEnd, DeactivateEnd, is_running, Controllers, Behaviors, Moves, Drives
  <2>2. c \in C /\ c.at = cb.at /\ c.velocity = cb.velocity /\ c.own.lost = cb.own.lost
    BY <1>a, Zenon DEF Callbacks, BehaviorOwn
  <2> HIDE DEF c
  <2> QED BY <1>a, <2>1, <2>2, Zenon
          DEF BehaviorInv, BehaviorWork, BehaviorLoops, Undisturbed, AroundIs
<1>4. CASE ~NavActivate /\ ~NavDeactivateBegin /\ ~NavDeactivateEnd
  <2>1. cb' = cb
    BY <1>4, SMTT(30) DEF Around, navVars
  <2>2. lifecycle' = lifecycle
    <3>1. CASE ExecutorNext
      BY <3>1, SMTT(30) DEF ExecutorNext, SendGoal, HandleGoal, HandleCancel, HandleAccepted, lifeVars
    <3>2. CASE DeactivateDeadline \/ WorkReturned \/ WorkExit
      BY <3>2, SMTT(30) DEF DeactivateDeadline, WorkReturned, WorkExit, lifeVars
    <3>3. CASE UNCHANGED navVars
      BY <3>3, SMTT(30) DEF navVars, serverVars
    <3> QED BY <1>4, <3>1, <3>2, <3>3, SMTT(30) DEF Around
  <2> QED BY <1>a, <2>1, <2>2, Zenon
          DEF BehaviorInv, BehaviorWork, BehaviorLoops, Mine, Undisturbed, AroundIs
<1> QED BY <1>1, <1>2, <1>3, <1>4, SMTT(30)

\* A step around the callback keeps the invariant.
LEMMA AroundKeeps ==
  ASSUME NavInv, Around
  PROVE  NavInv'
<1>1. /\ AroundIs /\ IInv /\ CallbackInv /\ (cb.at # "off" <=> worker = "callback")
      /\ SuccessIsOwn /\ server \in Servers
  BY AroundHolds, AtIs, SMTT(30) DEF NavInv, CallbackInv
<1>2. ServerInv'
  <2>1. server' = server
    BY <1>1, SMTT(30) DEF AroundIs
  <2> QED BY <2>1, AroundPathServers, AroundControllers, AroundBehaviors, SMTT(30)
          DEF ServerInv, Planners, RoomPlanners, Smoothers, Routers, Docks, Navigators,
              PoseNavigators, Followers, Controllers, Behaviors, Moves, Drives
<1>3. IInv' /\ LifeInv'
  BY <1>1, NextIInv DEF AroundIs
<1>4. cb'.at = cb.at /\ cb'.kept = cb.kept
  <2>1. \E P, O : cb \in Callbacks(P, O)
    BY ServersAssumption, Zenon
       DEF NavInv, CallbackInv, ServerInv, AllServers, PlannerInv, RoomInv, SmootherInv, RouteInv,
           DockInv, BtInv, FollowerInv, ControllerInv, BehaviorInv
  <2>2. PICK P, O : cb \in Callbacks(P, O)
    BY <2>1
  <2>3. ASSUME NEW b
        PROVE  [cb EXCEPT !.gate = b].at = cb.at /\ [cb EXCEPT !.gate = b].kept = cb.kept
    BY <2>2 DEF Callbacks
  <2>4. ASSUME NEW b
        PROVE  /\ [cb EXCEPT !.own.enabled = b].at = cb.at
               /\ [cb EXCEPT !.own.enabled = b].kept = cb.kept
    BY <2>2 DEF Callbacks
  <2>5. ASSUME NEW b
        PROVE  /\ [Publish(cb, "zero") EXCEPT !.gate = b].at = cb.at
               /\ [Publish(cb, "zero") EXCEPT !.gate = b].kept = cb.kept
    <3> DEFINE d == Publish(cb, "zero")
    <3>1. d \in Callbacks(P, O) /\ d.at = cb.at /\ d.kept = cb.kept
      BY <2>2, PublishIs, SMTT(30)
    <3> HIDE DEF d
    <3>2. [d EXCEPT !.gate = b].at = cb.at /\ [d EXCEPT !.gate = b].kept = cb.kept
      BY <3>1 DEF Callbacks
    <3> QED BY <3>2, SMTT(30) DEF d
  <2>6. \/ cb' = cb \/ cb' = [cb EXCEPT !.gate = TRUE] \/ cb' = [cb EXCEPT !.gate = FALSE]
        \/ cb' = [cb EXCEPT !.own.enabled = FALSE] \/ cb' = [Publish(cb, "zero") EXCEPT !.gate = FALSE]
    BY SMTT(30) DEF Around, navVars, NavActivate, NavDeactivateBegin, NavDeactivateEnd
  <2> QED BY <2>3, <2>4, <2>5, <2>6, ZenonT(40)
<1>5. SuccessIsOwn'
  BY <1>1, <1>4, SuccessKept, ZenonT(40) DEF AroundIs
<1>6. CallbackInv'
  BY <1>1, <1>4, SMTT(30) DEF AroundIs, CallbackInv
<1> QED BY <1>2, <1>3, <1>5, <1>6, SMTT(30) DEF NavInv

-----------------------------------------------------------------------------
(* The worker enters and leaves the callback *)

\* What entering and leaving have in common.
Turns(own) ==
  /\ UNCHANGED <<handleVars, accepting, slotVars, lifeVars>> /\ server' = server
  /\ \/ cb.at = "off" /\ cb'.at \in {"off", "entry"} /\ cb'.job = cb.job /\ cb'.own = cb.own
     \/ cb.at = "return" /\ cb'.at = "off" /\ cb'.job = None /\ cb'.own = own
  /\ cb'.at = "entry" => current # None /\ lifecycle = "active"
  /\ cb'.at = "off" <=> worker' # "callback"
  /\ cb'.velocity = cb.velocity /\ cb'.gate = cb.gate /\ cb'.kept = cb.kept
  /\ worker \in {"test", "callback"}

\* They change the place, and what is left of the callback's data.
LEMMA TurnIs ==
  ASSUME NavInv, NEW P, NEW O, cb \in Callbacks(P, O), {"off", "entry"} \subseteq P, NEW own \in O,
         EnterCallback \/ LeaveCallback(own)
  PROVE  cb' \in Callbacks(P, O) /\ Turns(own)
<1>i. LifeInv /\ IInv /\ (cb.at = "off" <=> worker # "callback")
  BY SMTT(30) DEF NavInv, CallbackInv
<1>1. CASE EnterCallback
  <2>1. /\ worker = "test" /\ UNCHANGED <<handleVars, accepting, slotVars, lifeVars>>
        /\ server' = server /\ worker' \in {"callback", "exit"}
        /\ worker' = "callback" => current # None /\ ~stop_execution
        /\ cb' = IF worker' = "callback" THEN Goto("entry") ELSE cb
    BY <1>1, SMTT(30) DEF EnterCallback, WorkTest, is_active
  <2>2. worker' = "callback" => lifecycle = "active"
    BY <1>i, <2>1, SMTT(30) DEF LifeInv, IInv, TypeOK
  <2>3. Goto("entry") \in Callbacks(P, O) /\ Moved(Goto("entry"), "entry")
    BY GotoIs, SMTT(30)
  <2> QED BY <1>i, <2>1, <2>2, <2>3, SMTT(30) DEF Turns, Moved
<1>2. CASE LeaveCallback(own)
  <2> DEFINE c == [cb EXCEPT !.at = "off", !.job = None, !.own = own]
  <2>1. /\ cb.at = "return" /\ worker = "callback" /\ worker' = "returned"
        /\ UNCHANGED <<handleVars, accepting, slotVars, lifeVars>>
        /\ server' = server /\ cb' = c
    BY <1>2 DEF LeaveCallback, CallbackReturn
  <2>2. /\ c \in Callbacks(P, O) /\ c.at = "off" /\ c.job = None /\ c.own = own
        /\ c.velocity = cb.velocity /\ c.gate = cb.gate /\ c.kept = cb.kept
    BY ZenonT(40) DEF Callbacks
  <2> HIDE DEF c
  <2> QED BY <2>1, <2>2 DEF Turns
<1> QED BY <1>1, <1>2, SMTT(30)

\* The follower's data when the node is created.
LEMMA FollowerInitIs ==
  FollowerInitOwn \in FollowerOwn /\ FollowerInitOwn.late = [responses |-> 0, results |-> 0]
<1> DEFINE l == [responses |-> 0, results |-> 0]
<1>1. l \in [responses : 0..MaxLate, results : 0..MaxLate] /\ 0 \in 0..Waypoints /\ 0 \in 0..MaxLoops
  BY WaypointsAssumption, SMTT(30)
<1>2. FollowerInitOwn =
        [poses |-> 0, index |-> 0, first |-> 0, loop |-> 0, fresh |-> FALSE, status |-> "PROCESSING",
         sent |-> "none", open |-> FALSE, late |-> l, missed |-> {}, reached |-> {}]
  BY ZenonT(40) DEF FollowerInitOwn
<1> HIDE DEF l
<1>3. FollowerInitOwn \in FollowerOwn /\ FollowerInitOwn.late = l
  BY <1>1, <1>2, ZenonT(40) DEF FollowerOwn, SentStates
<1> QED BY <1>3, Zenon DEF l

Turn ==
  EnterCallback \/ LeaveCallback(IF server \in Followers THEN FollowerMembers ELSE cb.own)

\* The server's invariant holds at the entry and outside the callback.
LEMMA TurnServers ==
  ASSUME NavInv, Turn
  PROVE  ServerInv' /\ \E own : Turns(own)
<1>s. ServerInv /\ server \in AllServers
  BY ServersAssumption DEF NavInv, CallbackInv
<1>n. server \notin Followers => EnterCallback \/ LeaveCallback(cb.own)
  BY SMTT(30) DEF Turn
<1>1. ASSUME server \in Planners PROVE PlannerInv' /\ Turns(cb.own)
  <2>1. PlannerInv /\ server \notin Followers
    BY <1>s, <1>1, SMTT(30) DEF ServerInv, Planners, Followers
  <2>2. /\ cb \in Callbacks(PlannerPlaces, PlannerOwn) /\ cb.own \in PlannerOwn
        /\ {"off", "entry"} \subseteq PlannerPlaces
    BY <2>1, SMTT(30) DEF PlannerInv, PlannerPlaces, Callbacks
  <2>3. cb' \in Callbacks(PlannerPlaces, PlannerOwn) /\ Turns(cb.own)
    BY <1>n, <2>1, <2>2, TurnIs, SMTT(30)
  <2> QED BY <2>1, <2>3, ZenonT(40) DEF PlannerInv, PlannerWork, Turns
<1>2. ASSUME server \in RoomPlanners PROVE RoomInv' /\ Turns(cb.own)
  <2>1. RoomInv /\ server \notin Followers
    BY <1>s, <1>2, SMTT(30) DEF ServerInv, RoomPlanners, Followers
  <2>2. /\ cb \in Callbacks(RoomPlaces, RoomOwn) /\ cb.own \in RoomOwn
        /\ {"off", "entry"} \subseteq RoomPlaces
    BY <2>1, SMTT(30) DEF RoomInv, RoomPlaces, Callbacks
  <2>3. cb' \in Callbacks(RoomPlaces, RoomOwn) /\ Turns(cb.own)
    BY <1>n, <2>1, <2>2, TurnIs
  <2> QED BY <2>1, <2>3, Zenon DEF RoomInv, RoomWork, Turns
<1>3. ASSUME server \in Smoothers PROVE SmootherInv' /\ Turns(cb.own)
  <2>1. SmootherInv /\ server \notin Followers
    BY <1>s, <1>3, SMTT(30) DEF ServerInv, Smoothers, Followers
  <2>2. /\ cb \in Callbacks(SmootherPlaces, SmootherOwn) /\ cb.own \in SmootherOwn
        /\ {"off", "entry"} \subseteq SmootherPlaces
    BY <2>1, SMTT(30) DEF SmootherInv, SmootherPlaces, Callbacks
  <2>3. cb' \in Callbacks(SmootherPlaces, SmootherOwn) /\ Turns(cb.own)
    BY <1>n, <2>1, <2>2, TurnIs
  <2> QED BY <2>1, <2>3, SMTT(30) DEF SmootherInv, Turns
<1>4. ASSUME server \in Routers PROVE RouteInv' /\ Turns(cb.own)
  <2>1. RouteInv /\ server \notin Followers
    BY <1>s, <1>4, SMTT(30) DEF ServerInv, Routers, Followers
  <2>2. /\ cb \in Callbacks(RoutePlaces, RouteOwn) /\ cb.own \in RouteOwn
        /\ {"off", "entry"} \subseteq RoutePlaces
    BY <2>1, SMTT(30) DEF RouteInv, RoutePlaces, Callbacks
  <2>3. cb' \in Callbacks(RoutePlaces, RouteOwn) /\ Turns(cb.own)
    BY <1>n, <2>1, <2>2, TurnIs
  <2> QED BY <2>1, <2>3, Zenon DEF RouteInv, RouteWork, Turns
<1>5. ASSUME server \in Docks PROVE DockInv' /\ Turns(cb.own)
  <2>1. DockInv /\ server \notin Followers
    BY <1>s, <1>5, SMTT(30) DEF ServerInv, Docks, Followers
  <2>2. /\ cb \in Callbacks(DockPlaces, DockOwn) /\ cb.own \in DockOwn
        /\ {"off", "entry"} \subseteq DockPlaces
    BY <2>1, SMTT(30) DEF DockInv, DockPlaces, Callbacks
  <2>3. cb' \in Callbacks(DockPlaces, DockOwn) /\ Turns(cb.own)
    BY <1>n, <2>1, <2>2, TurnIs
  <2> QED BY <2>1, <2>3, Zenon
          DEF DockInv, DockWork, DockHolds, DockDrives, UndockDrives, Turns, slotVars, lifeVars
<1>6. ASSUME server \in Navigators PROVE BtInv' /\ Turns(cb.own)
  <2>1. BtInv /\ server \notin Followers
    BY <1>s, <1>6, SMTT(30) DEF ServerInv, Navigators, PoseNavigators, Followers
  <2>2. /\ cb \in Callbacks(BtPlaces, BtOwn) /\ cb.own \in BtOwn
        /\ {"off", "entry"} \subseteq BtPlaces
    BY <2>1, SMTT(30) DEF BtInv, BtPlaces, Callbacks
  <2>3. cb' \in Callbacks(BtPlaces, BtOwn) /\ Turns(cb.own)
    BY <1>n, <2>1, <2>2, TurnIs
  <2> QED BY <2>1, <2>3, ZenonT(40) DEF BtInv, BtRuns, Turns
<1>7. ASSUME server \in Controllers PROVE ControllerInv' /\ Turns(cb.own)
  <2>1. ControllerInv /\ server \notin Followers
    BY <1>s, <1>7, SMTT(30) DEF ServerInv, Controllers, Followers
  <2>2. /\ cb \in Callbacks(ControllerPlaces, ControllerOwn) /\ cb.own \in ControllerOwn
        /\ {"off", "entry"} \subseteq ControllerPlaces
    BY <2>1, SMTT(30) DEF ControllerInv, ControllerPlaces, Callbacks
  <2>3. cb' \in Callbacks(ControllerPlaces, ControllerOwn) /\ Turns(cb.own)
    BY <1>n, <2>1, <2>2, TurnIs
  <2> QED BY <2>1, <2>3, Zenon DEF ControllerInv, ControllerLoops, Turns, slotVars, lifeVars
<1>8. ASSUME server \in Behaviors PROVE BehaviorInv' /\ Turns(cb.own)
  <2>1. BehaviorInv /\ server \notin Followers
    BY <1>s, <1>8, SMTT(30) DEF ServerInv, Behaviors, Moves, Drives, Followers
  <2>2. /\ cb \in Callbacks(BehaviorPlaces, BehaviorOwn) /\ cb.own \in BehaviorOwn
        /\ {"off", "entry"} \subseteq BehaviorPlaces
    BY <2>1, SMTT(30) DEF BehaviorInv, BehaviorPlaces, Callbacks
  <2>3. cb' \in Callbacks(BehaviorPlaces, BehaviorOwn) /\ Turns(cb.own)
    BY <1>n, <2>1, <2>2, TurnIs
  <2> QED BY <2>1, <2>3, ZenonT(40)
          DEF BehaviorInv, BehaviorWork, BehaviorLoops, Turns, slotVars, lifeVars, Undisturbed
<1>9. ASSUME server \in Followers PROVE FollowerInv' /\ Turns(FollowerMembers)
  <2>1. FollowerInv
    BY <1>s, <1>9, SMTT(30) DEF ServerInv
  <2>2. /\ cb \in Callbacks(FollowerPlaces, FollowerOwn) /\ cb.own \in FollowerOwn
        /\ {"off", "entry"} \subseteq FollowerPlaces
    BY <2>1, SMTT(30) DEF FollowerInv, FollowerPlaces, Callbacks
  <2> DEFINE s == cb.own.status
             t == cb.own.sent
             e == cb.own.open
             l == cb.own.late
             w == [FollowerInitOwn EXCEPT !.status = s, !.sent = t]
             m == [w EXCEPT !.open = e, !.late = l]
  <2>4. /\ s \in {"PROCESSING", "SUCCEEDED", "FAILED"} /\ t \in SentStates /\ e \in BOOLEAN
        /\ l \in [responses : 0..MaxLate, results : 0..MaxLate]
        /\ 0 \in 0..Waypoints /\ 0 \in 0..MaxLoops
    BY <2>2, FollowerTypes, ZenonT(40) DEF FollowerOwn
  <2>5. l.responses + l.results <= MaxLate
    BY <2>1, Zenon DEF FollowerInv, FollowerAt
  <2>3. FollowerMembers = m
    BY DEF FollowerMembers
  <2> HIDE DEF s, t, e, l
  <2>w. w \in FollowerOwn
    BY <2>4, FollowerInitIs, Zenon DEF FollowerOwn
  <2> HIDE DEF w
  <2>6. m \in FollowerOwn /\ m.late = l
    BY <2>4, <2>w, ZenonT(40) DEF FollowerOwn
  <2> HIDE DEF m
  <2>7. EnterCallback \/ LeaveCallback(m)
    BY <1>9, <2>3, SMTT(30) DEF Turn
  <2>8. cb' \in Callbacks(FollowerPlaces, FollowerOwn) /\ Turns(m)
    BY <2>2, <2>6, <2>7, TurnIs, SMTT(30)
  <2>9. cb'.own.late.responses + cb'.own.late.results <= MaxLate /\ cb'.velocity = "zero"
    BY <2>1, <2>5, <2>6, <2>8, ZenonT(40) DEF FollowerInv, FollowerAt, Turns
  <2>10. FollowerAt(cb)'
    BY <2>8, <2>9, ZenonT(40) DEF FollowerAt, FollowerCounts, FollowerLoops, FollowerStarts, Turns
  <2> QED BY <2>3, <2>8, <2>10, SMTT(30) DEF FollowerInv
<1>10. (\E own : Turns(own)) /\ server' = server
  BY <1>s, <1>1, <1>2, <1>3, <1>4, <1>5, <1>6, <1>7, <1>8, <1>9, ZenonT(40) DEF AllServers, Turns
<1> QED BY <1>1, <1>2, <1>3, <1>4, <1>5, <1>6, <1>7, <1>8, <1>9, <1>10, SMTT(30) DEF ServerInv

\* The worker thread enters or leaves the callback.
LEMMA TurnKeeps ==
  ASSUME NavInv, Turn
  PROVE  NavInv' /\ [Next]_serverVars
<1>1. /\ IInv /\ LifeInv /\ CallbackInv /\ SuccessIsOwn
  BY DEF NavInv
<1>2. PICK own : Turns(own)
  BY TurnServers
<1>3. [Next]_serverVars
  BY DEF Turn, EnterCallback, LeaveCallback, Next, LoopNext, CallbackNext
<1>4. IInv'
  BY <1>1, <1>3, NextIInv, SMTT(30)
<1>5. LifeInv' /\ CallbackInv'
  BY <1>1, <1>2, ZenonT(40) DEF LifeInv, CallbackInv, Turns, slotVars, lifeVars
<1>6. NoNewSuccess
  BY <1>2, ZenonT(40) DEF Turns, handleVars, NoNewSuccess
<1>7. SuccessIsOwn'
  BY <1>1, <1>2, <1>6, SuccessKept, SMTT(30) DEF Turns
<1>8. ServerInv'
  BY TurnServers, SMTT(30)
<1> QED BY <1>3, <1>4, <1>5, <1>7, <1>8, SMTT(30) DEF NavInv

-----------------------------------------------------------------------------
(* Steps beside the callback that change its data *)

\* What they leave alone.
Beside ==
  /\ server' = server /\ UNCHANGED serverVars
  /\ cb'.at = cb.at /\ cb'.job = cb.job /\ cb'.velocity = cb.velocity /\ cb'.gate = cb.gate
  /\ cb'.kept = cb.kept

\* Such a step keeps the invariant if it keeps its server's.
LEMMA BesideKeeps ==
  ASSUME NavInv, Beside, ServerInv'
  PROVE  NavInv' /\ [Next]_serverVars
<1>1. IInv /\ LifeInv /\ CallbackInv /\ SuccessIsOwn
  BY SMTT(30) DEF NavInv
<1>2. [Next]_serverVars
  BY DEF Beside
<1>3. IInv'
  BY <1>1, <1>2, NextIInv, SMTT(30)
<1>4. LifeInv' /\ CallbackInv' /\ NoNewSuccess
  BY <1>1, ZenonT(40) DEF LifeInv, CallbackInv, Beside, serverVars, NoNewSuccess
<1>5. SuccessIsOwn'
  BY <1>1, <1>4, SuccessKept, SMTT(30) DEF Beside
<1> QED BY <1>2, <1>3, <1>4, <1>5, SMTT(30) DEF NavInv

\* setRouteGraph replaces the graph under a running computeRoute.
LEMMA SetRouteGraphKeeps ==
  ASSUME NavInv, SetRouteGraph
  PROVE  NavInv' /\ [Next]_serverVars
<1> DEFINE C == Callbacks(RoutePlaces, RouteOwn)
<1>1. RouteInv /\ server \in Routers /\ cb \in C /\ cb.own \in RouteOwn
  BY DEF NavInv, ServerInv, SetRouteGraph, RouteInv, Callbacks
<1>2. PICK g \in {"loaded", "empty"} :
        Local([cb EXCEPT !.own.graph = g, !.own.route = FALSE, !.own.loads = 1])
  BY Zenon DEF SetRouteGraph
<1> DEFINE o == [cb.own EXCEPT !.graph = g, !.route = FALSE, !.loads = 1]
           c == [cb EXCEPT !.own = o]
<1>3. [cb EXCEPT !.own.graph = g, !.own.route = FALSE, !.own.loads = 1] = c
  BY <1>1, Zenon DEF Callbacks, RouteOwn
<1>n. 1 \in 0..1
  OBVIOUS
<1>4. o \in RouteOwn /\ o.blocked = cb.own.blocked
  BY <1>1, <1>n, ZenonT(40) DEF RouteOwn
<1> HIDE DEF o
<1>5. /\ c \in C /\ c.at = cb.at /\ c.job = cb.job /\ c.velocity = cb.velocity /\ c.gate = cb.gate
      /\ c.kept = cb.kept /\ c.own = o
  BY <1>1, <1>4 DEF Callbacks
<1>6. Local(c)
  BY <1>2, <1>3
<1> HIDE DEF c
<1>7. Beside /\ cb' = c
  BY <1>5, <1>6, Zenon DEF Local, Beside
<1>8. RouteInv'
  BY <1>1, <1>4, <1>5, <1>7, ZenonT(40) DEF RouteInv, Beside, Mine, Undisturbed, serverVars
<1>9. ServerInv'
  BY <1>1, <1>7, <1>8, ZenonT(40)
     DEF Beside, ServerInv, Planners, RoomPlanners, Smoothers, Routers, Docks, Navigators,
         PoseNavigators, Followers, Controllers, Behaviors, Moves, Drives
<1> QED BY <1>7, <1>9, BesideKeeps, SMTT(30)

\* TimedBehavior::activate sets enabled_ while the worker may already run.
LEMMA BehaviorEnableKeeps ==
  ASSUME NavInv, BehaviorEnable
  PROVE  NavInv' /\ [Next]_serverVars
<1> DEFINE C == Callbacks(BehaviorPlaces, BehaviorOwn)
           o == [cb.own EXCEPT !.enabled = TRUE]
           c == [cb EXCEPT !.own = o]
<1>1. BehaviorInv /\ server \in Behaviors /\ cb \in C /\ cb.own \in BehaviorOwn
  BY DEF NavInv, ServerInv, BehaviorEnable, BehaviorInv, Callbacks
<1>3. [cb EXCEPT !.own.enabled = TRUE] = c
  BY <1>1 DEF Callbacks, BehaviorOwn
<1>4. o \in BehaviorOwn /\ o.lost = cb.own.lost
  BY <1>1, ZenonT(40) DEF BehaviorOwn
<1> HIDE DEF o
<1>5. /\ c \in C /\ c.at = cb.at /\ c.job = cb.job /\ c.velocity = cb.velocity /\ c.gate = cb.gate
      /\ c.kept = cb.kept /\ c.own = o
  BY <1>1, <1>4, SMTT(30) DEF Callbacks
<1>6. Local(c)
  BY <1>3 DEF BehaviorEnable
<1> HIDE DEF c
<1>7. Beside /\ cb' = c
  BY <1>5, <1>6, Zenon DEF Local, Beside
<1>8. BehaviorInv'
  BY <1>1, <1>4, <1>5, <1>7, ZenonT(40) DEF BehaviorInv, Beside, Mine, Undisturbed, serverVars
<1>9. ServerInv'
  BY <1>1, <1>7, <1>8, SMTT(30)
     DEF Beside, ServerInv, Planners, RoomPlanners, Smoothers, Routers, Docks, Navigators,
         PoseNavigators, Followers, Controllers, Behaviors, Moves, Drives
<1> QED BY <1>7, <1>9, BesideKeeps, SMTT(30)

\* The other navigator takes and frees the muxer.
LEMMA OtherNavigatorKeeps ==
  ASSUME NavInv, OtherNavigator
  PROVE  NavInv' /\ [Next]_serverVars
<1> DEFINE C == Callbacks(BtPlaces, BtOwn)
<1>1. BtInv /\ server \in Navigators /\ cb \in C /\ cb.own \in BtOwn
  BY Zenon DEF NavInv, ServerInv, OtherNavigator, BtInv, Callbacks
<1>2. ASSUME NEW o \in BtOwn, Local([cb EXCEPT !.own = o]), o.asked = cb.own.asked, o.rc = cb.own.rc,
             o.muxer = "this" => cb.own.muxer = "this", o.muxer = "other" => o.other = "navigating"
      PROVE  NavInv' /\ [Next]_serverVars
  <2> DEFINE c == [cb EXCEPT !.own = o]
  <2>1. /\ c \in C /\ c.at = cb.at /\ c.job = cb.job /\ c.velocity = cb.velocity
        /\ c.gate = cb.gate /\ c.kept = cb.kept /\ c.own = o
    BY <1>1 DEF Callbacks
  <2>2. Local(c)
    BY <1>2, SMTT(30)
  <2> HIDE DEF c
  <2>3. Beside /\ cb' = c
    BY <2>1, <2>2, SMTT(30) DEF Local, Beside
  <2>4. BtInv'
    BY <1>1, <1>2, <2>1, <2>3, SMTT(30) DEF BtInv, Beside, Mine, Undisturbed, serverVars
  <2>5. ServerInv'
    BY <1>1, <2>3, <2>4, SMTT(30)
       DEF Beside, ServerInv, Planners, RoomPlanners, Smoothers, Routers, Docks, Navigators,
           PoseNavigators, Followers, Controllers, Behaviors, Moves, Drives
  <2> QED BY <2>3, <2>5, BesideKeeps, SMTT(30)
<1>3. ASSUME NEW v \in {"checked", "off"}, cb.own.muxer # "other", Local([cb EXCEPT !.own.other = v])
      PROVE  NavInv' /\ [Next]_serverVars
  <2> DEFINE o == [cb.own EXCEPT !.other = v]
  <2>1. [cb EXCEPT !.own.other = v] = [cb EXCEPT !.own = o]
    BY <1>1, Zenon DEF Callbacks, BtOwn
  <2>2. /\ o \in BtOwn /\ o.asked = cb.own.asked /\ o.rc = cb.own.rc /\ o.muxer = cb.own.muxer
        /\ o.other = v
    BY <1>1, Zenon DEF BtOwn
  <2>3. Local([cb EXCEPT !.own = o])
    BY <1>3, <2>1, SMTT(30)
  <2> HIDE DEF o
  <2> QED BY <1>2, <1>3, <2>2, <2>3, SMTT(30)
<1>4. ASSUME NEW v \in {"navigating", "off"}, NEW m \in {"", "this", "other"},
             m = "this" => cb.own.muxer = "this", m = "other" => v = "navigating",
             Local([cb EXCEPT !.own.other = v, !.own.muxer = m])
      PROVE  NavInv' /\ [Next]_serverVars
  <2> DEFINE o == [cb.own EXCEPT !.other = v, !.muxer = m]
  <2>1. [cb EXCEPT !.own.other = v, !.own.muxer = m] = [cb EXCEPT !.own = o]
    BY <1>1, Zenon DEF Callbacks, BtOwn
  <2>2. /\ o \in BtOwn /\ o.asked = cb.own.asked /\ o.rc = cb.own.rc /\ o.muxer = m
        /\ o.other = v
    BY <1>1, Zenon DEF BtOwn
  <2>3. Local([cb EXCEPT !.own = o])
    BY <1>4, <2>1, Zenon
  <2> HIDE DEF o
  <2> QED BY <1>2, <1>4, <2>2, <2>3, ZenonT(40)
<1>5. CASE cb.own.other = "off" /\ cb.own.muxer = "" /\ Local([cb EXCEPT !.own.other = "checked"])
  BY <1>3, <1>5, Zenon
<1>6. CASE cb.own.other = "checked" /\ Local([cb EXCEPT !.own.other = "off"])
  BY <1>1, <1>3, <1>6, SMTT(30) DEF BtInv
<1>7. CASE /\ cb.own.other = "checked"
           /\ Local([cb EXCEPT !.own.other = "navigating", !.own.muxer = "other"])
  BY <1>4, <1>7, SMTT(30)
<1>8. CASE /\ cb.own.other = "navigating"
           /\ Local([cb EXCEPT !.own.other = "off",
                               !.own.muxer = IF @ = "other" THEN "" ELSE @])
  <2> DEFINE m == IF cb.own.muxer = "other" THEN "" ELSE cb.own.muxer
  <2>1. m \in {"", "this", "other"} /\ m # "other" /\ (m = "this" => cb.own.muxer = "this")
    BY <1>1, Zenon DEF BtOwn
  <2>2. [cb EXCEPT !.own.other = "off", !.own.muxer = IF @ = "other" THEN "" ELSE @] =
        [cb EXCEPT !.own.other = "off", !.own.muxer = m]
    BY <1>1, Zenon DEF Callbacks, BtOwn
  <2>3. Local([cb EXCEPT !.own.other = "off", !.own.muxer = m])
    BY <1>8, <2>2, SMTT(30)
  <2> HIDE DEF m
  <2> QED BY <1>4, <2>1, <2>3, ZenonT(40)
<1> QED BY <1>5, <1>6, <1>7, <1>8, ZenonT(40) DEF OtherNavigator

-----------------------------------------------------------------------------
(* The whole node *)

\* A step of the callback keeps the invariant.
LEMMA CallbackKeeps ==
  ASSUME NavInv, Callback
  PROVE  NavInv' /\ [Next]_serverVars
<1>1. IInv /\ LifeInv /\ CallbackInv /\ server \in AllServers
  BY ServersAssumption, SMTT(30) DEF NavInv, CallbackInv
<1>2. Goes /\ ServerInv'
  <2>1. server' = server /\ Goes
    BY PlannerStep, RoomStep, SmootherStep, RouteStep, ControllerStep, BehaviorStep, DockStep, BtStep,
       FollowerStep, ZenonT(40) DEF Callback, Goes
  <2> QED BY <1>1, <2>1, PlannerStep, RoomStep, SmootherStep, RouteStep, ControllerStep, BehaviorStep,
             DockStep, BtStep, FollowerStep, SMTT(30)
          DEF Callback, ServerInv, Planners, RoomPlanners, Smoothers, Routers, Docks, Navigators,
              PoseNavigators, Followers, Controllers, Behaviors, Moves, Drives
<1>3. [Next]_serverVars
  BY <1>2, SMTT(30) DEF Goes, Next, CallbackNext
<1>4. IInv'
  BY <1>1, <1>3, NextIInv, SMTT(30)
<1>5. LifeInv' /\ CallbackInv'
  BY <1>1, <1>2, SMTT(30) DEF LifeInv, CallbackInv, Goes, lifeVars
<1> QED BY <1>2, <1>3, <1>4, <1>5, SMTT(30) DEF NavInv, Goes

\* Every step keeps the invariant, and is a step of the action server.
LEMMA NextNavInv ==
  ASSUME NavInv, [NavNext]_navVars
  PROVE  NavInv' /\ [Next]_serverVars
<1>1. CASE Around
  BY <1>1, AroundKeeps, AroundHolds, SMTT(30) DEF AroundIs
<1>2. CASE Turn
  BY <1>2, TurnKeeps, SMTT(30)
<1>3. CASE Callback
  BY <1>3, CallbackKeeps, SMTT(30)
<1>4. CASE SetRouteGraph \/ BehaviorEnable \/ OtherNavigator
  BY <1>4, SetRouteGraphKeeps, BehaviorEnableKeeps, OtherNavigatorKeeps, SMTT(30)
<1> QED BY <1>1, <1>2, <1>3, <1>4, SMTT(30) DEF NavNext, WorkerNext, Around, Turn

\* A node that was just configured.
LEMMA InitNavInv ==
  ASSUME NavInit
  PROVE  NavInv
<1>1. IInv /\ LifeInv /\ server \in Servers /\ server \in AllServers
  BY InitIInv, ServersAssumption, SMTT(30) DEF NavInit, Init, LifeInv
<1>2. PICK own \in InitOwns(server) : cb = IdleCallback(own)
  BY SMTT(30) DEF NavInit
<1>3. /\ cb.at = "off" /\ cb.own = own /\ cb.velocity = "zero" /\ ~cb.gate /\ lifecycle = "inactive"
      /\ worker = "ready" /\ \A g \in Goals : handle[g] = "unsent"
  BY <1>2, SMTT(30) DEF IdleCallback, NavInit, Init
<1>4. ASSUME NEW P, NEW O, "off" \in P, own \in O PROVE cb \in Callbacks(P, O)
  BY <1>2, <1>4, SMTT(30) DEF IdleCallback, Callbacks
<1>5. CallbackInv /\ SuccessIsOwn
  BY <1>1, <1>3, SMTT(30) DEF CallbackInv, SuccessIsOwn
<1>6. ASSUME server \in Planners PROVE PlannerInv
  <2>1. 0 \in 0..MaxLegs
    BY LegsAssumption
  <2>2. own = PlannerInitOwn
    BY <1>6, SMTT(30) DEF InitOwns, Planners, RoomPlanners, Controllers, Smoothers, Behaviors, Moves, Drives,
                Followers, Docks, Routers
  <2>3. own \in PlannerOwn /\ "off" \in PlannerPlaces
    BY <2>1, <2>2, SMTT(30) DEF PlannerInitOwn, PlannerOwn, PlannerPlaces
  <2> QED BY <1>3, <1>4, <2>3, SMTT(30) DEF PlannerInv, PlannerWork
<1>7. ASSUME server \in RoomPlanners PROVE RoomInv
  <2>2. own = RoomInitOwn
    BY <1>7, SMTT(30) DEF InitOwns, Planners, RoomPlanners, Controllers, Smoothers, Behaviors, Moves, Drives,
                Followers, Docks, Routers
  <2>3. own \in RoomOwn /\ "off" \in RoomPlaces
    BY <2>2, SMTT(30) DEF RoomInitOwn, RoomOwn, RoomPlaces
  <2> QED BY <1>3, <1>4, <2>3, SMTT(30) DEF RoomInv, RoomWork
<1>8. ASSUME server \in Smoothers PROVE SmootherInv
  <2>2. own = SmootherInitOwn
    BY <1>8, SMTT(30) DEF InitOwns, Planners, RoomPlanners, Controllers, Smoothers, Behaviors, Moves, Drives,
                Followers, Docks, Routers
  <2>3. own \in SmootherOwn /\ "off" \in SmootherPlaces
    BY <2>2, SMTT(30) DEF SmootherInitOwn, SmootherOwn, SmootherPlaces
  <2> QED BY <1>3, <1>4, <2>3, SMTT(30) DEF SmootherInv
<1>9. ASSUME server \in Routers PROVE RouteInv
  <2>1. 0 \in 0..1
    OBVIOUS
  <2>2. own = RouteInitOwn
    BY <1>9, SMTT(30) DEF InitOwns, Planners, RoomPlanners, Controllers, Smoothers, Behaviors, Moves, Drives,
                Followers, Docks, Routers
  <2>3. own \in RouteOwn /\ "off" \in RoutePlaces
    BY <2>1, <2>2, SMTT(30) DEF RouteInitOwn, RouteOwn, RoutePlaces
  <2> QED BY <1>3, <1>4, <2>3, SMTT(30) DEF RouteInv, RouteWork
<1>10. ASSUME server \in Controllers PROVE ControllerInv
  <2>2. own = ControllerInitOwn
    BY <1>10, SMTT(30) DEF InitOwns, Planners, RoomPlanners, Controllers, Smoothers, Behaviors, Moves, Drives,
                Followers, Docks, Routers
  <2>3. own \in ControllerOwn /\ "off" \in ControllerPlaces
    BY <2>2, SMTT(30) DEF ControllerInitOwn, ControllerOwn, ControllerPlaces
  <2> QED BY <1>3, <1>4, <2>3, SMTT(30) DEF ControllerInv, ControllerLoops
<1>11. ASSUME server \in Behaviors PROVE BehaviorInv
  <2>2. own = BehaviorInitOwn
    BY <1>11, SMTT(30) DEF InitOwns, Planners, RoomPlanners, Controllers, Smoothers, Behaviors, Moves, Drives,
                Followers, Docks, Routers
  <2>3. own \in BehaviorOwn /\ "off" \in BehaviorPlaces
    BY <2>2, SMTT(30) DEF BehaviorInitOwn, BehaviorOwn, BehaviorPlaces
  <2> QED BY <1>3, <1>4, <2>3, SMTT(30) DEF BehaviorInv, BehaviorWork, BehaviorLoops
<1>12. ASSUME server \in Docks PROVE DockInv
  <2>1. 0 \in 0..MaxRetries + 1
    BY RetriesAssumption
  <2>2. own = DockInitOwn
    BY <1>12, SMTT(30) DEF InitOwns, Planners, RoomPlanners, Controllers, Smoothers, Behaviors, Moves, Drives,
                Followers, Docks, Routers
  <2>3. own \in DockOwn /\ "off" \in DockPlaces /\ own.dock = "null"
    BY <2>1, <2>2, SMTT(30) DEF DockInitOwn, DockOwn, DockPlaces
  <2> QED BY <1>3, <1>4, <2>3, Zenon DEF DockInv, DockWork, DockHolds, DockDrives, UndockDrives
<1>13. ASSUME server \in Navigators PROVE BtInv
  <2>1. own \in BtInitOwns
    BY <1>13 DEF InitOwns, Planners, RoomPlanners, Navigators, PoseNavigators,
                Controllers, Smoothers, Behaviors, Moves, Drives, Followers, Docks, Routers
  <2> DEFINE t == CHOOSE t \in Trees : TRUE
  <2>2. t \in Trees
    BY TreesAssumption, SMTT(30)
  <2>5. PICK f \in TreesOf : own = [muxer |-> "", other |-> "off", trees |-> f, tree |-> t,
                                   asked |-> None, rc |-> "FAILED"]
    BY <2>1, ZenonT(40) DEF BtInitOwns
  <2> HIDE DEF t
  <2>3. own \in BtOwn /\ own.muxer = ""
    BY <2>2, <2>5, Zenon DEF BtOwn
  <2>4. "off" \in BtPlaces
    BY SMTT(30) DEF BtPlaces
  <2> QED BY <1>3, <1>4, <2>3, <2>4, Zenon DEF BtInv, BtRuns
<1>14. ASSUME server \in Followers PROVE FollowerInv
  <2>1. own = FollowerInitOwn /\ "off" \in FollowerPlaces
    BY <1>14, SMTT(30) DEF InitOwns, FollowerPlaces, Planners, RoomPlanners,
                Controllers, Smoothers, Behaviors, Moves, Drives, Followers, Docks, Routers
  <2>2. cb.own.late.responses + cb.own.late.results <= MaxLate
    BY <1>3, <2>1, FollowerInitIs, WaypointsAssumption, SMTT(30)
  <2>3. FollowerAt(cb)
    BY <1>3, <2>2, Zenon DEF FollowerAt, FollowerCounts, FollowerLoops, FollowerStarts
  <2> QED BY <1>3, <1>4, <2>1, <2>3, FollowerInitIs, Zenon DEF FollowerInv
<1> QED BY <1>1, <1>5, <1>6, <1>7, <1>8, <1>9, <1>10, <1>11, <1>12, <1>13, <1>14, SMTT(30) DEF NavInv, ServerInv

-----------------------------------------------------------------------------
(* Theorems about the navigation servers *)

\* The inductive invariant of every server's callback, slots and lifecycle.
THEOREM NavInvariant == NavSpec => []NavInv
<1>1. NavInit => NavInv
  BY InitNavInv
<1>2. NavInv /\ [NavNext]_navVars => NavInv'
  BY NextNavInv
<1> QED BY <1>1, <1>2, PTL DEF NavSpec

\* The members of the action server and of every callback keep their types, and the
\* callback is somewhere exactly while the worker thread is in it.
THEOREM NavTypeCorrect == NavSpec => []NavTypeOK
<1>1. ASSUME NavInv PROVE NavTypeOK
  <2>1. TypeOK /\ server \in AllServers /\ (cb.at = "off" <=> worker # "callback")
    BY <1>1, ServersAssumption, SMTT(30) DEF NavInv, IInv, CallbackInv
  <2>2. \E P, O : cb \in Callbacks(P, O)
    BY <1>1, <2>1, ZenonT(40)
       DEF NavInv, ServerInv, AllServers, PlannerInv, RoomInv, SmootherInv, RouteInv,
           DockInv, BtInv, FollowerInv, ControllerInv, BehaviorInv
  <2>3. /\ cb.job \in Goals \cup {None} /\ cb.velocity \in {"zero", "moving"}
        /\ cb.gate \in BOOLEAN /\ cb.kept \in BOOLEAN
    BY <2>2, SMTT(30) DEF Callbacks
  <2>4. /\ server \in Planners => cb.own \in PlannerOwn
        /\ server \in RoomPlanners => cb.own \in RoomOwn
        /\ server \in Controllers => cb.own \in ControllerOwn
        /\ server \in Smoothers => cb.own \in SmootherOwn
        /\ server \in Behaviors => cb.own \in BehaviorOwn
        /\ server \in Followers => cb.own \in FollowerOwn
        /\ server \in Docks => cb.own \in DockOwn
        /\ server \in Routers => cb.own \in RouteOwn
        /\ server \in Navigators => cb.own \in BtOwn
    BY <1>1, ZenonT(40) DEF NavInv, ServerInv, PlannerInv, RoomInv, SmootherInv, RouteInv, DockInv, BtInv,
                FollowerInv, ControllerInv, BehaviorInv, Callbacks
  <2>5. OwnTypeOK
    BY <2>1, <2>4 DEF OwnTypeOK, AllServers
  <2> QED BY <2>1, <2>3, <2>5, SMTT(30) DEF NavTypeOK
<1>2. NavInv => NavTypeOK
  BY <1>1, SMTT(30)
<1> QED BY <1>2, NavInvariant, PTL

\* No callback dereferences a null goal in a node that was never deactivated; those of
\* the planner, room planner, smoother and docking servers never do.
THEOREM NavNullGoalOnlyAfterDeactivation == NavSpec => []NullGoalOnlyAfterDeactivation
<1>1. ASSUME NavInv, cb.at = "crashed"
      PROVE  \/ /\ deactivations > 0
                /\ server \notin Planners \cup RoomPlanners \cup Smoothers \cup Docks
             \/ server \in Followers /\ cb.own.sent = "rejected"
  <2>1. ServerInv /\ server \in AllServers /\ deactivations \in Nat
    BY <1>1, ServersAssumption, BoundAssumption, SMTT(30) DEF NavInv, CallbackInv, IInv, TypeOK
  <2>2. server \notin Planners \cup RoomPlanners \cup Smoothers \cup Docks
    BY <1>1, <2>1, ZenonT(40) DEF ServerInv, PlannerInv, RoomInv, SmootherInv, DockInv, Callbacks,
          PlannerPlaces, PlannerWork, RoomPlaces, RoomWork, SmootherPlaces, DockPlaces, DockWork,
          DockHolds, DockDrives, UndockDrives
  <2>3. ~Undisturbed \/ (server \in Followers /\ cb.own.sent = "rejected")
    BY <1>1, <2>1, <2>2, ZenonT(40) DEF ServerInv, AllServers, ControllerInv, BehaviorInv, RouteInv, BtInv,
          FollowerInv, FollowerAt
  <2> QED BY <2>1, <2>2, <2>3, SMTT(30) DEF Undisturbed
<1>2. NavInv => NullGoalOnlyAfterDeactivation
  BY <1>1, SMTT(30) DEF NullGoalOnlyAfterDeactivation
<1> QED BY <1>2, NavInvariant, PTL

\* A goal that succeeds was worked on with its own data, except in the servers that keep
\* the data of the goal they were preempted from; and a waypoint goal that succeeds without
\* missed waypoints has reached all of its last round, from goal_index on if it is the first.
THEOREM NavSuccessIsOwn == NavSpec => []SuccessIsOwn
<1>1. NavInv => SuccessIsOwn
  BY SMTT(30) DEF NavInv
<1> QED BY <1>1, NavInvariant, PTL

\* The robot is driven for a goal in execution, and stands when no callback runs, unless the
\* controller server was told not to publish a zero velocity.
THEOREM NavDrivenForAGoal == NavSpec => []DrivenForAGoal
<1>1. ASSUME NavInv PROVE DrivenForAGoal
  <2>1. /\ ServerInv /\ server \in AllServers /\ deactivations \in Nat
        /\ (worker = "ready" => cb.at = "off") /\ (current # None => is_active(current))
    BY <1>1, ServersAssumption, BoundAssumption, SMTT(30)
       DEF NavInv, CallbackInv, IInv, TypeOK, SlotsConsistent
  <2>2. ASSUME cb.velocity = "moving"
        PROVE  server \in Controllers \cup Behaviors \cup Docks
    BY <2>1, <2>2, ZenonT(40) DEF AllServers, ServerInv, PlannerInv, RoomInv, SmootherInv, RouteInv, BtInv,
                      FollowerInv, FollowerAt
  <2>3. ASSUME cb.velocity = "moving", worker = "ready", lifecycle # "deactivating"
        PROVE  \/ server \in Controllers /\ ~cb.own.zero
               \/ server \in Behaviors /\ (cb.own.lost \/ deactivations > 0)
    <3>1. server \in Controllers => ~cb.own.zero
      BY <2>1, <2>3, SMTT(30) DEF ServerInv, ControllerInv, ControllerLoops
    <3>2. server \notin Docks
      BY <2>1, <2>3, ZenonT(40) DEF ServerInv, DockInv, DockDrives, UndockDrives
    <3>3. server \in Behaviors => cb.own.lost \/ ~Undisturbed
      BY <2>1, <2>3, SMTT(30) DEF ServerInv, BehaviorInv, BehaviorLoops
    <3> QED BY <2>1, <2>2, <2>3, <3>1, <3>2, <3>3, SMTT(30) DEF Undisturbed
  <2>4. ASSUME cb.velocity = "moving", deactivations = 0,
               cb.at \in {"loop", "velocity", "reached", "cycle", "approach", "undock"}
        PROVE  is_active(current) \/ (server \in Controllers /\ cb.own.refused)
    <3>1. server \in Controllers => current # None \/ cb.own.refused
      BY <2>1, <2>4, ZenonT(40) DEF ServerInv, ControllerInv, ControllerLoops, ControllerPlaces, Callbacks,
                        Undisturbed
    <3>2. server \in Behaviors => current # None
      BY <2>1, <2>4, SMTT(30) DEF ServerInv, BehaviorInv, BehaviorLoops, BehaviorWork, BehaviorPlaces,
                        Callbacks, Undisturbed
    <3>3. server \in Docks => current # None
      BY <2>1, <2>4, ZenonT(40) DEF ServerInv, DockInv, DockDrives, UndockDrives, DockWork, DockHolds,
                        DockPlaces, Callbacks, Undisturbed
    <3> QED BY <2>1, <2>2, <2>4, <3>1, <3>2, <3>3, SMTT(30)
  <2> QED BY <2>3, <2>4, SMTT(30) DEF DrivenForAGoal, StoppedWhenIdle, MovesForAGoal
<1>2. NavInv => DrivenForAGoal
  BY <1>1
<1> QED BY <1>2, NavInvariant, PTL

\* The muxer names only a navigator that navigates, and an allocated dock is freed.
THEOREM NavResourcesReleased == NavSpec => []ResourcesReleased
<1>1. NavInv => ResourcesReleased
  BY Zenon DEF NavInv, ServerInv, ResourcesReleased, BtInv, BtRuns, DockInv, DockHolds, DockDrives
<1> QED BY <1>1, NavInvariant, PTL

\* Whatever the callbacks do, the node is the action server of SimpleActionServer: every
\* step of NavSpec is one of its steps or leaves its state alone.
THEOREM NavImplementsServer == NavSpec => Spec
<1>1. NavInit => Init
  BY DEF NavInit
<1>2. NavInv /\ [NavNext]_navVars => [Next]_serverVars
  BY NextNavInv
<1> QED BY <1>1, <1>2, NavInvariant, PTL DEF NavSpec, Spec

\* So no goal that a node accepts is lost, and each is answered as the protocol says.
THEOREM NavKeepsProtocol == NavSpec => ImplementsProtocol /\ []NoOrphanedGoal
BY NavImplementsServer, ServerImplementsProtocol, ServerNoOrphanedGoal, PTL

-----------------------------------------------------------------------------
(* The timeouts of a planning request *)

\* Only a running query has a call under way, and its own timeout stays in the flag.
CallInv ==
  /\ call \in [Threads -> {"idle", "accept", "result"}]
  /\ call["query"] # "idle" => query = "planning"
  /\ query = "planning" /\ own_timeout => timeout_occurred
  /\ TimeoutNotHidden

\* secondLevelPlanner called from both threads, and computePathToPose, keep it.
LEMMA NextCallInv ==
  ASSUME CallInv, [SystemNext]_allVars
  PROVE  CallInv'
<1>1. CASE ServerStep \/ UNCHANGED allVars
  BY <1>1, SMTT(30) DEF ServerStep, clientVars, allVars, CallInv, TimeoutNotHidden
<1>2. CASE QueryBegin \/ QueryFails \/ QuerySucceeds \/ OneLevelFails \/ OneLevelSucceeds
  BY <1>2, SMTT(30) DEF QueryBegin, QueryFails, QuerySucceeds, OneLevelFails, OneLevelSucceeds,
                        CallInv, TimeoutNotHidden
<1>3. ASSUME NEW t \in Threads, ReturnTimeout(t),
             t = "query" => query = "planning"
      PROVE  CallInv'
  BY <1>3, ZenonT(40) DEF ReturnTimeout, CallInv, TimeoutNotHidden, Threads
<1>4. ASSUME NEW t \in Threads, ServerUnavailable(t) \/ CallSendGoal(t)
      PROVE  CallInv'
  <2>1. CASE ServerUnavailable(t)
    BY <1>3, <2>1, SMTT(30) DEF ServerUnavailable, MayCall
  <2>2. CASE CallSendGoal(t)
    BY <2>2, SMTT(30) DEF CallSendGoal, MayCall, CallInv, TimeoutNotHidden, Threads
  <2> QED BY <1>4, <2>1, <2>2, SMTT(30)
<1>5. ASSUME NEW t \in Threads, CallProgress(t)
      PROVE  CallInv'
  <2>1. call[t] # "idle"
    BY <1>5, Zenon DEF CallProgress, GoalResponse, GoalRejected, AcceptTimeout, ResultTimeout, ResultFailed,
                ResultReady
  <2>2. t = "query" => query = "planning"
    BY <2>1, SMTT(30) DEF CallInv
  <2>3. CASE GoalRejected(t) \/ AcceptTimeout(t) \/ ResultTimeout(t) \/ ResultFailed(t)
    BY <1>3, <2>2, <2>3, SMTT(30) DEF GoalRejected, AcceptTimeout, ResultTimeout, ResultFailed
  <2>4. CASE GoalResponse(t)
    BY <2>2, <2>4, SMTT(30) DEF GoalResponse, CallInv, TimeoutNotHidden, Threads
  <2>5. CASE ResultReady(t)
    BY <2>2, <2>5, Zenon DEF ResultReady, CallInv, TimeoutNotHidden, Threads
  <2> QED BY <1>5, <2>3, <2>4, <2>5, SMTT(30) DEF CallProgress
<1> QED BY <1>1, <1>2, <1>4, <1>5, SMTT(30) DEF SystemNext, ClientNext

\* A query on two levels one of whose calls timed out is never reported as having no path.
THEOREM QueryTimeoutNotHidden == SystemSpec => []TimeoutNotHidden
<1>1. ClientInit => CallInv
  BY DEF ClientInit, CallInv, TimeoutNotHidden, Threads
<1>2. CallInv /\ [SystemNext]_allVars => CallInv'
  BY NextCallInv, SMTT(30)
<1>3. CallInv => TimeoutNotHidden
  BY DEF CallInv
<1> QED BY <1>1, <1>2, <1>3, PTL DEF SystemSpec
=============================================================================
