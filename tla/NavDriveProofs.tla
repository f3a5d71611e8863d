--------------------------- MODULE NavDriveProofs --------------------------
(***************************************************************************)
(* The steps of the servers that plan and drive: planner, room planner,    *)
(* smoother, route, controller, behavior and docking server.               *)
(***************************************************************************)
EXTENDS ActionServerProofs

-----------------------------------------------------------------------------
(* The planner server *)

\* Every step of computePlan and computePlanThroughPoses.
LEMMA PlannerStep ==
  ASSUME NavInv, server \in Planners, PlannerNext
  PROVE  Goes /\ PlannerInv'
<1> DEFINE C == Callbacks(PlannerPlaces, PlannerOwn)
<1>i. /\ PlannerInv /\ IInv /\ LifeInv /\ cb \in C /\ server \in KeepsData
      /\ (cb.at = "entry" /\ current = None => lifecycle = "deactivating")
  BY DEF NavInv, ServerInv, CallbackInv, PlannerInv, KeepsData
<1>t. cb.job \in Goals \cup {None} /\ cb.own \in PlannerOwn /\ cb.own.leg \in 0..MaxLegs
  BY <1>i, SMTT(30) DEF Callbacks, PlannerOwn
<1>g. ASSUME NEW p \in (PlannerWork \cup {"return"}) \ {"plan"}, Local(Goto(p)), cb.at # "off",
             p # "return" => cb.job # None /\ (Mine \/ cb.kept)
      PROVE  Goes /\ PlannerInv'
  <2>1. p \in PlannerPlaces /\ p \notin {"off", "entry"}
    BY <1>g DEF PlannerPlaces, PlannerWork
  <2>2. Goes /\ UNCHANGED serverVars /\ cb' \in C /\ Moved(cb', p)
    BY <1>i, <1>g, <2>1, GotoGoes, SMTT(30)
  <2> QED BY <1>i, <1>g, <2>2 DEF PlannerInv, PlannerWork, Mine, serverVars, Moved
<1>r. ASSUME Goes, current' = None, cb' \in C, Moved(cb', "return")
      PROVE  PlannerInv'
  BY <1>i, <1>r DEF PlannerInv, PlannerWork, Moved
<1>p. "return" \in PlannerPlaces /\ "inactive" \in PlannerPlaces /\ "start" \in PlannerPlaces
  BY DEF PlannerPlaces, PlannerWork
<1>1. CASE PlannerEntry
  <2>1. cb.at = "entry" /\ Local([cb EXCEPT !.at = "inactive", !.job = CurrentGoal])
    BY <1>1, SMTT(30) DEF PlannerEntry, GetCurrentGoal, Here
  <2>2. /\ Goes /\ UNCHANGED serverVars /\ cb' \in C
        /\ cb'.at = "inactive" /\ cb'.job = current /\ cb'.velocity = cb.velocity
    BY <1>i, <1>p, <2>1, EntryGoes, Zenon
  <2> QED BY <1>i, <2>1, <2>2 DEF PlannerInv, PlannerWork, Mine, serverVars
<1>3. CASE PlannerIsServerInactive
  <2>1. cb.at = "inactive" /\ Local(Goto(IF server_active THEN "cancel" ELSE "return"))
    BY <1>3 DEF PlannerIsServerInactive, ReturnIfInactive, Here
  <2>2. server_active => cb.job # None
    BY <1>i, <2>1 DEF PlannerInv, LifeInv
  <2> QED BY <1>i, <1>g, <2>1, <2>2 DEF PlannerInv, PlannerWork
<1>5. CASE PlannerIsCancelRequested
  <2>1. CASE TestCancel(Planners, "cancel", "cancelled", "costmap")
    <3>1. cb.at = "cancel" /\ Local(Goto(IF is_cancel_requested THEN "cancelled" ELSE "costmap"))
      BY <2>1 DEF TestCancel, Here
    <3> QED BY <1>i, <1>g, <3>1 DEF PlannerInv, PlannerWork
  <2>2. CASE EndAll(Planners, "cancelled", EmptyResult)
    <3>1. cb.at = "cancelled" /\ TerminateAll(EmptyResult) /\ Called(Goto("return"))
      BY <2>2 DEF EndAll, Here
    <3>2. Goes /\ current' = None /\ cb' \in C /\ Moved(cb', "return")
      BY <1>i, <1>p, <3>1, EndReturns, EmptyResultAssumption, SMTT(30)
    <3> QED BY <1>r, <3>2
  <2> QED BY <1>5, <2>1, <2>2, SMTT(30) DEF PlannerIsCancelRequested
<1>6. CASE PlannerWaitForCostmap
  BY <1>i, <1>g, <1>6 DEF PlannerWaitForCostmap, Here, PlannerInv, PlannerWork
<1>7. CASE PlannerGetPreemptedGoalIfRequested
  <2>1. /\ cb.at = "preempt" /\ Called([cb EXCEPT !.at = "start", !.kept = @ \/ preempt_requested])
        /\ IF preempt_requested THEN AcceptPendingGoal ELSE UNCHANGED <<handleVars, slotVars>>
    BY <1>7 DEF PlannerGetPreemptedGoalIfRequested, Here
  <2>2. /\ Goes /\ cb' \in C /\ cb'.at = "start" /\ cb'.job = cb.job /\ cb'.velocity = cb.velocity
        /\ (cb.kept => cb'.kept) /\ (cb'.kept \/ current' = current)
    BY <1>i, <1>p, <2>1, PreemptGoes, SMTT(30)
  <2> QED BY <1>i, <2>1, <2>2 DEF PlannerInv, PlannerWork, Mine
<1>8. CASE PlannerGetStartPose
  <2>1. cb.at = "start" /\ cb.job # None /\ (Mine \/ cb.kept)
    BY <1>i, <1>8 DEF PlannerGetStartPose, Here, PlannerInv, PlannerWork
  <2>2. PICK p \in {"plan", "error"} : Local([cb EXCEPT !.at = p, !.own.leg = 0])
    BY <1>8, <2>1 DEF PlannerGetStartPose
  <2> DEFINE c == [cb EXCEPT !.at = p, !.own.leg = 0]
  <2>3. c \in C /\ c.at = p /\ c.job = cb.job /\ c.kept = cb.kept /\ c.velocity = cb.velocity
        /\ c.own.leg = 0
    <3>1. 0 \in 0..MaxLegs
      BY LegsAssumption
    <3> QED BY <1>i, <1>t, <2>2, <3>1, Zenon DEF Callbacks, PlannerOwn, PlannerPlaces, PlannerWork
  <2> HIDE DEF c
  <2>4. Goes /\ UNCHANGED serverVars /\ cb' = c
    BY <2>1, <2>2, <2>3, LocalGoes, Zenon DEF c
  <2> QED BY <1>i, <2>1, <2>2, <2>3, <2>4, LegsAssumption, SMTT(30)
          DEF PlannerInv, PlannerWork, Mine, serverVars
<1>9. CASE PlannerGetPlan
  <2>1. cb.at = "plan" /\ cb.job # None /\ (Mine \/ cb.kept) /\ cb.own.leg < MaxLegs
    BY <1>i, <1>9 DEF PlannerGetPlan, Here, PlannerInv, PlannerWork
  <2>2. CASE Local(Goto("error")) \/ Local(Goto("cancelled"))
    BY <1>g, <2>1, <2>2, SMTT(30) DEF PlannerWork
  <2>3. CASE ~(Local(Goto("error")) \/ Local(Goto("cancelled")))
    <3> DEFINE last == server = "compute_path_to_pose" \/ cb.own.leg + 1 = MaxLegs
               p == IF last THEN "succeed" ELSE "plan"
               n == cb.own.leg + 1
               c == [cb EXCEPT !.at = p, !.own.leg = n]
    <3>1. Local(c)
      BY <1>9, <2>3 DEF PlannerGetPlan
    <3>2. p \in {"succeed", "plan"} /\ (p = "plan" => n # MaxLegs)
      OBVIOUS
    <3>3. n \in 0..MaxLegs /\ n \in Nat
      BY <1>t, <2>1, LegsAssumption
    <3> HIDE DEF p, n
    <3>4. c \in C /\ c.at = p /\ c.job = cb.job /\ c.kept = cb.kept /\ c.velocity = cb.velocity
          /\ c.own.leg = n
      BY <1>i, <1>t, <3>2, <3>3, Zenon DEF Callbacks, PlannerOwn, PlannerPlaces, PlannerWork
    <3> HIDE DEF c
    <3>5. Goes /\ UNCHANGED serverVars /\ cb' = c
      BY <2>1, <3>1, <3>2, <3>4, LocalGoes
    <3>6. p = "plan" => n < MaxLegs
      BY <3>2, <3>3, LegsAssumption
    <3> QED BY <1>i, <2>1, <3>2, <3>4, <3>5, <3>6 DEF PlannerInv, PlannerWork, Mine, serverVars
  <2> QED BY <2>2, <2>3
<1>10. CASE PlannerError
  <2>1. Answer("error") \in Results
    BY <1>t, AnswerIs DEF AnswerKinds
  <2>2. cb.at = "error" /\ TerminateCurrent(Answer("error")) /\ Called(Goto("return"))
    BY <1>10 DEF PlannerError, EndCurrent, Here
  <2>3. Goes /\ current' = None /\ cb' \in C /\ Moved(cb', "return")
    BY <1>i, <1>p, <2>1, <2>2, EndReturns, SMTT(30)
  <2> QED BY <1>r, <2>3
<1>11. CASE PlannerSucceed
  <2>1. /\ cb.at = "succeed" /\ (Mine \/ cb.kept)
        /\ SucceededCurrent(Answer("done")) /\ Called(Goto("return"))
    BY <1>i, <1>11 DEF PlannerSucceed, EndSucceeded, Here, PlannerInv, PlannerWork
  <2>2. /\ Answer("done") \in Results /\ Answer("done").kind # "short"
        /\ Answer("done").for \subseteq {cb.job}
    BY <1>t, AnswerIs DEF AnswerKinds
  <2>3. current = None \/ Answer("done").for \subseteq {current} \/ (cb.kept /\ server \in KeepsData)
    BY <1>i, <2>1, <2>2, SMTT(30) DEF Mine
  <2>4. Goes /\ current' = None /\ cb' \in C /\ Moved(cb', "return")
    BY <1>i, <1>p, <2>1, <2>2, <2>3, SucceedReturns
  <2> QED BY <1>r, <2>4
<1> QED BY <1>1, <1>3, <1>5, <1>6, <1>7, <1>8, <1>9, <1>10, <1>11, SMTT(30) DEF PlannerNext

-----------------------------------------------------------------------------
(* The room planner server *)

\* Every step of computePlanInRoom.
LEMMA RoomStep ==
  ASSUME NavInv, server \in RoomPlanners, RoomNext
  PROVE  Goes /\ RoomInv'
<1> DEFINE C == Callbacks(RoomPlaces, RoomOwn)
<1>i. /\ RoomInv /\ IInv /\ LifeInv /\ cb \in C /\ server \in KeepsData
      /\ (cb.at = "entry" /\ current = None => lifecycle = "deactivating")
  BY DEF NavInv, ServerInv, CallbackInv, RoomInv, KeepsData
<1>t. cb.job \in Goals \cup {None} /\ cb.own \in RoomOwn
  BY <1>i DEF Callbacks
<1>g. ASSUME NEW p \in RoomWork \cup {"return"}, Local(Goto(p)), cb.at # "off",
             p # "return" => cb.job # None /\ (Mine \/ cb.kept)
      PROVE  Goes /\ RoomInv'
  <2>1. p \in RoomPlaces /\ p \notin {"off", "entry"}
    BY <1>g DEF RoomPlaces, RoomWork
  <2>2. Goes /\ UNCHANGED serverVars /\ cb' \in C /\ Moved(cb', p)
    BY <1>i, <1>g, <2>1, GotoGoes
  <2> QED BY <1>i, <1>g, <2>2 DEF RoomInv, RoomWork, Mine, serverVars, Moved
<1>r. ASSUME Goes, current' = None, cb' \in C, Moved(cb', "return")
      PROVE  RoomInv'
  BY <1>i, <1>r DEF RoomInv, RoomWork, Moved
<1>p. "return" \in RoomPlaces /\ "inactive" \in RoomPlaces /\ "start" \in RoomPlaces
  BY DEF RoomPlaces, RoomWork
<1>1. CASE RoomEntry
  <2>1. cb.at = "entry" /\ Local([cb EXCEPT !.at = "inactive", !.job = CurrentGoal])
    BY <1>1 DEF RoomEntry, GetCurrentGoal, Here
  <2>2. /\ Goes /\ UNCHANGED serverVars /\ cb' \in C
        /\ cb'.at = "inactive" /\ cb'.job = current /\ cb'.velocity = cb.velocity
    BY <1>i, <1>p, <2>1, EntryGoes, Zenon
  <2> QED BY <1>i, <2>1, <2>2, SMTT(30) DEF RoomInv, RoomWork, Mine, serverVars
<1>2. CASE RoomIsServerInactive
  <2>1. \/ cb.at = "inactive" /\ Local(Goto(IF server_active THEN "cancel" ELSE "return"))
        \/ cb.at = "inactive2" /\ Local(Goto(IF server_active THEN "cancel2" ELSE "return"))
    BY <1>2 DEF RoomIsServerInactive, ReturnIfInactive, Here
  <2>2. server_active => cb.job # None
    BY <1>i, <2>1 DEF RoomInv, LifeInv, RoomWork
  <2> QED BY <1>i, <1>g, <2>1, <2>2 DEF RoomInv, RoomWork
<1>3. CASE RoomIsCancelRequested
  <2>1. CASE \/ TestCancel(RoomPlanners, "cancel", "cancelled", "preempt")
             \/ TestCancel(RoomPlanners, "cancel2", "cancelled", "succeed")
    <3>1. \/ cb.at = "cancel" /\ Local(Goto(IF is_cancel_requested THEN "cancelled" ELSE "preempt"))
          \/ cb.at = "cancel2" /\ Local(Goto(IF is_cancel_requested THEN "cancelled" ELSE "succeed"))
      BY <2>1, SMTT(30) DEF TestCancel, Here
    <3> QED BY <1>i, <1>g, <3>1 DEF RoomInv, RoomWork
  <2>2. CASE EndAll(RoomPlanners, "cancelled", EmptyResult)
    <3>1. cb.at = "cancelled" /\ TerminateAll(EmptyResult) /\ Called(Goto("return"))
      BY <2>2 DEF EndAll, Here
    <3>2. Goes /\ current' = None /\ cb' \in C /\ Moved(cb', "return")
      BY <1>i, <1>p, <3>1, EndReturns, EmptyResultAssumption
    <3> QED BY <1>r, <3>2
  <2> QED BY <1>3, <2>1, <2>2, SMTT(30) DEF RoomIsCancelRequested
<1>4. CASE RoomGetPreemptedGoalIfRequested
  <2>1. /\ cb.at = "preempt" /\ Called([cb EXCEPT !.at = "start", !.kept = @ \/ preempt_requested])
        /\ IF preempt_requested THEN AcceptPendingGoal ELSE UNCHANGED <<handleVars, slotVars>>
    BY <1>4 DEF RoomGetPreemptedGoalIfRequested, Here
  <2>2. /\ Goes /\ cb' \in C /\ cb'.at = "start" /\ cb'.job = cb.job /\ cb'.velocity = cb.velocity
        /\ (cb.kept => cb'.kept) /\ (cb'.kept \/ current' = current)
    BY <1>i, <1>p, <2>1, PreemptGoes
  <2> QED BY <1>i, <2>1, <2>2, SMTT(30) DEF RoomInv, RoomWork, Mine
<1>5. CASE RoomGetStartPose
  <2>1. cb.at = "start" /\ cb.job # None /\ (Mine \/ cb.kept)
    BY <1>i, <1>5 DEF RoomGetStartPose, Here, RoomInv, RoomWork
  <2> QED BY <1>g, <1>5, <2>1 DEF RoomGetStartPose, RoomWork
<1>6. CASE RoomPlan
  <2>1. cb.at = "plan" /\ cb.job # None /\ (Mine \/ cb.kept)
    BY <1>i, <1>6 DEF RoomPlan, Here, RoomInv, RoomWork
  <2>2. CASE Local(Goto("error"))
    BY <1>g, <2>1, <2>2 DEF RoomWork
  <2>3. CASE ~Local(Goto("error"))
    <3>1. PICK n \in {"NONE", "NO_VALID_PATH"} : Local([cb EXCEPT !.at = "inactive2", !.own.code = n])
      BY <1>6, <2>3 DEF RoomPlan
    <3> DEFINE c == [cb EXCEPT !.at = "inactive2", !.own.code = n]
    <3>2. c \in C /\ c.at = "inactive2" /\ c.job = cb.job /\ c.kept = cb.kept
          /\ c.velocity = cb.velocity
      BY <1>i, <1>t, <3>1, Zenon DEF Callbacks, RoomOwn, RoomPlaces, RoomWork
    <3> HIDE DEF c
    <3>3. Goes /\ UNCHANGED serverVars /\ cb' = c
      BY <2>1, <3>1, <3>2, LocalGoes, Zenon DEF c
    <3> QED BY <1>i, <2>1, <3>2, <3>3 DEF RoomInv, RoomWork, Mine, serverVars
  <2> QED BY <2>2, <2>3
<1>7. CASE RoomError
  <2>1. Answer("error") \in Results
    BY <1>t, AnswerIs, SMTT(30) DEF AnswerKinds
  <2>2. cb.at = "error" /\ TerminateCurrent(Answer("error")) /\ Called(Goto("return"))
    BY <1>7 DEF RoomError, EndCurrent, Here
  <2>3. Goes /\ current' = None /\ cb' \in C /\ Moved(cb', "return")
    BY <1>i, <1>p, <2>1, <2>2, EndReturns
  <2> QED BY <1>r, <2>3
<1>8. CASE RoomSucceed
  <2> DEFINE k == IF cb.own.code = "NONE" THEN "done" ELSE "no_path"
  <2>1. /\ cb.at = "succeed" /\ (Mine \/ cb.kept)
        /\ SucceededCurrent(Answer(k)) /\ Called(Goto("return"))
    BY <1>i, <1>8 DEF RoomSucceed, EndSucceeded, Here, RoomInv, RoomWork
  <2>2. k \in AnswerKinds /\ k # "short"
    BY DEF AnswerKinds
  <2> HIDE DEF k
  <2>3. Answer(k) \in Results /\ Answer(k).kind # "short" /\ Answer(k).for \subseteq {cb.job}
    BY <1>t, <2>2, AnswerIs
  <2>4. current = None \/ Answer(k).for \subseteq {current} \/ (cb.kept /\ server \in KeepsData)
    BY <1>i, <2>1, <2>3 DEF Mine
  <2>5. Goes /\ current' = None /\ cb' \in C /\ Moved(cb', "return")
    BY <1>i, <1>p, <2>1, <2>3, <2>4, SucceedReturns
  <2> QED BY <1>r, <2>5
<1> QED BY <1>1, <1>2, <1>3, <1>4, <1>5, <1>6, <1>7, <1>8, SMTT(30) DEF RoomNext

-----------------------------------------------------------------------------
(* The smoother server *)

\* Every step of smoothPlan.
LEMMA SmootherStep ==
  ASSUME NavInv, server \in Smoothers, SmootherNext
  PROVE  Goes /\ SmootherInv'
<1> DEFINE C == Callbacks(SmootherPlaces, SmootherOwn)
<1>i. SmootherInv /\ IInv /\ cb \in C
  BY DEF NavInv, ServerInv, SmootherInv
<1>t. cb.job \in Goals \cup {None}
  BY <1>i DEF Callbacks
<1>g. ASSUME NEW p \in {"error", "succeed", "return"}, Local(Goto(p)), cb.at # "off", Mine
      PROVE  Goes /\ SmootherInv'
  <2>1. p \in SmootherPlaces /\ p \notin {"off", "entry"}
    BY <1>g DEF SmootherPlaces
  <2>2. Goes /\ UNCHANGED serverVars /\ cb' \in C /\ Moved(cb', p)
    BY <1>i, <1>g, <2>1, GotoGoes
  <2> QED BY <1>i, <1>g, <2>2 DEF SmootherInv, Mine, serverVars, Moved
<1>r. ASSUME Goes, current' = None, cb' \in C, Moved(cb', "return")
      PROVE  SmootherInv'
  BY <1>i, <1>r DEF SmootherInv, Moved
<1>p. "return" \in SmootherPlaces /\ "setup" \in SmootherPlaces
  BY DEF SmootherPlaces
<1>1. CASE SmootherEntry
  <2>1. cb.at = "entry" /\ Local([cb EXCEPT !.at = "setup", !.job = CurrentGoal])
    BY <1>1, SMTT(30) DEF SmootherEntry, GetCurrentGoal, Here
  <2>2. /\ Goes /\ UNCHANGED serverVars /\ cb' \in C
        /\ cb'.at = "setup" /\ cb'.job = current /\ cb'.velocity = cb.velocity
    BY <1>i, <1>p, <2>1, EntryGoes, Zenon
  <2> QED BY <1>i, <2>1, <2>2 DEF SmootherInv, Mine, serverVars
<1>2. CASE SmootherSmooth
  BY <1>i, <1>g, <1>2 DEF SmootherSmooth, Here, SmootherInv
<1>3. CASE SmootherError
  <2>1. Answer("error") \in Results
    BY <1>t, AnswerIs DEF AnswerKinds
  <2>2. cb.at = "error" /\ TerminateCurrent(Answer("error")) /\ Called(Goto("return"))
    BY <1>3 DEF SmootherError, EndCurrent, Here
  <2>3. Goes /\ current' = None /\ cb' \in C /\ Moved(cb', "return")
    BY <1>i, <1>p, <2>1, <2>2, EndReturns
  <2> QED BY <1>r, <2>3
<1>4. CASE SmootherSucceed
  <2>1. cb.at = "succeed" /\ Mine /\ SucceededCurrent(Answer("done")) /\ Called(Goto("return"))
    BY <1>i, <1>4 DEF SmootherSucceed, EndSucceeded, Here, SmootherInv
  <2>2. /\ Answer("done") \in Results /\ Answer("done").kind # "short"
        /\ Answer("done").for \subseteq {cb.job}
    BY <1>t, AnswerIs DEF AnswerKinds
  <2>3. current = None \/ Answer("done").for \subseteq {current}
    BY <2>1, <2>2 DEF Mine
  <2>4. Goes /\ current' = None /\ cb' \in C /\ Moved(cb', "return")
    BY <1>i, <1>p, <2>1, <2>2, <2>3, SucceedReturns, SMTT(30)
  <2> QED BY <1>r, <2>4
<1> QED BY <1>1, <1>2, <1>3, <1>4 DEF SmootherNext

-----------------------------------------------------------------------------
(* The route server *)

\* A step of processRouteRequest that only goes on to the next place.
LEMMA RouteGoto ==
  ASSUME NavInv, server \in Routers, NEW p \in RouteWork \cup {"return", "crashed"},
         Local(Goto(p)), cb.at \in RouteWork,
         p \in RouteWork => Mine,
         p = "accept" => preempt_requested,
         p = "crashed" => cb.job = None
  PROVE  Goes /\ RouteInv'
<1> DEFINE C == Callbacks(RoutePlaces, RouteOwn)
<1>1. RouteInv /\ IInv /\ cb \in C
  BY DEF NavInv, ServerInv, RouteInv
<1>2. p \in RoutePlaces /\ p \notin {"off", "entry"} /\ cb.at # "off"
  BY DEF RoutePlaces, RouteWork
<1>3. Goes /\ UNCHANGED serverVars /\ cb' \in C /\ Moved(cb', p)
  BY <1>1, <1>2, GotoGoes
<1>4. p = "accept" => pending # None
  BY <1>1 DEF IInv, SlotsConsistent
<1> QED BY <1>1, <1>3, <1>4, SMTT(30) DEF RouteInv, RouteWork, Mine, serverVars, Moved, Undisturbed

\* Every step of processRouteRequest, and setRouteGraph in between.
LEMMA RouteStep ==
  ASSUME NavInv, server \in Routers, RouteNext
  PROVE  Goes /\ RouteInv'
<1> DEFINE C == Callbacks(RoutePlaces, RouteOwn)
<1>i. /\ RouteInv /\ IInv /\ LifeInv /\ cb \in C
      /\ (cb.at = "entry" /\ current = None => lifecycle = "deactivating")
  BY DEF NavInv, ServerInv, CallbackInv, RouteInv
<1>t. cb.job \in Goals \cup {None} /\ cb.own \in RouteOwn /\ cb.own.blocked \in Goals \cup {None}
  BY <1>i, SMTT(30) DEF Callbacks, RouteOwn
<1>r. ASSUME Goes, current' = None, cb' \in C, Moved(cb', "return")
      PROVE  RouteInv'
  BY <1>i, <1>r DEF RouteInv, RouteWork, Moved
<1>p. "return" \in RoutePlaces
  BY SMTT(30) DEF RoutePlaces
<1>1. CASE RouteEntry
  <2> DEFINE c == [cb EXCEPT !.at = "inactive", !.job = CurrentGoal, !.own.blocked = None]
  <2>1. cb.at = "entry" /\ Local(c)
    BY <1>1 DEF RouteEntry, Here
  <2>2. CurrentGoal = current /\ current \in Goals \cup {None}
    BY <1>i, CurrentGoalIs
  <2>3. c \in C /\ c.at = "inactive" /\ c.job = current /\ c.kept = cb.kept /\ c.velocity = cb.velocity
        /\ c.own.blocked = None
    BY <1>i, <1>t, <2>2, Zenon DEF Callbacks, RouteOwn, RoutePlaces, RouteWork
  <2> HIDE DEF c
  <2>4. Goes /\ UNCHANGED serverVars /\ cb' = c
    BY <2>1, <2>3, LocalGoes, SMTT(30)
  <2> QED BY <1>i, <2>1, <2>3, <2>4 DEF RouteInv, RouteWork, Mine, serverVars, Undisturbed, LifeInv
<1>2. CASE RouteIsInactive
  <2>1. cb.at = "inactive" /\ Local(Goto(IF server_active THEN "cancel" ELSE "return"))
    BY <1>2 DEF RouteIsInactive, ReturnIfInactive, Here
  <2> QED BY <1>i, <2>1, RouteGoto, ZenonT(40) DEF RouteInv, RouteWork
<1>3. CASE RouteIsCancelled
  <2>1. cb.at = "cancel" /\ Local(Goto(IF is_cancel_requested THEN "cancelled" ELSE "graph"))
    BY <1>3 DEF RouteIsCancelled, TestCancel, Here
  <2> QED BY <1>i, <2>1, RouteGoto DEF RouteInv, RouteWork
<1>4. CASE RouteCancelled
  <2>1. cb.at = "cancelled" /\ TerminateAll(EmptyResult) /\ Called(Goto("return"))
    BY <1>4 DEF RouteCancelled, EndAll, Here
  <2>2. Goes /\ current' = None /\ cb' \in C /\ Moved(cb', "return")
    BY <1>i, <1>p, <2>1, EndReturns, EmptyResultAssumption, SMTT(30)
  <2> QED BY <1>r, <2>2
<1>5. CASE RouteHasGraph
  <2>1. cb.at = "graph" /\ Local(Goto(IF cb.own.graph = "empty" THEN "no_graph" ELSE "preempt"))
    BY <1>5 DEF RouteHasGraph, Here
  <2> QED BY <1>i, <2>1, RouteGoto DEF RouteInv, RouteWork
<1>6. CASE RouteNoGraph
  <2>1. cb.at = "no_graph" /\ TerminateCurrent(EmptyResult) /\ Called(Goto("return"))
    BY <1>6 DEF RouteNoGraph, EndCurrent, Here
  <2>2. Goes /\ current' = None /\ cb' \in C /\ Moved(cb', "return")
    BY <1>i, <1>p, <2>1, EndReturns, EmptyResultAssumption, SMTT(30)
  <2> QED BY <1>r, <2>2
<1>7. CASE RouteIsPreempted
  <2>1. cb.at = "preempt" /\ Local(Goto(IF preempt_requested THEN "accept" ELSE "find"))
    BY <1>7, SMTT(30) DEF RouteIsPreempted, Here
  <2> QED BY <1>i, <2>1, RouteGoto DEF RouteInv, RouteWork
<1>8. CASE RouteAccept
  <2> DEFINE j == IF is_active(pending) THEN pending ELSE None
             c == [cb EXCEPT !.at = "find", !.job = j, !.own.blocked = None]
  <2>1. cb.at = "accept" /\ AcceptPendingGoal /\ Called(c)
    BY <1>8 DEF RouteAccept, Here
  <2>2. j \in Goals \cup {None}
    BY <1>i, CurrentGoalIs
  <2>3. is_active(pending) => j = pending
    OBVIOUS
  <2>3a. ~is_active(pending) => j = None
    OBVIOUS
  <2> HIDE DEF j
  <2>4. c \in C /\ c.at = "find" /\ c.job = j /\ c.kept = cb.kept /\ c.velocity = cb.velocity
        /\ c.own.blocked = None
    BY <1>i, <1>t, <2>2, Zenon DEF Callbacks, RouteOwn, RoutePlaces, RouteWork
  <2> HIDE DEF c
  <2>5. /\ Goes /\ cb' = c /\ UNCHANGED lifeVars
        /\ current' = (IF pending = None THEN current ELSE pending)
        /\ is_active(pending) <=> pending # None
    BY <2>1, <2>4, AcceptGoes
  <2>6. current' \in {None, j} \/ j = None
    BY <2>3, <2>3a, <2>5
  <2>7. Undisturbed => j # None
    BY <1>i, <2>1, <2>3, <2>5 DEF RouteInv
  <2> QED BY <1>i, <2>4, <2>5, <2>6, <2>7 DEF RouteInv, RouteWork, Mine, lifeVars, Undisturbed
<1>9. CASE RouteFind
  <2>1. cb.at = "find" /\ (cb.job # None => Mine)
    BY <1>i, <1>9 DEF RouteFind, Here, RouteInv, RouteWork
  <2>2. CASE cb.job = None
    BY <1>9, <2>1, <2>2, RouteGoto DEF RouteFind, RouteWork
  <2>3. CASE cb.job # None /\ Local(Goto("error"))
    BY <2>1, <2>3, RouteGoto, SMTT(30) DEF RouteWork
  <2>4. CASE cb.job # None /\ ~Local(Goto("error"))
    <3> DEFINE p == IF server = "compute_route" THEN "succeed" ELSE "track"
               c == [cb EXCEPT !.at = p, !.own.route = TRUE]
    <3>1. Local(c)
      BY <1>9, <2>4 DEF RouteFind
    <3>2. p \in {"succeed", "track"}
      OBVIOUS
    <3> HIDE DEF p
    <3>3. c \in C /\ c.at = p /\ c.job = cb.job /\ c.kept = cb.kept /\ c.velocity = cb.velocity
          /\ c.own.blocked = cb.own.blocked
      BY <1>i, <1>t, <3>2, Zenon DEF Callbacks, RouteOwn, RoutePlaces, RouteWork
    <3> HIDE DEF c
    <3>4. Goes /\ UNCHANGED serverVars /\ cb' = c
      BY <2>1, <3>1, <3>2, <3>3, LocalGoes
    <3> QED BY <1>i, <2>1, <2>4, <3>2, <3>3, <3>4
            DEF RouteInv, RouteWork, Mine, serverVars, Undisturbed
  <2> QED BY <2>2, <2>3, <2>4
<1>10. CASE RouteTrack
  <2>1. cb.at = "track" /\ Mine
    BY <1>i, <1>10 DEF RouteTrack, Here, RouteInv, RouteWork
  <2>2. CASE \E p \in {"inactive", "error", "succeed"} : Local(Goto(p))
    BY <2>1, <2>2, RouteGoto, SMTT(30) DEF RouteWork
  <2>3. CASE ~ \E p \in {"inactive", "error", "succeed"} : Local(Goto(p))
    <3> DEFINE c == [cb EXCEPT !.at = "inactive", !.own.blocked = cb.job]
    <3>1. Local(c)
      BY <1>10, <2>3 DEF RouteTrack
    <3>2. c \in C /\ c.at = "inactive" /\ c.job = cb.job /\ c.kept = cb.kept /\ c.velocity = cb.velocity
          /\ c.own.blocked = cb.job
      BY <1>i, <1>t, Zenon DEF Callbacks, RouteOwn, RoutePlaces, RouteWork
    <3> HIDE DEF c
    <3>3. Goes /\ UNCHANGED serverVars /\ cb' = c
      BY <2>1, <3>1, <3>2, LocalGoes, SMTT(30)
    <3> QED BY <1>i, <2>1, <3>2, <3>3 DEF RouteInv, RouteWork, Mine, serverVars, Undisturbed
  <2> QED BY <2>2, <2>3
<1>11. CASE RouteError
  <2>1. Answer("error") \in Results
    BY <1>t, AnswerIs DEF AnswerKinds
  <2>2. cb.at = "error" /\ TerminateCurrent(Answer("error")) /\ Called(Goto("return"))
    BY <1>11 DEF RouteError, EndCurrent, Here
  <2>3. Goes /\ current' = None /\ cb' \in C /\ Moved(cb', "return")
    BY <1>i, <1>p, <2>1, <2>2, EndReturns, SMTT(30)
  <2> QED BY <1>r, <2>3
<1>12. CASE RouteSucceed
  <2> DEFINE r == [kind |-> "done", for |-> {cb.job, cb.own.blocked} \ {None}]
  <2>1. /\ cb.at = "succeed" /\ Mine /\ cb.own.blocked \in {None, cb.job}
        /\ SucceededCurrent(r) /\ Called(Goto("return"))
    BY <1>i, <1>12, SMTT(30) DEF RouteSucceed, EndSucceeded, Here, RouteInv, RouteWork
  <2>2. r \in Results /\ r.kind = "done" /\ r.for \subseteq {cb.job}
    BY <1>t, <2>1, NavResultsAssumption, ZenonT(40) DEF NavResults, AnswerKinds
  <2> HIDE DEF r
  <2>3. current = None \/ r.for \subseteq {current}
    BY <2>1, <2>2, SMTT(30) DEF Mine
  <2>4. Goes /\ current' = None /\ cb' \in C /\ Moved(cb', "return")
    BY <1>i, <1>p, <2>1, <2>2, <2>3, SucceedReturns
  <2> QED BY <1>r, <2>4
<1> QED BY <1>1, <1>2, <1>3, <1>4, <1>5, <1>6, <1>7, <1>8, <1>9, <1>10, <1>11, <1>12, SMTT(30) DEF RouteNext

-----------------------------------------------------------------------------
(* The controller server *)

\* publish() changes the last command, if the publisher is active.
LEMMA PublishIs ==
  ASSUME NEW P, NEW O, NEW c \in Callbacks(P, O), NEW v \in {"zero", "moving"}
  PROVE  /\ Publish(c, v) \in Callbacks(P, O)
         /\ Publish(c, v).at = c.at /\ Publish(c, v).job = c.job /\ Publish(c, v).gate = c.gate
         /\ Publish(c, v).kept = c.kept /\ Publish(c, v).own = c.own
         /\ Publish(c, v).velocity = (IF c.gate THEN v ELSE c.velocity)
BY SMTT(30) DEF Publish, Callbacks

\* The callback ends with a stop command.
StoppedAt(c) ==
  /\ c.at = "return" /\ c.job = cb.job /\ c.gate = cb.gate /\ c.kept = cb.kept /\ c.own = cb.own
  /\ c.gate => c.velocity = "zero"

\* Publish(Goto("return"), "zero") leaves the members alone.
LEMMA StopIs ==
  ASSUME NEW P, NEW O, cb \in Callbacks(P, O), "return" \in P
  PROVE  /\ Publish(Goto("return"), "zero") \in Callbacks(P, O)
         /\ StoppedAt(Publish(Goto("return"), "zero"))
<1>1. Goto("return") \in Callbacks(P, O) /\ Moved(Goto("return"), "return")
  BY GotoIs, SMTT(30)
<1> DEFINE c == Goto("return")
<1> HIDE DEF c
<1>2. /\ Publish(c, "zero") \in Callbacks(P, O)
      /\ Publish(c, "zero").at = c.at /\ Publish(c, "zero").job = c.job
      /\ Publish(c, "zero").gate = c.gate /\ Publish(c, "zero").kept = c.kept
      /\ Publish(c, "zero").own = c.own
      /\ Publish(c, "zero").velocity = (IF c.gate THEN "zero" ELSE c.velocity)
  BY <1>1, PublishIs DEF c
<1> QED BY <1>1, <1>2 DEF c, Moved, StoppedAt

\* The callback ends its goals and stops.
LEMMA EndStops ==
  ASSUME NavInv, NEW P, NEW O, cb \in Callbacks(P, O), "return" \in P, cb.at # "off",
         NEW r \in Results, TerminateAll(r) \/ TerminateCurrent(r),
         Called(Publish(Goto("return"), "zero"))
  PROVE  Goes /\ current' = None /\ UNCHANGED lifeVars /\ cb' \in Callbacks(P, O) /\ StoppedAt(cb')
<1> DEFINE c == Publish(Goto("return"), "zero")
<1>1. c \in Callbacks(P, O) /\ StoppedAt(c)
  BY StopIs, SMTT(30)
<1> HIDE DEF c
<1>2. Goes /\ current' = None /\ UNCHANGED lifeVars /\ cb' = c
  BY <1>1, EndGoes, SMTT(30) DEF StoppedAt, c
<1> QED BY <1>1, <1>2

\* The callback succeeds and stops.
LEMMA SucceedStops ==
  ASSUME NavInv, NEW P, NEW O, cb \in Callbacks(P, O), "return" \in P, cb.at # "off",
         NEW r \in Results, SucceededCurrent(r), Called(Publish(Goto("return"), "zero")),
         r.kind # "short",
         current = None \/ r.for \subseteq {current} \/ (cb.kept /\ server \in KeepsData)
  PROVE  Goes /\ current' = None /\ UNCHANGED lifeVars /\ cb' \in Callbacks(P, O) /\ StoppedAt(cb')
<1> DEFINE c == Publish(Goto("return"), "zero")
<1>1. c \in Callbacks(P, O) /\ StoppedAt(c)
  BY StopIs, SMTT(30)
<1> HIDE DEF c
<1>2. Goes /\ current' = None /\ UNCHANGED lifeVars /\ cb' = c
  BY <1>1, SucceedGoes, SMTT(30) DEF StoppedAt, c
<1> QED BY <1>1, <1>2, SMTT(30)

\* What publishZeroVelocity leaves: the robot stands, or publish_zero_velocity was off.
ZeroedAt(c) ==
  /\ c.at = "return" /\ c.job = cb.job /\ c.gate = cb.gate /\ c.kept = cb.kept
  /\ c.gate => c.velocity = "zero" \/ ~c.own.zero

\* publishZeroVelocity() changes the last command and what is known of the parameter.
LEMMA ZeroIs ==
  ASSUME cb \in Callbacks(ControllerPlaces, ControllerOwn), NEW on \in BOOLEAN
  PROVE  /\ PublishZeroVelocity(on) \in Callbacks(ControllerPlaces, ControllerOwn)
         /\ ZeroedAt(PublishZeroVelocity(on))
<1> DEFINE C == Callbacks(ControllerPlaces, ControllerOwn)
           d == Goto("return")
           z == Publish(d, "zero")
           e == IF on THEN z ELSE d
<1>1. d \in C /\ Moved(d, "return")
  BY GotoIs, SMTT(30) DEF ControllerPlaces
<1> HIDE DEF d
<1>2. /\ z \in C /\ z.at = d.at /\ z.job = d.job /\ z.gate = d.gate /\ z.kept = d.kept
      /\ z.velocity = (IF d.gate THEN "zero" ELSE d.velocity)
  BY <1>1, PublishIs
<1>3. PublishZeroVelocity(on) = [e EXCEPT !.own.zero = on]
  BY SMTT(30) DEF PublishZeroVelocity, d
<1> HIDE DEF z
<1>4. /\ e \in C /\ e.at = d.at /\ e.job = d.job /\ e.gate = d.gate /\ e.kept = d.kept
      /\ (on /\ e.gate => e.velocity = "zero")
  BY <1>1, <1>2, SMTT(30)
<1> HIDE DEF e
<1> DEFINE c == [e EXCEPT !.own.zero = on]
<1>5. /\ c \in C /\ c.at = e.at /\ c.job = e.job /\ c.gate = e.gate /\ c.kept = e.kept
      /\ c.own.zero = on /\ c.velocity = e.velocity
  BY <1>4, Zenon DEF Callbacks, ControllerOwn
<1> QED BY <1>1, <1>3, <1>4, <1>5, SMTT(30) DEF Moved, ZeroedAt

\* computeControl ends its goals and calls publishZeroVelocity.
LEMMA EndZeroes ==
  ASSUME NavInv, cb \in Callbacks(ControllerPlaces, ControllerOwn), cb.at # "off",
         NEW r \in Results, TerminateAll(r) \/ TerminateCurrent(r),
         NEW on \in BOOLEAN, Called(PublishZeroVelocity(on))
  PROVE  /\ Goes /\ current' = None /\ UNCHANGED lifeVars
         /\ cb' \in Callbacks(ControllerPlaces, ControllerOwn) /\ ZeroedAt(cb')
<1> DEFINE c == PublishZeroVelocity(on)
<1>1. c \in Callbacks(ControllerPlaces, ControllerOwn) /\ ZeroedAt(c)
  BY ZeroIs
<1> HIDE DEF c
<1>2. Goes /\ current' = None /\ UNCHANGED lifeVars /\ cb' = c
  BY <1>1, EndGoes, SMTT(30) DEF ZeroedAt, c
<1> QED BY <1>1, <1>2

\* computeControl succeeds and calls publishZeroVelocity.
LEMMA SucceedZeroes ==
  ASSUME NavInv, cb \in Callbacks(ControllerPlaces, ControllerOwn), cb.at # "off",
         NEW r \in Results, SucceededCurrent(r),
         NEW on \in BOOLEAN, Called(PublishZeroVelocity(on)), r.kind # "short",
         current = None \/ r.for \subseteq {current} \/ (cb.kept /\ server \in KeepsData)
  PROVE  /\ Goes /\ current' = None /\ UNCHANGED lifeVars
         /\ cb' \in Callbacks(ControllerPlaces, ControllerOwn) /\ ZeroedAt(cb')
<1> DEFINE c == PublishZeroVelocity(on)
<1>1. c \in Callbacks(ControllerPlaces, ControllerOwn) /\ ZeroedAt(c)
  BY ZeroIs
<1> HIDE DEF c
<1>2. Goes /\ current' = None /\ UNCHANGED lifeVars /\ cb' = c
  BY <1>1, SucceedGoes, SMTT(30) DEF ZeroedAt, c
<1> QED BY <1>1, <1>2, SMTT(30)

\* A step of the control loop that only goes on to the next place.
LEMMA ControllerGoto ==
  ASSUME NavInv, server \in Controllers, NEW p \in ControllerLoops, Local(Goto(p)),
         cb.at \in ControllerLoops, p = "accept" => preempt_requested
  PROVE  Goes /\ ControllerInv'
<1> DEFINE C == Callbacks(ControllerPlaces, ControllerOwn)
<1>1. ControllerInv /\ IInv /\ cb \in C
  BY DEF NavInv, ServerInv, ControllerInv
<1>2. p \in ControllerPlaces /\ p \notin {"off", "entry"} /\ cb.at # "off"
  BY DEF ControllerPlaces, ControllerLoops
<1>3. Goes /\ UNCHANGED serverVars /\ cb' \in C /\ Moved(cb', p)
  BY <1>1, <1>2, GotoGoes
<1>4. p = "accept" => pending # None
  BY <1>1 DEF IInv, SlotsConsistent
<1> QED BY <1>1, <1>3, <1>4, ZenonT(40)
        DEF ControllerInv, ControllerLoops, Mine, serverVars, Moved, Undisturbed

\* Every step of computeControl.
LEMMA ControllerStep ==
  ASSUME NavInv, server \in Controllers, ControllerNext
  PROVE  Goes /\ ControllerInv'
<1> DEFINE C == Callbacks(ControllerPlaces, ControllerOwn)
<1>i. /\ ControllerInv /\ IInv /\ LifeInv /\ cb \in C
      /\ (cb.at = "entry" /\ current = None => lifecycle = "deactivating")
      /\ (cb.at = "off" <=> worker # "callback")
  BY DEF NavInv, ServerInv, CallbackInv, ControllerInv
<1>t. /\ cb.job \in Goals \cup {None} /\ cb.own \in ControllerOwn
      /\ cb.own.asked \in Goals \cup {None} /\ cb.own.refused \in BOOLEAN /\ cb.own.zero \in BOOLEAN
  BY <1>i, SMTT(30) DEF Callbacks, ControllerOwn
<1>g. cb.at # "off" => cb.gate
  BY <1>i DEF ControllerInv, LifeInv
<1>p. /\ "return" \in ControllerPlaces /\ "setup" \in ControllerPlaces
      /\ "return" \notin ControllerLoops /\ "off" \notin ControllerLoops
  BY SMTT(30) DEF ControllerPlaces, ControllerLoops
<1>r. ASSUME Goes, current' = None, UNCHANGED lifeVars, cb' \in C, ZeroedAt(cb'), cb.at # "off"
      PROVE  ControllerInv'
  BY <1>i, <1>g, <1>r, SMTT(30) DEF ControllerInv, ControllerLoops, ZeroedAt, lifeVars
<1>1. CASE ControllerEntry
  <2>1. cb.at = "entry" /\ Local([cb EXCEPT !.at = "setup", !.job = CurrentGoal])
    BY <1>1 DEF ControllerEntry, GetCurrentGoal, Here
  <2>2. /\ Goes /\ UNCHANGED serverVars /\ cb' \in C
        /\ cb'.at = "setup" /\ cb'.job = current /\ cb'.velocity = cb.velocity /\ cb'.gate = cb.gate
        /\ cb'.own = cb.own
    BY <1>i, <1>p, <2>1, EntryGoes, Zenon
  <2> QED BY <1>i, <2>1, <2>2, SMTT(30)
          DEF ControllerInv, ControllerLoops, Mine, serverVars, Undisturbed
<1>2. CASE ControllerSetup
  <2>1. cb.at = "setup" /\ Mine
    BY <1>i, <1>2, SMTT(30) DEF ControllerSetup, Here, ControllerInv
  <2>2. CASE cb.job = None
    <3>1. Local(Goto("return"))
      BY <1>2, <2>2 DEF ControllerSetup
    <3>2. Goes /\ UNCHANGED serverVars /\ cb' \in C /\ Moved(cb', "return")
      BY <1>i, <1>p, <2>1, <3>1, GotoGoes, SMTT(30)
    <3> QED BY <1>i, <2>1, <3>2
            DEF ControllerInv, ControllerLoops, Mine, serverVars, Moved, Undisturbed
  <2>3. CASE cb.job # None
    <3>1. PICK p \in {"loop", "error"} : Local([cb EXCEPT !.at = p, !.own.refused = FALSE])
      BY <1>2, <2>3 DEF ControllerSetup
    <3> DEFINE c == [cb EXCEPT !.at = p, !.own.refused = FALSE]
    <3>2. c \in C /\ c.at = p /\ c.job = cb.job /\ c.velocity = cb.velocity /\ c.gate = cb.gate
          /\ c.kept = cb.kept /\ c.own.zero = cb.own.zero
      BY <1>i, <1>t, <3>1, Zenon DEF Callbacks, ControllerOwn, ControllerPlaces, ControllerLoops
    <3> HIDE DEF c
    <3>3. Goes /\ UNCHANGED serverVars /\ cb' = c
      BY <2>1, <3>1, <3>2, LocalGoes, Zenon DEF c
    <3> QED BY <1>i, <2>1, <3>1, <3>2, <3>3, SMTT(30)
            DEF ControllerInv, ControllerLoops, Mine, serverVars, Undisturbed
  <2> QED BY <2>2, <2>3
<1>3. CASE ControllerLoop
  <2>1. cb.at = "loop" /\ Local(Goto(IF server_active THEN "cancel" ELSE "return"))
    BY <1>3 DEF ControllerLoop, ReturnIfInactive, Here
  <2>2. CASE server_active
    BY <2>1, <2>2, ControllerGoto, SMTT(30) DEF ControllerLoops
  <2>3. CASE ~server_active
    <3>1. lifecycle = "deactivating"
      BY <1>i, <2>1, <2>3, SMTT(30) DEF LifeInv, IInv, TypeOK
    <3>2. Goes /\ UNCHANGED serverVars /\ cb' \in C /\ Moved(cb', "return")
      BY <1>i, <1>p, <2>1, <2>3, GotoGoes, SMTT(30)
    <3> QED BY <1>i, <2>1, <3>1, <3>2, ZenonT(40)
            DEF ControllerInv, ControllerLoops, Mine, serverVars, Moved, Undisturbed
  <2> QED BY <2>2, <2>3
<1>4. CASE ControllerStops \/ ControllerGoesOn
  <2>1. cb.at = "cancel" /\ \E p \in {"cancelled", "costmap"} : Local(Goto(p))
    BY <1>4 DEF ControllerStops, ControllerGoesOn, TestCancel, Here
  <2> QED BY <2>1, ControllerGoto DEF ControllerLoops
<1>5. CASE ControllerCancelled
  <2>1. PICK on \in BOOLEAN :
          cb.at = "cancelled" /\ TerminateAll(EmptyResult) /\ Called(PublishZeroVelocity(on))
    BY <1>5, SMTT(30) DEF ControllerCancelled, Here
  <2>2. Goes /\ current' = None /\ UNCHANGED lifeVars /\ cb' \in C /\ ZeroedAt(cb')
    BY <1>i, <2>1, EndZeroes, EmptyResultAssumption, SMTT(30)
  <2> QED BY <1>r, <2>1, <2>2
<1>6. CASE ControllerWaitForCostmap
  <2>1. cb.at = "costmap" /\ \E p \in {"update", "error"} : Local(Goto(p))
    BY <1>6, SMTT(30) DEF ControllerWaitForCostmap, Here
  <2> QED BY <2>1, ControllerGoto, SMTT(30) DEF ControllerLoops
<1>7. CASE ControllerIsPreempted
  <2>1. cb.at = "update" /\ Local(Goto(IF preempt_requested THEN "accept" ELSE "velocity"))
    BY <1>7 DEF ControllerIsPreempted, Here
  <2> QED BY <2>1, ControllerGoto DEF ControllerLoops
<1>8. CASE ControllerAccept
  <2>1. /\ cb.at = "accept" /\ AcceptPendingGoal
        /\ Called(IF is_active(pending) THEN [cb EXCEPT !.at = "retarget", !.own.asked = pending]
                  ELSE Goto("crashed"))
    BY <1>8 DEF ControllerAccept, Here
  <2>2. pending \in Goals \cup {None}
    BY <1>i, CurrentGoalIs, SMTT(30)
  <2>3. CASE is_active(pending)
    <3> DEFINE c == [cb EXCEPT !.at = "retarget", !.own.asked = pending]
    <3>1. c \in C /\ c.at = "retarget" /\ c.job = cb.job /\ c.velocity = cb.velocity
          /\ c.gate = cb.gate /\ c.kept = cb.kept /\ c.own.asked = pending
      BY <1>i, <1>t, <2>2, ZenonT(40) DEF Callbacks, ControllerOwn, ControllerPlaces, ControllerLoops
    <3>2. Called(c)
      BY <2>1, <2>3
    <3> HIDE DEF c
    <3>3. /\ Goes /\ cb' = c /\ UNCHANGED lifeVars
          /\ current' = (IF pending = None THEN current ELSE pending)
          /\ is_active(pending) <=> pending # None
      BY <2>1, <3>1, <3>2, AcceptGoes
    <3> QED BY <1>i, <2>1, <2>3, <3>1, <3>3, SMTT(30)
            DEF ControllerInv, ControllerLoops, Mine, lifeVars, Undisturbed
  <2>4. CASE ~is_active(pending)
    <3>1. Goto("crashed") \in C /\ Moved(Goto("crashed"), "crashed")
      BY <1>i, GotoIs DEF ControllerPlaces
    <3>2. Called(Goto("crashed"))
      BY <2>1, <2>4, SMTT(30)
    <3>3. /\ Goes /\ cb' = Goto("crashed") /\ UNCHANGED lifeVars
          /\ is_active(pending) <=> pending # None
      BY <2>1, <3>1, <3>2, AcceptGoes DEF Moved
    <3> QED BY <1>i, <2>1, <2>4, <3>1, <3>3
            DEF ControllerInv, ControllerLoops, Mine, lifeVars, Undisturbed, Moved
  <2> QED BY <2>3, <2>4
<1>9. CASE ControllerRetarget
  <2>1. cb.at = "retarget" /\ current \in {None, cb.own.asked}
    BY <1>i, <1>9, SMTT(30) DEF ControllerRetarget, Here, ControllerInv
  <2>2. CASE Local([cb EXCEPT !.at = "refuse", !.own.asked = None])
    <3> DEFINE c == [cb EXCEPT !.at = "refuse", !.own.asked = None]
    <3>1. c \in C /\ c.at = "refuse" /\ c.job = cb.job /\ c.velocity = cb.velocity
          /\ c.gate = cb.gate /\ c.kept = cb.kept
      BY <1>i, <1>t, Zenon DEF Callbacks, ControllerOwn, ControllerPlaces, ControllerLoops
    <3> HIDE DEF c
    <3>2. Goes /\ UNCHANGED serverVars /\ cb' = c
      BY <2>1, <2>2, <3>1, LocalGoes, Zenon DEF c
    <3> QED BY <1>i, <2>1, <3>1, <3>2, ZenonT(40)
            DEF ControllerInv, ControllerLoops, Mine, serverVars, Undisturbed
  <2>3. CASE ~Local([cb EXCEPT !.at = "refuse", !.own.asked = None])
    <3>1. PICK p \in {"velocity", "error"} :
            Local([cb EXCEPT !.at = p, !.job = cb.own.asked, !.own.asked = None, !.own.refused = FALSE])
      BY <1>9, <2>3 DEF ControllerRetarget
    <3> DEFINE o == [cb.own EXCEPT !.asked = None, !.refused = FALSE]
               c == [cb EXCEPT !.at = p, !.job = cb.own.asked, !.own.asked = None,
                               !.own.refused = FALSE]
    <3>2. o \in ControllerOwn
      BY <1>t, Zenon DEF ControllerOwn
    <3>3. c = [cb EXCEPT !.at = p, !.job = cb.own.asked, !.own = o]
      BY <1>i, <1>t, Zenon DEF Callbacks, ControllerOwn
    <3> HIDE DEF o
    <3>4. c \in C /\ c.at = p /\ c.job = cb.own.asked /\ c.velocity = cb.velocity
          /\ c.gate = cb.gate /\ c.kept = cb.kept
      BY <1>i, <1>t, <3>1, <3>2, <3>3, Zenon DEF Callbacks, ControllerPlaces, ControllerLoops
    <3> HIDE DEF c
    <3>5. Goes /\ UNCHANGED serverVars /\ cb' = c
      BY <2>1, <3>1, <3>4, LocalGoes, ZenonT(40) DEF c
    <3> QED BY <1>i, <2>1, <3>1, <3>4, <3>5, SMTT(30)
            DEF ControllerInv, ControllerLoops, Mine, serverVars, Undisturbed
  <2> QED BY <2>2, <2>3
<1>10. CASE ControllerRefuse
  <2> DEFINE c == [cb EXCEPT !.at = "velocity", !.own.refused = TRUE]
  <2>1. cb.at = "refuse" /\ TerminateCurrent(EmptyResult) /\ Called(c)
    BY <1>10 DEF ControllerRefuse, Here
  <2>2. c \in C /\ c.at = "velocity" /\ c.job = cb.job /\ c.velocity = cb.velocity
        /\ c.gate = cb.gate /\ c.kept = cb.kept /\ c.own.refused
    BY <1>i, <1>t, Zenon DEF Callbacks, ControllerOwn, ControllerPlaces, ControllerLoops
  <2> HIDE DEF c
  <2>3. Goes /\ current' = None /\ cb' = c /\ UNCHANGED lifeVars
    BY <2>1, <2>2, EndGoes, EmptyResultAssumption, Zenon
  <2> QED BY <1>i, <2>1, <2>2, <2>3
          DEF ControllerInv, ControllerLoops, Mine, lifeVars, Undisturbed
<1>11. CASE ControllerComputeAndPublishVelocity
  <2>1. cb.at = "velocity"
    BY <1>11 DEF ControllerComputeAndPublishVelocity, Here
  <2>2. CASE Local(Goto("error"))
    BY <2>1, <2>2, ControllerGoto, SMTT(30) DEF ControllerLoops
  <2>3. CASE ~Local(Goto("error"))
    <3>1. PICK v \in {"zero", "moving"} : Local(Publish(Goto("reached"), v))
      BY <1>11, <2>3 DEF ControllerComputeAndPublishVelocity
    <3>2. Goto("reached") \in C /\ Moved(Goto("reached"), "reached")
      BY <1>i, GotoIs, SMTT(30) DEF ControllerPlaces, ControllerLoops
    <3> DEFINE d == Goto("reached")
               c == Publish(d, v)
    <3> HIDE DEF d
    <3>3. c \in C /\ c.at = d.at /\ c.job = d.job /\ c.gate = d.gate /\ c.kept = d.kept /\ c.own = d.own
      BY <3>1, <3>2, PublishIs, SMTT(30) DEF d
    <3> HIDE DEF c
    <3>4. Goes /\ UNCHANGED serverVars /\ cb' = c
      BY <2>1, <3>1, <3>2, <3>3, LocalGoes, ZenonT(40) DEF c, d, Moved
    <3> QED BY <1>i, <2>1, <3>2, <3>3, <3>4, ZenonT(40)
            DEF ControllerInv, ControllerLoops, Mine, serverVars, Undisturbed, Moved, d
  <2> QED BY <2>2, <2>3
<1>12. CASE ControllerIsGoalReached
  <2>1. cb.at = "reached" /\ \E p \in {"loop", "succeed"} : Local(Goto(p))
    BY <1>12 DEF ControllerIsGoalReached, Here
  <2> QED BY <2>1, ControllerGoto DEF ControllerLoops
<1>13. CASE ControllerError
  <2>1. PICK on \in BOOLEAN :
          cb.at = "error" /\ TerminateCurrent(Answer("error")) /\ Called(PublishZeroVelocity(on))
    BY <1>13 DEF ControllerError, Here
  <2>2. Answer("error") \in Results
    BY <1>t, AnswerIs, SMTT(30) DEF AnswerKinds
  <2>3. Goes /\ current' = None /\ UNCHANGED lifeVars /\ cb' \in C /\ ZeroedAt(cb')
    BY <1>i, <2>1, <2>2, EndZeroes, SMTT(30)
  <2> QED BY <1>r, <2>1, <2>3
<1>14. CASE ControllerSucceed
  <2>1. PICK on \in BOOLEAN :
          /\ cb.at = "succeed" /\ Mine /\ SucceededCurrent(Answer("done"))
          /\ Called(PublishZeroVelocity(on))
    BY <1>i, <1>14, SMTT(30) DEF ControllerSucceed, Here, ControllerInv, ControllerLoops
  <2>2. /\ Answer("done") \in Results /\ Answer("done").kind # "short"
        /\ Answer("done").for \subseteq {cb.job}
    BY <1>t, AnswerIs, SMTT(30) DEF AnswerKinds
  <2>3. current = None \/ Answer("done").for \subseteq {current}
    BY <2>1, <2>2, SMTT(30) DEF Mine
  <2>4. Goes /\ current' = None /\ UNCHANGED lifeVars /\ cb' \in C /\ ZeroedAt(cb')
    BY <1>i, <2>1, <2>2, <2>3, SucceedZeroes, SMTT(30)
  <2> QED BY <1>r, <2>1, <2>4, SMTT(30)
<1> QED BY <1>1, <1>2, <1>3, <1>4, <1>5, <1>6, <1>7, <1>8, <1>9, <1>10, <1>11, <1>12, <1>13, <1>14, SMTT(30)
        DEF ControllerNext

-----------------------------------------------------------------------------
(* The behavior server *)

\* What stopRobot leaves: the robot stands if the publisher is active.
Halted(c, p) ==
  /\ c.at = p /\ c.job = cb.job /\ c.gate = cb.gate /\ c.kept = cb.kept
  /\ ~c.own.lost
  /\ c.velocity \in {"zero", cb.velocity}
  /\ c.gate => c.velocity = "zero"

\* stopRobot() and on to the next place.
LEMMA StopRobotIs ==
  ASSUME cb \in Callbacks(BehaviorPlaces, BehaviorOwn), NEW p \in BehaviorPlaces
  PROVE  /\ StopRobot(Goto(p)) \in Callbacks(BehaviorPlaces, BehaviorOwn)
         /\ Halted(StopRobot(Goto(p)), p)
<1> DEFINE C == Callbacks(BehaviorPlaces, BehaviorOwn)
           d == Goto(p)
           e == Publish(d, "zero")
<1>1. d \in C /\ Moved(d, p)
  BY GotoIs, SMTT(30)
<1> HIDE DEF d
<1>2. /\ e \in C /\ e.at = d.at /\ e.job = d.job /\ e.gate = d.gate /\ e.kept = d.kept
      /\ e.own = d.own /\ e.velocity = (IF d.gate THEN "zero" ELSE d.velocity)
  BY <1>1, PublishIs
<1>3. StopRobot(d) = [e EXCEPT !.own.lost = FALSE]
  BY DEF StopRobot
<1> HIDE DEF e
<1> DEFINE c == [e EXCEPT !.own.lost = FALSE]
<1>4. /\ c \in C /\ c.at = e.at /\ c.job = e.job /\ c.gate = e.gate /\ c.kept = e.kept
      /\ ~c.own.lost /\ c.velocity = e.velocity
  BY <1>2, Zenon DEF Callbacks, BehaviorOwn
<1> QED BY <1>1, <1>2, <1>3, <1>4, SMTT(30) DEF Moved, Halted, d

\* A step of a behavior that only goes on to the next place.
LEMMA BehaviorGoto ==
  ASSUME NavInv, server \in Behaviors, NEW p \in BehaviorWork, Local(Goto(p)),
         cb.at \in BehaviorWork, cb.at \in BehaviorLoops => p \in BehaviorLoops
  PROVE  Goes /\ BehaviorInv'
<1> DEFINE C == Callbacks(BehaviorPlaces, BehaviorOwn)
<1>1. BehaviorInv /\ IInv /\ cb \in C
  BY DEF NavInv, ServerInv, BehaviorInv
<1>2. p \in BehaviorPlaces /\ p \notin {"off", "entry"} /\ cb.at # "off"
  BY DEF BehaviorPlaces, BehaviorWork, BehaviorLoops
<1>3. Goes /\ UNCHANGED serverVars /\ cb' \in C /\ Moved(cb', p)
  BY <1>1, <1>2, GotoGoes, SMTT(30)
<1> QED BY <1>1, <1>3, ZenonT(40)
        DEF Goes, BehaviorInv, BehaviorWork, BehaviorLoops, Mine, serverVars, Moved, Undisturbed

\* A step to a local state c of a behavior that keeps the goal.
LEMMA BehaviorGoesOn ==
  ASSUME NavInv, server \in Behaviors, cb.at \in BehaviorWork,
         NEW c \in Callbacks(BehaviorPlaces, BehaviorOwn), Local(c), c.at \in BehaviorWork,
         c.job = cb.job, c.gate = cb.gate, c.kept = cb.kept,
         c.velocity = "moving" => c.at \in BehaviorLoops \/ c.own.lost \/ ~Undisturbed,
         server = "wait" => c.velocity = "zero"
  PROVE  Goes /\ BehaviorInv'
<1>1. BehaviorInv /\ cb.at # "off" /\ c.at \notin {"off", "entry"}
  BY ZenonT(40) DEF NavInv, ServerInv, BehaviorWork, BehaviorLoops
<1>2. Goes /\ UNCHANGED serverVars /\ cb' = c
  BY <1>1, LocalGoes
<1> QED BY <1>1, <1>2, ZenonT(40) DEF Goes, BehaviorInv, BehaviorWork, BehaviorLoops, Mine, serverVars, Undisturbed

\* Every step of TimedBehavior::execute.
LEMMA BehaviorStep ==
  ASSUME NavInv, server \in Behaviors, BehaviorNext
  PROVE  Goes /\ BehaviorInv'
<1> DEFINE C == Callbacks(BehaviorPlaces, BehaviorOwn)
<1>i. /\ BehaviorInv /\ IInv /\ LifeInv /\ cb \in C
      /\ (cb.at = "entry" /\ current = None => lifecycle = "deactivating")
      /\ (cb.at = "off" <=> worker # "callback")
  BY DEF NavInv, ServerInv, CallbackInv, BehaviorInv
<1>t. cb.job \in Goals \cup {None} /\ cb.own \in BehaviorOwn
  BY <1>i, SMTT(30) DEF Callbacks
<1>a. cb.at # "off" /\ Undisturbed => cb.gate
  BY <1>i DEF BehaviorInv, LifeInv, IInv, TypeOK, Undisturbed
<1>p. /\ "return" \in BehaviorPlaces /\ "run" \in BehaviorPlaces /\ "crashed" \in BehaviorPlaces
      /\ BehaviorWork \subseteq BehaviorPlaces /\ BehaviorLoops \subseteq BehaviorWork
      /\ "off" \notin BehaviorWork /\ "return" \notin BehaviorWork
  BY SMTT(30) DEF BehaviorPlaces, BehaviorWork, BehaviorLoops
<1>c. ASSUME Local(Goto("crashed")), cb.at = "run", cb.job = None
      PROVE  Goes /\ BehaviorInv'
  <2>1. Goes /\ UNCHANGED serverVars /\ cb' \in C /\ Moved(cb', "crashed")
    BY <1>i, <1>p, <1>c, GotoGoes, SMTT(30)
  <2> QED BY <1>i, <1>c, <2>1
          DEF Goes, BehaviorInv, BehaviorWork, BehaviorLoops, Mine, serverVars, Moved, Undisturbed
<1>h. ASSUME NEW r \in Results, TerminateAll(r) \/ TerminateCurrent(r),
             Called(StopRobot(Goto("return"))), cb.at # "off"
      PROVE  Goes /\ BehaviorInv'
  <2> DEFINE c == StopRobot(Goto("return"))
  <2>1. c \in C /\ Halted(c, "return")
    BY <1>i, <1>p, StopRobotIs, SMTT(30)
  <2> HIDE DEF c
  <2>2. Goes /\ current' = None /\ UNCHANGED lifeVars /\ cb' = c
    BY <1>h, <2>1, EndGoes, ZenonT(40) DEF c, Halted
  <2> QED BY <1>i, <1>a, <1>h, <2>1, <2>2, ZenonT(40)
          DEF Goes, BehaviorInv, BehaviorWork, BehaviorLoops, Halted, lifeVars, Undisturbed
<1>s. ASSUME NEW p \in {"failed", "succeeded"}, Local(StopRobot(Goto(p))), cb.at = "cycle"
      PROVE  Goes /\ BehaviorInv'
  <2> DEFINE c == StopRobot(Goto(p))
  <2>0. p \in BehaviorWork /\ cb.at \in BehaviorWork
    BY <1>s DEF BehaviorWork, BehaviorLoops
  <2>1. c \in C /\ Halted(c, p)
    BY <1>i, <1>p, <2>0, StopRobotIs, SMTT(30)
  <2> HIDE DEF c
  <2>2. (c.velocity = "moving" => ~Undisturbed) /\ (server = "wait" => c.velocity = "zero")
    BY <1>i, <1>a, <1>s, <2>1 DEF Halted, BehaviorInv
  <2> QED BY <1>s, <2>0, <2>1, <2>2, BehaviorGoesOn, ZenonT(40) DEF c, Halted
<1>l. ASSUME Local([cb EXCEPT !.at = "failed", !.own.lost = TRUE]), cb.at = "cycle"
      PROVE  Goes /\ BehaviorInv'
  <2> DEFINE c == [cb EXCEPT !.at = "failed", !.own.lost = TRUE]
  <2>1. /\ c \in C /\ c.at = "failed" /\ c.job = cb.job /\ c.gate = cb.gate /\ c.kept = cb.kept
        /\ c.own.lost /\ c.velocity = cb.velocity
    BY <1>i, <1>t, ZenonT(40) DEF Callbacks, BehaviorOwn, BehaviorPlaces, BehaviorWork
  <2>2. /\ cb.at \in BehaviorWork /\ "failed" \in BehaviorWork
        /\ server = "wait" => cb.velocity = "zero"
    BY <1>i, <1>l, SMTT(30) DEF BehaviorWork, BehaviorLoops, BehaviorInv
  <2> HIDE DEF c
  <2> QED BY <1>l, <2>1, <2>2, BehaviorGoesOn, Zenon DEF c
<1>v. ASSUME NEW v \in {"zero", "moving"}, Local(Publish(Goto("loop"), v)), cb.at = "cycle",
             server # "wait"
      PROVE  Goes /\ BehaviorInv'
  <2> DEFINE d == Goto("loop")
             c == Publish(d, v)
  <2>0. "loop" \in BehaviorLoops /\ cb.at \in BehaviorWork
    BY <1>v DEF BehaviorWork, BehaviorLoops
  <2>1. d \in C /\ Moved(d, "loop")
    BY <1>i, <1>p, <2>0, GotoIs, SMTT(30)
  <2> HIDE DEF d
  <2>2. c \in C /\ c.at = d.at /\ c.job = d.job /\ c.gate = d.gate /\ c.kept = d.kept
    BY <2>1, PublishIs, SMTT(30)
  <2> HIDE DEF c
  <2>3. c.at \in BehaviorLoops /\ c.at \in BehaviorWork
    BY <1>p, <2>0, <2>1, <2>2, SMTT(30) DEF Moved
  <2> QED BY <1>v, <2>0, <2>1, <2>2, <2>3, BehaviorGoesOn, ZenonT(40) DEF c, d, Moved
<1>1. CASE BehaviorEntry
  <2>1. cb.at = "entry"
    BY <1>1, SMTT(30) DEF BehaviorEntry, Here
  <2>2. CASE cb.own.enabled
    <3>1. Local([cb EXCEPT !.at = "run", !.job = CurrentGoal])
      BY <1>1, <2>2, SMTT(30) DEF BehaviorEntry
    <3>2. /\ Goes /\ UNCHANGED serverVars /\ cb' \in C
          /\ cb'.at = "run" /\ cb'.job = current /\ cb'.velocity = cb.velocity
          /\ cb'.gate = cb.gate /\ cb'.own = cb.own
      BY <1>i, <1>p, <2>1, <3>1, EntryGoes, ZenonT(40)
    <3> QED BY <1>i, <2>1, <3>2
            DEF Goes, BehaviorInv, BehaviorWork, BehaviorLoops, Mine, serverVars, Undisturbed
  <2>3. CASE ~cb.own.enabled
    <3>1. Local(Goto("return"))
      BY <1>1, <2>3, SMTT(30) DEF BehaviorEntry
    <3>2. Goes /\ UNCHANGED serverVars /\ cb' \in C /\ Moved(cb', "return")
      BY <1>i, <1>p, <2>1, <3>1, GotoGoes, SMTT(30)
    <3> QED BY <1>i, <2>1, <3>2
            DEF Goes, BehaviorInv, BehaviorWork, BehaviorLoops, Mine, serverVars, Moved, Undisturbed
  <2> QED BY <2>2, <2>3
<1>2. CASE DriveOnRun \/ UntimedOnRun \/ SpinOnRun
  <2>1. cb.at = "run" /\ cb.at \in BehaviorWork /\ cb.at \notin BehaviorLoops
    BY <1>2 DEF DriveOnRun, UntimedOnRun, SpinOnRun, Here, BehaviorWork, BehaviorLoops
  <2>2. \/ cb.job = None /\ Local(Goto("crashed"))
        \/ \E p \in {"loop", "failed"} : Local(Goto(p))
    BY <1>2 DEF DriveOnRun, UntimedOnRun, SpinOnRun
  <2>3. "loop" \in BehaviorWork /\ "failed" \in BehaviorWork
    BY DEF BehaviorWork, BehaviorLoops
  <2> QED BY <1>c, <2>1, <2>2, <2>3, BehaviorGoto, SMTT(30)
<1>3. CASE BehaviorIsPreempted \/ BehaviorIsCanceled
  <2>1. /\ cb.at \in {"loop", "cancel"}
        /\ \E p \in {"preempted", "cancel", "cancelled", "cycle"} : Local(Goto(p))
    BY <1>3 DEF BehaviorIsPreempted, BehaviorIsCanceled, TestCancel, Here
  <2> QED BY <2>1, BehaviorGoto DEF BehaviorWork, BehaviorLoops
<1>4. CASE BehaviorPreempted \/ BehaviorCancelled
  <2>1. /\ cb.at # "off" /\ Called(StopRobot(Goto("return")))
        /\ TerminateAll(Answer("empty")) \/ TerminateCurrent(Answer("empty"))
    BY <1>4, SMTT(30) DEF BehaviorPreempted, BehaviorCancelled, Here
  <2>2. Answer("empty") \in Results
    BY <1>t, AnswerIs DEF AnswerKinds
  <2> QED BY <1>h, <2>1, <2>2, SMTT(30)
<1>5. CASE DriveOnCycleUpdate \/ SpinOnCycleUpdate \/ TeleopOnCycleUpdate
  <2>1. cb.at = "cycle" /\ server # "wait"
    BY <1>5 DEF DriveOnCycleUpdate, SpinOnCycleUpdate, TeleopOnCycleUpdate, Here, Drives
  <2>2. \/ \E p \in {"failed", "succeeded"} : Local(StopRobot(Goto(p)))
        \/ Local([cb EXCEPT !.at = "failed", !.own.lost = TRUE])
        \/ \E v \in {"zero", "moving"} : Local(Publish(Goto("loop"), v))
    BY <1>5 DEF DriveOnCycleUpdate, SpinOnCycleUpdate, TeleopOnCycleUpdate
  <2> QED BY <1>s, <1>l, <1>v, <2>1, <2>2, SMTT(30)
<1>6. CASE WaitOnCycleUpdate
  <2>1. cb.at = "cycle" /\ server = "wait" /\ \E p \in {"loop", "succeeded"} : Local(Goto(p))
    BY <1>6 DEF WaitOnCycleUpdate, Here
  <2>2. CASE Local(Goto("loop"))
    BY <2>1, <2>2, BehaviorGoto, SMTT(30) DEF BehaviorWork, BehaviorLoops
  <2>3. CASE Local(Goto("succeeded"))
    <3> DEFINE c == Goto("succeeded")
    <3>1. "succeeded" \in BehaviorWork /\ cb.at \in BehaviorWork
      BY <2>1 DEF BehaviorWork, BehaviorLoops
    <3>2. c \in C /\ Moved(c, "succeeded")
      BY <1>i, <1>p, <3>1, GotoIs, SMTT(30)
    <3>3. cb.velocity = "zero"
      BY <1>i, <2>1, SMTT(30) DEF BehaviorInv
    <3> HIDE DEF c
    <3>4. Local(c) /\ c.velocity # "moving"
      BY <2>3, <3>2, <3>3, SMTT(30) DEF c, Moved
    <3> QED BY <3>1, <3>2, <3>3, <3>4, BehaviorGoesOn, SMTT(30) DEF Moved
  <2> QED BY <2>1, <2>2, <2>3
<1>7. CASE BehaviorFailed
  <2>1. cb.at = "failed" /\ TerminateCurrent(Answer("error")) /\ Called(Goto("return"))
    BY <1>7, SMTT(30) DEF BehaviorFailed, EndCurrent, Here
  <2>2. Answer("error") \in Results
    BY <1>t, AnswerIs DEF AnswerKinds
  <2>3. Goes /\ current' = None /\ UNCHANGED lifeVars /\ cb' \in C /\ Moved(cb', "return")
    BY <1>i, <1>p, <2>1, <2>2, EndReturns, SMTT(30)
  <2> QED BY <1>i, <2>1, <2>3
          DEF Goes, BehaviorInv, BehaviorWork, BehaviorLoops, Moved, lifeVars, Undisturbed
<1>8. CASE BehaviorSucceeded
  <2>1. cb.at = "succeeded" /\ SucceededCurrent(Answer("done")) /\ Called(Goto("return")) /\ Mine
    BY <1>i, <1>8, SMTT(30) DEF BehaviorSucceeded, EndSucceeded, Here, BehaviorInv, BehaviorWork
  <2>2. /\ Answer("done") \in Results /\ Answer("done").kind # "short"
        /\ Answer("done").for \subseteq {cb.job}
    BY <1>t, AnswerIs DEF AnswerKinds
  <2>3. current = None \/ Answer("done").for \subseteq {current}
    BY <2>1, <2>2, SMTT(30) DEF Mine
  <2>4. Goes /\ current' = None /\ UNCHANGED lifeVars /\ cb' \in C /\ Moved(cb', "return")
    BY <1>i, <1>p, <2>1, <2>2, <2>3, SucceedReturns, ZenonT(40)
  <2> QED BY <1>i, <2>1, <2>4, ZenonT(40)
          DEF Goes, BehaviorInv, BehaviorWork, BehaviorLoops, Moved, lifeVars, Undisturbed
<1> QED BY <1>1, <1>2, <1>3, <1>4, <1>5, <1>6, <1>7, <1>8, SMTT(30) DEF BehaviorNext

-----------------------------------------------------------------------------
(* The docking server *)

\* A step to a local state c in the middle of dockRobot or undockRobot.
LEMMA DockGoesOn ==
  ASSUME NavInv, server \in Docks, cb.at \in DockWork,
         NEW c \in Callbacks(DockPlaces, DockOwn), Local(c), c.at \in DockWork, c.at # "find",
         c.job = cb.job, c.gate = cb.gate, c.kept = cb.kept,
         c.at \in DockHolds \ {"error", "interrupted"} => c.own.retries <= MaxRetries,
         c.own.dock = "new" => c.at \in DockHolds \/ c.own.leaked,
         c.velocity = "moving" => c.at \in DockDrives \cup UndockDrives
  PROVE  Goes /\ DockInv'
<1>1. /\ DockInv /\ cb.at \notin {"off", "inactive", "entry"}
      /\ c.at \notin {"off", "inactive", "entry"}
  BY ZenonT(40) DEF NavInv, ServerInv, DockWork, DockHolds, DockDrives, UndockDrives
<1>2. Goes /\ UNCHANGED serverVars /\ cb' = c
  BY <1>1, LocalGoes, ZenonT(40)
<1> QED BY <1>1, <1>2, ZenonT(40) DEF DockInv, Mine, serverVars, Undisturbed

\* A step that only goes on to the next place.
LEMMA DockGoto ==
  ASSUME NavInv, server \in Docks, cb.at \in DockWork, NEW p \in DockWork, Local(Goto(p)),
         p # "find",
         p \in DockHolds \ {"error", "interrupted"} => cb.own.retries <= MaxRetries,
         cb.at \in DockHolds => p \in DockHolds,
         cb.at \in DockDrives \cup UndockDrives => p \in DockDrives \cup UndockDrives
  PROVE  Goes /\ DockInv'
<1> DEFINE c == Goto(p)
<1>1. DockInv /\ cb \in Callbacks(DockPlaces, DockOwn) /\ p \in DockPlaces
  BY ZenonT(40) DEF NavInv, ServerInv, DockInv, DockPlaces
<1>2. c \in Callbacks(DockPlaces, DockOwn) /\ Moved(c, p)
  BY <1>1, GotoIs, SMTT(30)
<1> HIDE DEF c
<1>3. /\ c.own.dock = "new" => c.at \in DockHolds \/ c.own.leaked
      /\ c.velocity = "moving" => c.at \in DockDrives \cup UndockDrives
      /\ c.at \in DockHolds \ {"error", "interrupted"} => c.own.retries <= MaxRetries
  BY <1>1, <1>2, ZenonT(40) DEF DockInv, Moved
<1> QED BY <1>1, <1>2, <1>3, DockGoesOn, ZenonT(40) DEF Moved, c

\* A command to the base on the way to the next place.
LEMMA DockPublish ==
  ASSUME NavInv, server \in Docks, cb.at \in DockDrives \cup UndockDrives,
         NEW p \in DockDrives \cup UndockDrives, NEW v \in {"zero", "moving"},
         Local(Publish(Goto(p), v)),
         p \in DockHolds \ {"error", "interrupted"} => cb.own.retries <= MaxRetries,
         cb.at \in DockHolds => p \in DockHolds
  PROVE  Goes /\ DockInv'
<1> DEFINE C == Callbacks(DockPlaces, DockOwn)
           d == Goto(p)
           c == Publish(d, v)
<1>1. /\ DockInv /\ cb \in C /\ p \in DockPlaces /\ p \in DockWork /\ cb.at \in DockWork
      /\ p # "find"
  BY ZenonT(40) DEF NavInv, ServerInv, DockInv, DockPlaces, DockWork, DockHolds, DockDrives, UndockDrives
<1>2. d \in C /\ Moved(d, p)
  BY <1>1, GotoIs, ZenonT(40)
<1> HIDE DEF d
<1>3. c \in C /\ c.at = d.at /\ c.job = d.job /\ c.gate = d.gate /\ c.kept = d.kept /\ c.own = d.own
  <2>1. d \in C /\ v \in {"zero", "moving"}
    BY <1>2
  <2> HIDE DEF C
  <2>2. d \in Callbacks(DockPlaces, DockOwn)
    BY ONLY <2>1, SMTT(30) DEF C
  <2>3. /\ c \in Callbacks(DockPlaces, DockOwn) /\ c.at = d.at /\ c.job = d.job /\ c.gate = d.gate
        /\ c.kept = d.kept /\ c.own = d.own
    BY ONLY <2>1, <2>2, PublishIs, SMTT(30)
  <2> QED BY ONLY <2>3, ZenonT(40) DEF C
<1> HIDE DEF c
<1>4. /\ c.own.dock = "new" => c.at \in DockHolds \/ c.own.leaked
      /\ c.velocity = "moving" => c.at \in DockDrives \cup UndockDrives
      /\ c.at \in DockHolds \ {"error", "interrupted"} => c.own.retries <= MaxRetries
  BY <1>1, <1>2, <1>3, ZenonT(40) DEF DockInv, Moved
<1> QED BY <1>1, <1>2, <1>3, <1>4, DockGoesOn, ZenonT(40) DEF Moved, c, d

\* The end of dockRobot: the dock is freed and the robot is stopped.
LEMMA StashIs ==
  ASSUME cb \in Callbacks(DockPlaces, DockOwn)
  PROVE  /\ Publish(StashDockData(Goto("return")), "zero") \in Callbacks(DockPlaces, DockOwn)
         /\ Publish(StashDockData(Goto("return")), "zero").at = "return"
         /\ Publish(StashDockData(Goto("return")), "zero").gate = cb.gate
         /\ Publish(StashDockData(Goto("return")), "zero").kept = cb.kept
         /\ Publish(StashDockData(Goto("return")), "zero").own.dock = "null"
         /\ cb.gate => Publish(StashDockData(Goto("return")), "zero").velocity = "zero"
<1> DEFINE C == Callbacks(DockPlaces, DockOwn)
           d == Goto("return")
           e == StashDockData(d)
<1>1. d \in C /\ Moved(d, "return")
  BY GotoIs DEF DockPlaces
<1> HIDE DEF d
<1>2. /\ e \in C /\ e.at = d.at /\ e.gate = d.gate /\ e.kept = d.kept /\ e.own.dock = "null"
  BY <1>1, SMTT(30) DEF StashDockData, Callbacks, DockOwn
<1> HIDE DEF e
<1> DEFINE c == Publish(e, "zero")
<1>3. /\ c \in C /\ c.at = e.at /\ c.gate = e.gate /\ c.kept = e.kept /\ c.own = e.own
      /\ c.velocity = (IF e.gate THEN "zero" ELSE e.velocity)
  BY <1>2, PublishIs, SMTT(30)
<1> HIDE DEF c
<1> QED BY <1>1, <1>2, <1>3, Zenon DEF c, e, d, Moved

\* getPreemptedGoalIfRequested, and the locals of dockRobot.
LEMMA DockPreemptIs ==
  ASSUME NavInv, server \in Docks, DockGetPreemptedGoalIfRequested
  PROVE  Goes /\ DockInv'
<1> DEFINE C == Callbacks(DockPlaces, DockOwn)
           k == cb.kept \/ preempt_requested
           o == [dock |-> "null", leaked |-> FALSE, retries |-> 0]
           c == [cb EXCEPT !.at = "find", !.kept = k, !.own = o]
<1>1. DockInv /\ IInv /\ cb \in C /\ cb.own \in DockOwn
  BY DEF NavInv, ServerInv, DockInv, Callbacks
<1>2. cb.at = "preempt" /\ cb.at \in DockWork /\ "find" \in DockPlaces /\ "find" \in DockWork
  BY DEF DockGetPreemptedGoalIfRequested, Here, DockWork, DockPlaces
<1>5. 0 \in 0..MaxRetries + 1
  BY RetriesAssumption, SMTT(30)
<1>6. o \in DockOwn /\ o.dock = "null" /\ o.retries = 0 /\ o.leaked = FALSE
  BY <1>5 DEF DockOwn
<1>3. ASSUME NEW b
      PROVE  [cb EXCEPT !.at = "find", !.kept = b, !.own.dock = "null", !.own.leaked = FALSE,
                        !.own.retries = 0] = [cb EXCEPT !.at = "find", !.kept = b, !.own = o]
  <2> DEFINE e == [cb.own EXCEPT !.dock = "null", !.leaked = FALSE, !.retries = 0]
  <2>1. e \in DockOwn /\ e.dock = "null" /\ e.leaked = FALSE /\ e.retries = 0
    BY <1>1, <1>5, Zenon DEF DockOwn
  <2>2. e = o
    BY <1>6, <2>1, Zenon DEF DockOwn
  <2> HIDE DEF o
  <2> QED BY <1>1, <2>2, Zenon DEF Callbacks
<1>4. Called(c)
  BY <1>3, Zenon DEF DockGetPreemptedGoalIfRequested
<1>7. k \in BOOLEAN /\ (cb.kept => k) /\ (preempt_requested => k)
  OBVIOUS
<1> HIDE DEF o, k
<1>8. /\ c \in C /\ c.at = "find" /\ c.job = cb.job /\ c.velocity = cb.velocity /\ c.kept = k
      /\ c.own = o /\ c.gate = cb.gate
  BY <1>1, <1>2, <1>6, <1>7, Zenon DEF Callbacks
<1> HIDE DEF c
<1>9. /\ Goes /\ cb' = c /\ UNCHANGED lifeVars
      /\ current' = current \/ k
      /\ current # None => current' # None
  <2>1. CASE preempt_requested
    <3>1. AcceptPendingGoal
      BY <2>1 DEF DockGetPreemptedGoalIfRequested
    <3> QED BY <1>2, <1>4, <1>7, <1>8, <2>1, <3>1, AcceptGoes, Zenon
  <2>2. CASE ~preempt_requested
    <3>1. UNCHANGED <<handleVars, slotVars>>
      BY <2>2, SMTT(30) DEF DockGetPreemptedGoalIfRequested
    <3>2. Goes /\ cb' = c /\ UNCHANGED serverVars
      BY <1>2, <1>4, <1>7, <1>8, <3>1, IgnoredGoes, SMTT(30)
    <3> QED BY <3>2 DEF serverVars, lifeVars
  <2> QED BY <2>1, <2>2
<1>10. "find" \notin DockHolds /\ cb.at \notin DockDrives \cup UndockDrives
  BY <1>2, SMTT(30) DEF DockHolds, DockDrives, UndockDrives
<1> QED BY <1>1, <1>2, <1>6, <1>7, <1>8, <1>9, <1>10, ZenonT(40) DEF DockInv, Mine, lifeVars, Undisturbed

\* Every step of dockRobot and undockRobot.
LEMMA DockStep ==
  ASSUME NavInv, server \in Docks, DockNext
  PROVE  Goes /\ DockInv'
<1> DEFINE C == Callbacks(DockPlaces, DockOwn)
<1>i. /\ DockInv /\ IInv /\ LifeInv /\ cb \in C /\ server \in KeepsData
      /\ (cb.at = "entry" /\ current = None => lifecycle = "deactivating")
      /\ (cb.at = "off" <=> worker # "callback")
  BY Zenon DEF NavInv, ServerInv, CallbackInv, DockInv, KeepsData
<1>t. /\ cb.job \in Goals \cup {None} /\ cb.own \in DockOwn /\ cb.own.retries \in 0..MaxRetries + 1
      /\ cb.own.leaked \in BOOLEAN /\ cb.own.dock \in {"null", "database", "new"}
  BY <1>i, SMTT(30) DEF Callbacks, DockOwn
<1>a. cb.at # "off" => cb.gate
  BY <1>i, ZenonT(40) DEF DockInv, LifeInv
<1>p. /\ "return" \in DockPlaces /\ "inactive" \in DockPlaces /\ "no_plugin" \in DockPlaces
      /\ "cancel" \in DockPlaces /\ "off" \notin DockWork
  BY SMTT(30) DEF DockPlaces, DockWork, DockHolds, DockDrives, UndockDrives
<1>e. ASSUME Goes, current' = None, UNCHANGED lifeVars, cb' \in C, cb'.at = "return",
             cb'.gate = cb.gate, cb'.own.dock = "new" => cb'.own.leaked,
             cb'.velocity = "zero"
      PROVE  DockInv'
  BY <1>i, <1>e, ZenonT(40) DEF DockInv, DockWork, DockHolds, DockDrives, UndockDrives, lifeVars
<1>k. ASSUME NEW r \in Results, Called(Publish(StashDockData(Goto("return")), "zero")), cb.at # "off",
             \/ TerminateAll(r) \/ TerminateCurrent(r)
             \/ /\ SucceededCurrent(r) /\ r.kind # "short"
                /\ current = None \/ r.for \subseteq {current} \/ (cb.kept /\ server \in KeepsData)
      PROVE  Goes /\ DockInv'
  <2> DEFINE c == Publish(StashDockData(Goto("return")), "zero")
  <2>1. /\ c \in C /\ c.at = "return" /\ c.gate = cb.gate /\ c.kept = cb.kept
        /\ c.own.dock = "null" /\ (cb.gate => c.velocity = "zero")
    BY <1>i, StashIs, ZenonT(40)
  <2>2. Called(c)
    BY <1>k, ZenonT(40)
  <2> HIDE DEF c
  <2>3. Goes /\ current' = None /\ UNCHANGED lifeVars /\ cb' = c
    BY <1>k, <2>1, <2>2, EndGoes, SucceedGoes, ZenonT(40)
  <2> QED BY <1>e, <1>a, <1>k, <2>1, <2>3, ZenonT(40)
<1>u. ASSUME NEW r \in Results, Called(Publish(Goto("return"), "zero")), cb.at \in UndockDrives,
             \/ TerminateAll(r) \/ TerminateCurrent(r)
             \/ /\ SucceededCurrent(r) /\ r.kind # "short"
                /\ current = None \/ r.for \subseteq {current} \/ (cb.kept /\ server \in KeepsData)
      PROVE  Goes /\ DockInv'
  <2>1. cb.at # "off" /\ (cb.own.dock = "new" => cb.own.leaked)
    BY <1>i, <1>u, ZenonT(40) DEF DockInv, DockHolds, DockDrives, UndockDrives
  <2>2. Goes /\ current' = None /\ UNCHANGED lifeVars /\ cb' \in C /\ StoppedAt(cb')
    BY <1>i, <1>p, <1>u, <2>1, EndStops, SucceedStops, ZenonT(40)
  <2> QED BY <1>e, <1>a, <2>1, <2>2, ZenonT(40) DEF StoppedAt
<1>s. ASSUME cb.at \in DockWork
      PROVE  /\ Answer("done") \in Results /\ Answer("done").kind # "short"
             /\ Answer("error") \in Results /\ Answer("empty") \in Results
             /\ current = None \/ Answer("done").for \subseteq {current}
                  \/ (cb.kept /\ server \in KeepsData)
  <2>1. /\ Answer("done") \in Results /\ Answer("done").kind = "done"
        /\ Answer("done").for \subseteq {cb.job}
        /\ Answer("error") \in Results /\ Answer("empty") \in Results
    BY <1>t, AnswerIs, SMTT(30) DEF AnswerKinds
  <2>2. Mine \/ cb.kept
    BY <1>i, <1>s, ZenonT(40) DEF DockInv
  <2> QED BY <1>i, <2>1, <2>2, ZenonT(40) DEF Mine
<1>1. CASE DockEntry
  <2>1. cb.at = "entry" /\ Local([cb EXCEPT !.at = "inactive", !.job = CurrentGoal])
    BY <1>1 DEF DockEntry, GetCurrentGoal, Here
  <2>2. /\ Goes /\ UNCHANGED serverVars /\ cb' \in C
        /\ cb'.at = "inactive" /\ cb'.job = current /\ cb'.velocity = cb.velocity
        /\ cb'.gate = cb.gate /\ cb'.own = cb.own
    BY <1>i, <1>p, <2>1, EntryGoes, ZenonT(40)
  <2> QED BY <1>i, <2>1, <2>2, SMTT(30)
          DEF DockInv, DockWork, DockHolds, DockDrives, UndockDrives, Mine, serverVars, Undisturbed
<1>2. CASE DockIsInactive
  <2>1. cb.at = "inactive" /\ Local(Goto(IF server_active THEN "cancel" ELSE "return"))
    BY <1>2 DEF DockIsInactive, ReturnIfInactive, Here
  <2>2. PICK p \in {"cancel", "return"} : Local(Goto(p)) /\ (p = "cancel" => server_active)
    BY <2>1, SMTT(30)
  <2>3. Goes /\ UNCHANGED serverVars /\ cb' \in C /\ Moved(cb', p)
    BY <1>i, <1>p, <2>1, <2>2, GotoGoes, SMTT(30)
  <2>4. p = "cancel" => cb.job # None
    BY <1>i, <2>1, <2>2, ZenonT(40) DEF DockInv, LifeInv
  <2> QED BY <1>i, <2>1, <2>3, <2>4, ZenonT(40)
          DEF DockInv, DockWork, DockHolds, DockDrives, UndockDrives, Mine, serverVars, Undisturbed,
              Moved
<1>3. CASE DockIsCancelled
  <2>1. cb.at = "cancel" /\ \E p \in {"cancelled", "preempt"} : Local(Goto(p))
    BY <1>3, SMTT(30) DEF DockIsCancelled, TestCancel, Here
  <2> QED BY <2>1, DockGoto DEF DockWork, DockHolds, DockDrives, UndockDrives
<1>4. CASE DockCancelled
  <2>1. cb.at = "cancelled" /\ TerminateAll(EmptyResult) /\ Called(Goto("return"))
    BY <1>4 DEF DockCancelled, EndAll, Here
  <2>2. Goes /\ current' = None /\ UNCHANGED lifeVars /\ cb' \in C /\ Moved(cb', "return")
    BY <1>i, <1>p, <2>1, EndReturns, EmptyResultAssumption, SMTT(30)
  <2> QED BY <1>i, <2>1, <2>2, ZenonT(40)
          DEF DockInv, DockWork, DockHolds, DockDrives, UndockDrives, lifeVars, Moved
<1>5. CASE DockGetPreemptedGoalIfRequested
  BY <1>5, DockPreemptIs
<1>6. CASE DockFind
  <2>1. /\ cb.at = "find" /\ cb.at \in DockWork /\ cb.job # None /\ cb.own.dock = "null"
        /\ cb.own.retries = 0 /\ cb.velocity # "moving"
    BY <1>i, <1>6, SMTT(30) DEF DockFind, Here, DockInv, DockWork, DockDrives, UndockDrives
  <2>2. CASE Local(Goto("error"))
    BY <2>1, <2>2, DockGoto, SMTT(30) DEF DockWork, DockHolds, DockDrives, UndockDrives
  <2>3. CASE Local(Goto("no_plugin"))
    <3>1. Goes /\ UNCHANGED serverVars /\ cb' \in C /\ Moved(cb', "no_plugin")
      BY <1>i, <1>p, <2>1, <2>3, GotoGoes, SMTT(30)
    <3> QED BY <1>i, <2>1, <3>1, ZenonT(40)
            DEF DockInv, DockWork, DockHolds, DockDrives, UndockDrives, serverVars, Moved
  <2>4. ASSUME NEW d \in {"database", "new"}, Local([cb EXCEPT !.at = "docked", !.own.dock = d])
        PROVE  Goes /\ DockInv'
    <3> DEFINE c == [cb EXCEPT !.at = "docked", !.own.dock = d]
    <3>1. "docked" \in DockPlaces /\ "docked" \in DockHolds /\ "docked" \in DockWork
      BY DEF DockPlaces, DockWork, DockHolds
    <3>2. /\ c \in C /\ c.at = "docked" /\ c.job = cb.job /\ c.gate = cb.gate /\ c.kept = cb.kept
          /\ c.velocity = cb.velocity /\ c.own.retries = cb.own.retries
      BY <1>i, <1>t, <3>1, <2>4, Zenon DEF Callbacks, DockOwn
    <3> HIDE DEF c
    <3>3. Local(c) /\ c.own.retries <= MaxRetries
      BY <2>1, <2>4, <3>2, RetriesAssumption DEF c
    <3> QED BY <2>1, <3>1, <3>2, <3>3, DockGoesOn, ZenonT(40)
  <2>5. \/ Local(Goto("error")) \/ Local(Goto("no_plugin"))
        \/ \E d \in {"database", "new"} : Local([cb EXCEPT !.at = "docked", !.own.dock = d])
    BY <1>6, <2>1 DEF DockFind
  <2> QED BY <2>2, <2>3, <2>4, <2>5, SMTT(30)
<1>7. CASE DockAlreadyDocked
  <2>1. cb.at = "docked" /\ cb.at \in DockWork /\ cb.own.retries <= MaxRetries /\ cb.velocity # "moving"
    BY <1>i, <1>7, SMTT(30) DEF DockAlreadyDocked, Here, DockInv, DockWork, DockHolds, DockDrives, UndockDrives
  <2>2. CASE Local(Goto("stage"))
    BY <2>1, <2>2, DockGoto, ZenonT(40) DEF DockWork, DockHolds, DockDrives, UndockDrives
  <2>3. CASE ~Local(Goto("stage"))
    <3> DEFINE l == cb.own.leaked \/ cb.own.dock = "new"
               c == [cb EXCEPT !.at = "return", !.own.leaked = l]
    <3>1. SucceededCurrent(Answer("done"))
      BY <1>7, <2>3 DEF DockAlreadyDocked
    <3>2. Called([cb EXCEPT !.at = "return", !.own.leaked = @ \/ cb.own.dock = "new"])
      BY <1>7, <2>3, SMTT(30) DEF DockAlreadyDocked
    <3>3. l \in BOOLEAN /\ (cb.own.dock = "new" => l)
      OBVIOUS
    <3>4. [cb EXCEPT !.at = "return", !.own.leaked = @ \/ cb.own.dock = "new"] = c
      BY <1>i, <1>t, SMTT(30) DEF Callbacks, DockOwn
    <3> HIDE DEF l
    <3>5. /\ c \in C /\ c.at = "return" /\ c.gate = cb.gate /\ c.kept = cb.kept
          /\ c.velocity = cb.velocity /\ c.own.leaked = l /\ c.own.dock = cb.own.dock
      BY <1>i, <1>t, <1>p, <3>3, ZenonT(40) DEF Callbacks, DockOwn
    <3>6. Called(c)
      BY <3>2, <3>4, SMTT(30)
    <3> HIDE DEF c
    <3>7. Goes /\ current' = None /\ UNCHANGED lifeVars /\ cb' = c
      BY <1>s, <2>1, <3>1, <3>5, <3>6, SucceedGoes, ZenonT(40)
    <3>8. cb'.velocity = "zero"
      BY <1>i, <2>1, <3>5, <3>7, SMTT(30) DEF Callbacks
    <3> QED BY <1>e, <3>3, <3>5, <3>7, <3>8, Zenon
  <2> QED BY <2>2, <2>3
<1>8. CASE DockStage \/ DockPerceive
  <2>1. cb.at \in {"stage", "perceive"} /\ \E p \in {"perceive", "approach", "error"} : Local(Goto(p))
    BY <1>8, SMTT(30) DEF DockStage, DockPerceive, Here
  <2>2. cb.own.retries <= MaxRetries
    BY <1>i, <2>1, Zenon DEF DockInv, DockHolds
  <2> QED BY <2>1, <2>2, DockGoto, ZenonT(40) DEF DockWork, DockHolds, DockDrives, UndockDrives
<1>m. ASSUME cb.at \in {"approach", "reset", "undock"}
      PROVE  Goto(cb.at) = cb
  BY <1>i, SMTT(30) DEF Goto, Callbacks
<1>9. CASE DockApproach
  <2>1. cb.at = "approach" /\ cb.at \in DockDrives /\ cb.own.retries <= MaxRetries
    BY <1>i, <1>9, ZenonT(40) DEF DockApproach, Here, DockInv, DockHolds, DockDrives
  <2>2. \/ \E p \in {"charge", "retry", "error", "interrupted"} : Local(Goto(p))
        \/ \E p \in {"approach", "retry"} : Local(Publish(Goto(p), "moving"))
    BY <1>9, <1>m, <2>1, SMTT(30) DEF DockApproach
  <2>3. CASE \E p \in {"charge", "retry", "error", "interrupted"} : Local(Goto(p))
    BY <2>1, <2>3, DockGoto, SMTT(30) DEF DockWork, DockHolds, DockDrives
  <2>4. CASE \E p \in {"approach", "retry"} : Local(Publish(Goto(p), "moving"))
    BY <2>1, <2>4, DockPublish, ZenonT(40) DEF DockHolds, DockDrives
  <2> QED BY <2>2, <2>3, <2>4, SMTT(30)
<1>10. CASE DockWaitForCharge
  <2>1. /\ cb.at = "charge" /\ cb.at \in DockDrives
        /\ \E p \in {"docking_done", "retry", "interrupted"} : Local(Goto(p))
    BY <1>10, SMTT(30) DEF DockWaitForCharge, Here, DockDrives
  <2>2. cb.own.retries <= MaxRetries
    BY <1>i, <2>1, ZenonT(40) DEF DockInv, DockHolds
  <2> QED BY <2>1, <2>2, DockGoto, SMTT(30) DEF DockWork, DockHolds, DockDrives
<1>11. CASE DockRetry
  <2>1. cb.at = "retry" /\ cb.own.retries <= MaxRetries /\ cb.at \in DockWork
    BY <1>i, <1>11, SMTT(30) DEF DockRetry, Here, DockInv, DockWork, DockHolds, DockDrives
  <2> DEFINE n == cb.own.retries + 1
             p == IF n > MaxRetries THEN "error" ELSE "reset"
             c == [cb EXCEPT !.at = p, !.own.retries = n]
  <2>2. n \in 0..MaxRetries + 1 /\ (p = "reset" => n <= MaxRetries) /\ p \in {"error", "reset"}
    BY <1>t, <2>1, RetriesAssumption, SMTT(30)
  <2>3. [cb EXCEPT !.own.retries = @ + 1,
                   !.at = IF cb.own.retries + 1 > MaxRetries THEN "error" ELSE "reset"] = c
    BY <1>i, <1>t, Zenon DEF Callbacks, DockOwn
  <2>4. Local(c)
    BY <1>11, <2>3, SMTT(30) DEF DockRetry
  <2> HIDE DEF n, p
  <2>5. p \in DockPlaces /\ p \in DockHolds /\ p \in DockDrives /\ p \in DockWork /\ p # "find"
    BY <2>2 DEF DockPlaces, DockWork, DockHolds, DockDrives
  <2>6. /\ c \in C /\ c.at = p /\ c.job = cb.job /\ c.gate = cb.gate /\ c.kept = cb.kept
        /\ c.own.retries = n
    BY <1>i, <1>t, <2>2, <2>5, Zenon DEF Callbacks, DockOwn
  <2> HIDE DEF c
  <2>7. c.at \in DockHolds \ {"error", "interrupted"} => c.own.retries <= MaxRetries
    BY <2>2, <2>6
  <2> QED BY <2>1, <2>4, <2>5, <2>6, <2>7, DockGoesOn, ZenonT(40)
<1>12. CASE DockResetApproach
  <2>1. cb.at = "reset" /\ cb.at \in DockDrives /\ cb.own.retries <= MaxRetries
    BY <1>i, <1>12, ZenonT(40) DEF DockResetApproach, Here, DockInv, DockHolds, DockDrives
  <2>2. \/ \E p \in {"error", "interrupted", "approach"} : Local(Goto(p))
        \/ Local(Publish(Goto("reset"), "moving"))
    BY <1>12, <1>m, <2>1, SMTT(30) DEF DockResetApproach
  <2>3. CASE \E p \in {"error", "interrupted", "approach"} : Local(Goto(p))
    BY <2>1, <2>3, DockGoto, SMTT(30) DEF DockWork, DockHolds, DockDrives
  <2>4. CASE Local(Publish(Goto("reset"), "moving"))
    BY <2>1, <2>4, DockPublish, SMTT(30) DEF DockHolds, DockDrives
  <2> QED BY <2>2, <2>3, <2>4, SMTT(30)
<1>13. CASE DockDone \/ DockInterrupted \/ DockError
  <2>1. cb.at \in DockWork /\ cb.at # "off" /\ Called(Publish(StashDockData(Goto("return")), "zero"))
    BY <1>13, SMTT(30) DEF DockDone, DockInterrupted, DockError, Here, DockWork, DockHolds, DockDrives
  <2>2. \/ SucceededCurrent(Answer("done")) \/ TerminateAll(Answer("empty"))
        \/ TerminateCurrent(Answer("error"))
    BY <1>13, SMTT(30) DEF DockDone, DockInterrupted, DockError
  <2> QED BY <1>k, <1>s, <2>1, <2>2, ZenonT(40)
<1>14. CASE UndockFind
  <2>1. /\ cb.at = "find" /\ cb.at \in DockWork /\ cb.own.dock = "null" /\ cb.velocity # "moving"
        /\ \E p \in {"undock_error", "return", "undock"} : Local(Goto(p))
    BY <1>i, <1>14, ZenonT(40) DEF UndockFind, Here, DockInv, DockWork, DockDrives, UndockDrives
  <2>2. CASE \E p \in {"undock_error", "undock"} : Local(Goto(p))
    BY <2>1, <2>2, DockGoto, SMTT(30) DEF DockWork, DockHolds, DockDrives, UndockDrives
  <2>3. CASE Local(Goto("return"))
    <3>1. Goes /\ UNCHANGED serverVars /\ cb' \in C /\ Moved(cb', "return")
      BY <1>i, <1>p, <2>1, <2>3, GotoGoes, ZenonT(40)
    <3> QED BY <1>i, <2>1, <3>1, ZenonT(40)
            DEF DockInv, DockWork, DockHolds, DockDrives, UndockDrives, serverVars, Moved
  <2> QED BY <2>1, <2>2, <2>3, SMTT(30)
<1>15. CASE UndockLoop
  <2>1. cb.at = "undock" /\ cb.at \in UndockDrives /\ cb.at \notin DockHolds
    BY <1>15, SMTT(30) DEF UndockLoop, Here, UndockDrives, DockHolds, DockDrives
  <2>2. \/ \E p \in {"undock_error", "undock_interrupted"} : Local(Goto(p))
        \/ \E p \in {"undock_done", "undock_error"} : Local(Publish(Goto(p), "zero"))
        \/ Local(Publish(Goto("undock"), "moving"))
    BY <1>15, <1>m, <2>1, SMTT(30) DEF UndockLoop
  <2>3. CASE \E p \in {"undock_error", "undock_interrupted"} : Local(Goto(p))
    BY <2>1, <2>3, DockGoto, SMTT(30) DEF DockWork, DockHolds, DockDrives, UndockDrives
  <2>4. CASE \E p \in {"undock_done", "undock_error"} : Local(Publish(Goto(p), "zero"))
    BY <2>1, <2>4, DockPublish, SMTT(30) DEF DockHolds, DockDrives, UndockDrives
  <2>5. CASE Local(Publish(Goto("undock"), "moving"))
    BY <2>1, <2>5, DockPublish, SMTT(30) DEF DockHolds, DockDrives, UndockDrives
  <2> QED BY <2>2, <2>3, <2>4, <2>5, SMTT(30)
<1>16. CASE UndockInterrupted \/ UndockDone \/ UndockError
  <2>1. cb.at \in DockWork /\ cb.at \in UndockDrives /\ Called(Publish(Goto("return"), "zero"))
    BY <1>16, SMTT(30) DEF UndockInterrupted, UndockDone, UndockError, Here, DockWork, UndockDrives
  <2>2. \/ SucceededCurrent(Answer("done")) \/ TerminateAll(Answer("empty"))
        \/ TerminateCurrent(Answer("error"))
    BY <1>16, SMTT(30) DEF UndockInterrupted, UndockDone, UndockError
  <2> QED BY <1>u, <1>s, <2>1, <2>2, ZenonT(40)
<1> QED BY <1>1, <1>2, <1>3, <1>4, <1>5, <1>6, <1>7, <1>8, <1>9, <1>10, <1>11, <1>12, <1>13, <1>14,
           <1>15, <1>16, SMTT(30) DEF DockNext
=============================================================================
