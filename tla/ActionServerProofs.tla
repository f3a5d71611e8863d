------------------------- MODULE ActionServerProofs ------------------------
(***************************************************************************)
(* Proofs about the action server, for any number of goals and any execute *)
(* callback: the inductive invariant ties the two slots, the goal being    *)
(* accepted and the preemption flag to the states of the goal handles.     *)
(* Then what its operations mean to the callbacks of the navigation        *)
(* servers, the invariant that those callbacks keep, and the steps of the  *)
(* servers that give tasks to others: the navigators and the waypoint      *)
(* follower.                                                               *)
(***************************************************************************)
EXTENDS NavServers, TLAPS

IInv == TypeOK /\ SlotsConsistent /\ NoOrphanedGoal

USE DEF ActiveStates, TerminalStates, HandleStates, WorkerStates

\* Type correctness and the slot invariant hold initially.
LEMMA InitIInv == Init => IInv
<1> SUFFICES ASSUME Init PROVE IInv
  OBVIOUS
<1>1. deactivations \in 0..MaxDeactivations
  BY BoundAssumption DEF Init
<1>2. TypeOK
  BY <1>1, EmptyResultAssumption, Zenon DEF Init, TypeOK
<1>3. SlotsConsistent /\ NoOrphanedGoal
  BY NoneAssumption DEF Init, SlotsConsistent, NoOrphanedGoal, is_active
<1> QED BY <1>2, <1>3 DEF IInv

\* terminate_all() empties both slots and leaves the goal being accepted alone.
LEMMA TerminateAllIInv ==
  ASSUME IInv, NEW r \in Results, TerminateAll(r), UNCHANGED <<accepting, lifeVars>>,
         worker' \in WorkerStates
  PROVE  IInv'
BY NoneAssumption, Zenon
   DEF IInv, TypeOK, SlotsConsistent, NoOrphanedGoal, TerminateAll, Terminate, AfterTerminate,
       is_active, lifeVars

\* So does terminate_current() for the current slot.
LEMMA TerminateCurrentIInv ==
  ASSUME IInv, NEW r \in Results, TerminateCurrent(r), UNCHANGED <<worker, accepting, lifeVars>>
  PROVE  IInv'
BY NoneAssumption
   DEF IInv, TypeOK, SlotsConsistent, NoOrphanedGoal, TerminateCurrent, Terminate,
       AfterTerminate, is_active, lifeVars

\* succeeded_current() answers the current goal and empties its slot.
LEMMA SucceededCurrentIInv ==
  ASSUME IInv, NEW r \in Results, SucceededCurrent(r), UNCHANGED <<worker, accepting, lifeVars>>
  PROVE  IInv'
BY NoneAssumption
   DEF IInv, TypeOK, SlotsConsistent, NoOrphanedGoal, SucceededCurrent, is_active, lifeVars,
       handleVars, slotVars

\* accept_pending_goal() moves the pending goal and aborts the one it replaces.
LEMMA AcceptPendingGoalIInv ==
  ASSUME IInv, AcceptPendingGoal, UNCHANGED <<worker, accepting, lifeVars>>
  PROVE  IInv'
BY NoneAssumption, EmptyResultAssumption, ZenonT(40)
   DEF IInv, TypeOK, SlotsConsistent, NoOrphanedGoal, AcceptPendingGoal, is_active, lifeVars,
       handleVars, slotVars

\* terminate_pending_goal() empties the pending slot.
LEMMA TerminatePendingGoalIInv ==
  ASSUME IInv, TerminatePendingGoal, UNCHANGED <<worker, accepting, lifeVars>>
  PROVE  IInv'
BY NoneAssumption, EmptyResultAssumption, Zenon
   DEF IInv, TypeOK, SlotsConsistent, NoOrphanedGoal, TerminatePendingGoal, Terminate, is_active,
       lifeVars

\* Every step of the executor, worker and lifecycle threads keeps the invariant.
LEMMA NextIInv == IInv /\ [Next]_serverVars => IInv'
<1> SUFFICES ASSUME IInv, [Next]_serverVars PROVE IInv'
  OBVIOUS
<1> USE NoneAssumption, EmptyResultAssumption
<1>1. ASSUME NEW g \in Goals, SendGoal(g) PROVE IInv'
  BY <1>1 DEF IInv, TypeOK, SlotsConsistent, NoOrphanedGoal, SendGoal, is_active, slotVars,
              lifeVars
<1>2. ASSUME NEW g \in Goals, HandleGoal(g) PROVE IInv'
  BY <1>2 DEF IInv, TypeOK, SlotsConsistent, NoOrphanedGoal, HandleGoal, is_active, slotVars,
              lifeVars
<1>3. ASSUME NEW g \in Goals, HandleCancel(g) PROVE IInv'
  BY <1>3 DEF IInv, TypeOK, SlotsConsistent, NoOrphanedGoal, HandleCancel, is_active, slotVars,
              lifeVars
<1>4. CASE HandleAccepted
  <2>1. CASE is_active(current) \/ is_running
    BY <1>4, <2>1, ZenonT(40) DEF IInv, TypeOK, SlotsConsistent, NoOrphanedGoal, HandleAccepted, Terminate,
                      is_active, lifeVars
  <2>2. CASE ~(is_active(current) \/ is_running)
    BY <1>4, <2>2, Zenon DEF IInv, TypeOK, SlotsConsistent, NoOrphanedGoal, HandleAccepted, Terminate,
                      AfterTerminate, is_active, lifeVars
  <2> QED BY <2>1, <2>2
<1>5. CASE WorkTest
  BY <1>5 DEF IInv, TypeOK, SlotsConsistent, NoOrphanedGoal, WorkTest, is_active, handleVars,
              slotVars, lifeVars
<1>6. CASE WorkReturned
  <2>1. CASE stop_execution
    BY <1>6, <2>1, TerminateAllIInv DEF WorkReturned
  <2>2. CASE ~stop_execution
    BY <1>6, <2>2, ZenonT(40) DEF IInv, TypeOK, SlotsConsistent, NoOrphanedGoal, WorkReturned, Terminate,
                      AfterTerminate, is_active, lifeVars
  <2> QED BY <2>1, <2>2
<1>7. CASE WorkExit
  BY <1>7 DEF IInv, TypeOK, SlotsConsistent, NoOrphanedGoal, WorkExit, is_active, handleVars,
              slotVars, lifeVars
<1>8. CASE CallbackReturn
  BY <1>8 DEF IInv, TypeOK, SlotsConsistent, NoOrphanedGoal, CallbackReturn, is_active,
              handleVars, slotVars, lifeVars
<1>9. CASE CallbackThrow
  BY <1>9, TerminateAllIInv DEF CallbackThrow
<1>10. CASE CallbackCall
  <2>1. worker' \in WorkerStates /\ UNCHANGED <<worker, accepting, lifeVars>>
    BY <1>10 DEF CallbackCall, IInv, TypeOK
  <2>2. ASSUME NEW r \in Results, TerminateAll(r) PROVE IInv'
    BY <2>1, <2>2, TerminateAllIInv
  <2>3. ASSUME NEW r \in Results, TerminateCurrent(r) PROVE IInv'
    BY <2>1, <2>3, TerminateCurrentIInv
  <2>4. ASSUME NEW r \in Results, SucceededCurrent(r) PROVE IInv'
    BY <2>1, <2>4, SucceededCurrentIInv
  <2>5. CASE AcceptPendingGoal BY <2>1, <2>5, AcceptPendingGoalIInv
  <2>6. CASE TerminatePendingGoal BY <2>1, <2>6, TerminatePendingGoalIInv
  <2> QED BY <1>10, <2>2, <2>3, <2>4, <2>5, <2>6 DEF CallbackCall
<1>11. CASE Activate
  BY <1>11, Zenon DEF IInv, TypeOK, SlotsConsistent, NoOrphanedGoal, Activate, is_active, handleVars,
               slotVars
<1>12. CASE DeactivateBegin
  <2>1. deactivations' \in 0..MaxDeactivations
    BY <1>12, BoundAssumption DEF DeactivateBegin, IInv, TypeOK
  <2> QED
    BY <1>12, <2>1, Zenon DEF IInv, TypeOK, SlotsConsistent, NoOrphanedGoal, DeactivateBegin, is_active,
                       handleVars, slotVars
<1>13. CASE DeactivateDeadline
  <2>1. worker' \in WorkerStates BY <1>13 DEF DeactivateDeadline, IInv, TypeOK
  <2> QED BY <1>13, <2>1, TerminateAllIInv DEF DeactivateDeadline
<1>14. CASE DeactivateEnd
  BY <1>14 DEF IInv, TypeOK, SlotsConsistent, NoOrphanedGoal, DeactivateEnd, is_active,
               handleVars, slotVars
<1>15. CASE UNCHANGED serverVars
  BY <1>15 DEF IInv, TypeOK, SlotsConsistent, NoOrphanedGoal, is_active, serverVars
<1> QED
  BY <1>1, <1>2, <1>3, <1>4, <1>5, <1>6, <1>7, <1>8, <1>9, <1>10, <1>11, <1>12, <1>13, <1>14,
     <1>15 DEF Next, ExecutorNext, LifecycleNext, LoopNext, CallbackNext

\* The type invariant, NoOrphanedGoal and SlotsConsistent of the action server,
\* for every set of goals, every callback and any number of deactivations.
THEOREM ServerInvariant == Spec => []IInv
BY InitIInv, NextIInv, PTL DEF Spec

\* The server's state has the types of its members.
THEOREM ServerTypeOK == Spec => []TypeOK
<1>1. IInv => TypeOK BY DEF IInv
<1> QED BY <1>1, ServerInvariant, PTL

\* No goal that handle_goal accepted is dropped without being terminated.
THEOREM ServerNoOrphanedGoal == Spec => []NoOrphanedGoal
<1>1. IInv => NoOrphanedGoal BY DEF IInv
<1> QED BY <1>1, ServerInvariant, PTL

\* The slots hold live, distinct goals and preempt_requested_ tells whether the
\* pending slot is taken.
THEOREM ServerSlotsConsistent == Spec => []SlotsConsistent
<1>1. IInv => SlotsConsistent BY DEF IInv
<1> QED BY <1>1, ServerInvariant, PTL

-----------------------------------------------------------------------------
KeepsAnswers ==
  \A g \in Goals : handle[g] \in TerminalStates =>
    handle'[g] = handle[g] /\ result'[g] = result[g]

\* Only active handles are touched by the slot operations and the handlers.
LEMMA NextKeepsAnswers == IInv /\ [Next]_serverVars => KeepsAnswers
<1> SUFFICES ASSUME IInv, [Next]_serverVars PROVE KeepsAnswers
  OBVIOUS
<1> USE NoneAssumption DEF IInv, TypeOK, KeepsAnswers
<1>1. ASSUME NEW S, NEW r, Terminate(S, r) PROVE KeepsAnswers
  BY <1>1 DEF Terminate, is_active
<1>2. CASE UNCHANGED handleVars
  BY <1>2 DEF handleVars
<1>3. CASE ExecutorNext
  BY <1>1, <1>3 DEF ExecutorNext, SendGoal, HandleGoal, HandleCancel, HandleAccepted
<1>4. CASE LifecycleNext
  BY <1>1, <1>2, <1>4
     DEF LifecycleNext, Activate, DeactivateBegin, DeactivateDeadline, DeactivateEnd, TerminateAll
<1>5. CASE LoopNext
  BY <1>1, <1>2, <1>5 DEF LoopNext, WorkTest, WorkReturned, WorkExit, TerminateAll
<1>6. CASE CallbackReturn \/ CallbackThrow
  BY <1>1, <1>2, <1>6 DEF CallbackReturn, CallbackThrow, TerminateAll
<1>7. CASE CallbackCall
  <2>1. CASE \E r \in Results : SucceededCurrent(r)
    BY <1>2, <2>1 DEF SucceededCurrent, is_active
  <2>2. CASE AcceptPendingGoal
    BY <1>2, <2>2 DEF AcceptPendingGoal, is_active
  <2> QED
    BY <1>1, <1>7, <2>1, <2>2 DEF CallbackCall, TerminateAll, TerminateCurrent,
                                  TerminatePendingGoal
<1>8. CASE UNCHANGED serverVars
  BY <1>8 DEF serverVars
<1> QED BY <1>3, <1>4, <1>5, <1>6, <1>7, <1>8 DEF Next, CallbackNext

\* A goal is answered once, whatever the callback does.
THEOREM ServerAnsweredOnce == Spec => AnsweredOnce
<1>1. IInv /\ [Next]_serverVars => [KeepsAnswers]_serverVars
  BY NextKeepsAnswers
<1> QED BY <1>1, ServerInvariant, PTL DEF Spec, AnsweredOnce, KeepsAnswers

-----------------------------------------------------------------------------
(* The server implements ActionProtocol *)

\* The goals of S that are still active: the ones terminate() answers.
ActiveIn(S) == {g \in Goals : g \in S /\ is_active(g)}

\* terminate() on the handles of S is the protocol's Ended of the active ones.
LEMMA TerminateEnds ==
  ASSUME NEW S, NEW r \in Results, Terminate(S, r)
  PROVE  Protocol!Ended(ActiveIn(S))
<1> DEFINE how == [g \in ActiveIn(S) |-> IF handle[g] = "canceling" THEN "canceled" ELSE "aborted"]
<1>1. how \in [ActiveIn(S) -> {"aborted", "canceled"}]
  OBVIOUS
<1>2. \A g \in ActiveIn(S) : how[g] = "canceled" => handle[g] = "canceling"
  OBVIOUS
<1>3. handle' = [g \in Goals |-> IF g \in ActiveIn(S) THEN how[g] ELSE handle[g]]
  BY DEF Terminate, ActiveIn
<1>4. result' = [g \in Goals |-> IF g \in ActiveIn(S) THEN r ELSE result[g]]
  BY DEF Terminate, ActiveIn
<1> HIDE DEF how
<1> QED BY <1>1, <1>2, <1>3, <1>4 DEF Protocol!Ended

\* Ending a set of slots is a protocol Finish as long as the turn stays, is given
\* up with its goal, or goes to the only goal that is left.
LEMMA FinishStep ==
  ASSUME IInv, NEW S, NEW r \in Results, Terminate(S, r), UNCHANGED accepting,
         accepting \notin S \/ accepting = None,
         current' # current => current \in ActiveIn(S) \cup {None},
         current' \notin {current, None} =>
           Protocol!Live \ (ActiveIn(S) \cup {accepting}) = {current'}
  PROVE  Protocol!Next
<1>1. ActiveIn(S) \subseteq Protocol!Live \ {accepting}
  BY NoneAssumption DEF ActiveIn, Protocol!Live, is_active, IInv, TypeOK
<1>2. Protocol!Finish(ActiveIn(S))
  BY <1>1, TerminateEnds DEF Protocol!Finish
<1>3. ActiveIn(S) \in SUBSET Goals
  BY DEF ActiveIn
<1> QED BY <1>2, <1>3 DEF Protocol!Next

\* The slots name every active goal, so the protocol's live goals are known.
LEMMA LiveGoals ==
  ASSUME IInv
  PROVE  Protocol!Live = {g \in {accepting, current, pending} : g # None}
BY NoneAssumption
   DEF IInv, TypeOK, SlotsConsistent, NoOrphanedGoal, is_active, Protocol!Live

\* Every step of the server is a step of the protocol or changes none of its
\* variables.
LEMMA StepImplements == IInv /\ [Next]_serverVars => [Protocol!Next]_(Protocol!protocolVars)
<1> SUFFICES ASSUME IInv, [Next]_serverVars
             PROVE  Protocol!Next \/ UNCHANGED <<handle, result, accepting, current>>
  BY DEF Protocol!protocolVars
<1> USE NoneAssumption, EmptyResultAssumption
<1>1. ASSUME NEW g \in Goals, SendGoal(g) PROVE Protocol!Next
  BY <1>1, Zenon DEF SendGoal, Protocol!Next, Protocol!Request, Protocol!Move, slotVars
<1>2. ASSUME NEW g \in Goals, HandleGoal(g) PROVE Protocol!Next
  BY <1>2 DEF HandleGoal, Protocol!Next, Protocol!Accept, Protocol!Reject, Protocol!Move, slotVars
<1>3. ASSUME NEW g \in Goals, HandleCancel(g) PROVE Protocol!Next
  BY <1>3, Zenon DEF HandleCancel, Protocol!Next, Protocol!Cancel, Protocol!Move, slotVars
<1>4. CASE HandleAccepted
  <2>1. Protocol!Ended(ActiveIn({pending}))
    BY <1>4, TerminateEnds DEF HandleAccepted
  <2>2. ActiveIn({pending}) = Protocol!Live \ {current, accepting}
    BY LiveGoals DEF ActiveIn, IInv, TypeOK, SlotsConsistent, is_active
  <2>3. current' = current \/ (current = None /\ current' = accepting)
    BY <1>4 DEF HandleAccepted, IInv, SlotsConsistent
  <2>4. Protocol!HandOver
    BY <1>4, <2>1, <2>2, <2>3 DEF HandleAccepted, Protocol!HandOver
  <2> QED BY <2>4 DEF Protocol!Next
<1>5. ASSUME NEW r \in Results, TerminateAll(r), UNCHANGED accepting PROVE Protocol!Next
  <2>1. Terminate({current, pending}, r) /\ (accepting \notin {current, pending} \/ accepting = None)
    BY <1>5 DEF TerminateAll, IInv, SlotsConsistent
  <2>2. current' = None /\ current \in ActiveIn({current, pending}) \cup {None}
    BY <1>5 DEF TerminateAll, AfterTerminate, ActiveIn, IInv, TypeOK, SlotsConsistent, is_active
  <2> QED BY <1>5, <2>1, <2>2, FinishStep
<1>6. ASSUME NEW r \in Results, TerminateCurrent(r), UNCHANGED accepting PROVE Protocol!Next
  <2>1. Terminate({current}, r) /\ (accepting \notin {current} \/ accepting = None)
    BY <1>6 DEF TerminateCurrent, IInv, SlotsConsistent
  <2>2. current' = None /\ current \in ActiveIn({current}) \cup {None}
    BY <1>6 DEF TerminateCurrent, AfterTerminate, ActiveIn, IInv, TypeOK, SlotsConsistent, is_active
  <2> QED BY <1>6, <2>1, <2>2, FinishStep
<1>7. CASE WorkReturned
  <2>1. CASE stop_execution
    BY <1>5, <1>7, <2>1 DEF WorkReturned
  <2>2. CASE ~stop_execution
    <3>1. Terminate({current}, EmptyResult) /\ (accepting \notin {current} \/ accepting = None)
      BY <1>7, <2>2 DEF WorkReturned, IInv, SlotsConsistent
    <3>2. UNCHANGED accepting
      BY <1>7 DEF WorkReturned
    <3>3. current \in ActiveIn({current}) \cup {None}
      BY DEF ActiveIn, IInv, TypeOK, SlotsConsistent, is_active
    <3>4. current' \in {pending, None}
      BY <1>7, <2>2 DEF WorkReturned, AfterTerminate, IInv, SlotsConsistent
    <3>5. pending # None => Protocol!Live \ (ActiveIn({current}) \cup {accepting}) = {pending}
      BY LiveGoals DEF ActiveIn, IInv, TypeOK, SlotsConsistent, is_active
    <3> QED BY <3>1, <3>2, <3>3, <3>4, <3>5, FinishStep
  <2> QED BY <2>1, <2>2
<1>8. CASE CallbackThrow
  BY <1>5, <1>8 DEF CallbackThrow
<1>9. ASSUME NEW r \in Results, SucceededCurrent(r), UNCHANGED accepting
      PROVE  Protocol!Next \/ UNCHANGED <<handle, result, accepting, current>>
  <2>1. CASE is_active(current)
    <3>1. current \in Protocol!Live
      BY <2>1 DEF is_active, Protocol!Live, IInv, TypeOK
    <3>2. Protocol!Succeed
      BY <1>9, <2>1, <3>1 DEF SucceededCurrent, Protocol!Succeed
    <3> QED BY <3>2 DEF Protocol!Next
  <2>2. CASE ~is_active(current)
    BY <1>9, <2>2 DEF SucceededCurrent, handleVars, slotVars
  <2> QED BY <2>1, <2>2
<1>10. ASSUME AcceptPendingGoal, UNCHANGED accepting
       PROVE  Protocol!Next \/ UNCHANGED <<handle, result, accepting, current>>
  <2>1. CASE is_active(pending)
    <3> DEFINE S == ActiveIn({current})
               how == [g \in S |-> "aborted"]
    <3>1. S = IF current = None THEN {} ELSE {current}
      BY DEF ActiveIn, IInv, TypeOK, SlotsConsistent, is_active
    <3>2. how \in [S -> {"aborted", "canceled"}] /\ \A g \in S : how[g] # "canceled"
      OBVIOUS
    <3>3. handle' = [g \in Goals |-> IF g \in S THEN how[g] ELSE handle[g]]
      BY <1>10, <2>1, <3>1, SMTT(30) DEF AcceptPendingGoal, IInv, TypeOK, SlotsConsistent, is_active
    <3>4. result' = [g \in Goals |-> IF g \in S THEN EmptyResult ELSE result[g]]
      BY <1>10, <2>1, <3>1 DEF AcceptPendingGoal, IInv, TypeOK, SlotsConsistent, is_active
    <3>5. Protocol!Ended(S)
      <4> HIDE DEF S, how
      <4> QED BY <3>2, <3>3, <3>4 DEF Protocol!Ended
    <3>6. S \subseteq Protocol!Live \ {accepting} /\ S \in SUBSET Goals
      BY DEF ActiveIn, Protocol!Live, is_active, IInv, TypeOK, SlotsConsistent
    <3>7. Protocol!Live \ (S \cup {accepting}) = {pending}
      BY <2>1, <3>1, LiveGoals DEF IInv, TypeOK, SlotsConsistent, is_active
    <3>8. Protocol!Finish(S)
      BY <1>10, <2>1, <3>1, <3>5, <3>6, <3>7 DEF Protocol!Finish, AcceptPendingGoal
    <3> QED BY <3>6, <3>8 DEF Protocol!Next
  <2>2. CASE ~is_active(pending)
    BY <1>10, <2>2 DEF AcceptPendingGoal, handleVars, slotVars
  <2> QED BY <2>1, <2>2
<1>11. ASSUME TerminatePendingGoal, UNCHANGED accepting PROVE Protocol!Next
  <2>1. Terminate({pending}, EmptyResult) /\ (accepting \notin {pending} \/ accepting = None)
    BY <1>11 DEF TerminatePendingGoal, IInv, SlotsConsistent
  <2> QED BY <1>11, <2>1, FinishStep DEF TerminatePendingGoal
<1>12. CASE CallbackCall
  BY <1>5, <1>6, <1>9, <1>10, <1>11, <1>12 DEF CallbackCall
<1>13. CASE DeactivateDeadline
  BY <1>5, <1>13 DEF DeactivateDeadline
<1>14. CASE WorkTest \/ WorkExit \/ CallbackReturn \/ Activate \/ DeactivateBegin \/ DeactivateEnd
  BY <1>14 DEF WorkTest, WorkExit, CallbackReturn, Activate, DeactivateBegin, DeactivateEnd,
               handleVars, slotVars
<1>15. CASE UNCHANGED serverVars
  BY <1>15 DEF serverVars
<1> QED
  BY <1>1, <1>2, <1>3, <1>4, <1>7, <1>8, <1>12, <1>13, <1>14, <1>15
     DEF Next, ExecutorNext, LifecycleNext, LoopNext, CallbackNext

\* nav2_util::SimpleActionServer implements the action protocol for every set of
\* goals, every execute callback and any number of deactivations.
THEOREM ServerImplementsProtocol == Spec => ImplementsProtocol
<1>1. Init => Protocol!Init
  BY EmptyResultAssumption DEF Init, Protocol!Init
<1> QED BY <1>1, StepImplements, ServerInvariant, PTL DEF Spec, ImplementsProtocol, Protocol!Spec

HIDE DEF ActiveStates, TerminalStates, HandleStates, WorkerStates

-----------------------------------------------------------------------------
(* The callbacks of the navigation servers *)

\* A callback at one of the places P, with members of its own in O.
Callbacks(P, O) ==
  [at : P, job : Goals \cup {None}, velocity : {"zero", "moving"}, gate : BOOLEAN,
   kept : BOOLEAN, own : O]

\* The goal in the current slot, if there is one, is the goal in hand.
Mine == current \in {None, cb.job}

\* Nobody takes a goal away from a node that was never deactivated.
Undisturbed == deactivations = 0

LifeInv ==
  /\ server_active <=> lifecycle = "active"
  /\ lifecycle = "active" => ~stop_execution
  /\ lifecycle = "deactivating" => stop_execution /\ deactivations > 0
  /\ lifecycle = "inactive" /\ ~stop_execution => worker = "ready" /\ accepting = None
  /\ worker = "callback" => lifecycle # "inactive"

CallbackInv ==
  /\ server \in Servers
  /\ cb.at = "off" <=> worker # "callback"
  /\ cb.at = "entry" /\ current = None => lifecycle = "deactivating"

-----------------------------------------------------------------------------
(* One invariant per server *)

\* The planner server never works for a null goal, and never on another goal's
\* data unless it was preempted.
PlannerWork == {"cancel", "cancelled", "costmap", "preempt", "start", "plan", "error", "succeed"}
PlannerPlaces == {"off", "entry", "inactive", "return"} \cup PlannerWork
PlannerInv ==
  /\ cb \in Callbacks(PlannerPlaces, PlannerOwn)
  /\ cb.at = "inactive" /\ cb.job = None => lifecycle = "deactivating"
  /\ cb.at \in PlannerWork => cb.job # None
  /\ cb.at \in PlannerWork \cup {"inactive"} => Mine \/ cb.kept
  /\ cb.at = "plan" => cb.own.leg < MaxLegs
  /\ cb.velocity = "zero"

RoomWork ==
  {"cancel", "preempt", "start", "plan", "inactive2", "cancel2", "cancelled", "error", "succeed"}
RoomPlaces == {"off", "entry", "inactive", "return"} \cup RoomWork
RoomInv ==
  /\ cb \in Callbacks(RoomPlaces, RoomOwn)
  /\ cb.at = "inactive" /\ cb.job = None => lifecycle = "deactivating"
  /\ cb.at \in RoomWork => cb.job # None
  /\ cb.at \in RoomWork \cup {"inactive"} => Mine \/ cb.kept
  /\ cb.velocity = "zero"

SmootherPlaces == {"off", "entry", "setup", "error", "succeed", "return"}
SmootherInv ==
  /\ cb \in Callbacks(SmootherPlaces, SmootherOwn)
  /\ cb.at \in {"setup", "error", "succeed"} => Mine
  /\ cb.velocity = "zero"

\* The control loop drives for the current goal, or for the one it was preempted
\* from; only while it is in the loop, or until a deactivation has stopped it, or when
\* publish_zero_velocity was off.
ControllerLoops ==
  {"loop", "cancel", "cancelled", "costmap", "update", "accept", "velocity", "reached", "error",
   "succeed"}
ControllerPlaces ==
  {"off", "entry", "setup", "retarget", "refuse", "return", "crashed"} \cup ControllerLoops
ControllerInv ==
  /\ cb \in Callbacks(ControllerPlaces, ControllerOwn)
  /\ cb.gate <=> lifecycle # "inactive"
  /\ cb.at \in ControllerLoops \cup {"setup"} => Mine
  /\ cb.at = "retarget" => current \in {None, cb.own.asked}
  /\ cb.at = "accept" /\ Undisturbed => pending # None
  /\ cb.at = "crashed" => ~Undisturbed
  /\ Undisturbed /\ cb.at \in {"entry", "setup", "retarget", "refuse"} => current # None
  /\ Undisturbed /\ cb.at \in ControllerLoops => current # None \/ cb.own.refused
  /\ cb.velocity = "moving" =>
       \/ cb.at \in ControllerLoops \cup {"retarget", "refuse", "crashed"}
       \/ lifecycle = "deactivating" \/ ~cb.own.zero

\* A behavior that was not deactivated has its publisher, and stops the robot on
\* every way out but the one without a pose.
BehaviorLoops == {"loop", "preempted", "cancel", "cancelled", "cycle"}
BehaviorWork == {"run", "failed", "succeeded"} \cup BehaviorLoops
BehaviorPlaces == {"off", "entry", "return", "crashed"} \cup BehaviorWork
BehaviorInv ==
  /\ cb \in Callbacks(BehaviorPlaces, BehaviorOwn)
  /\ Undisturbed /\ lifecycle = "active" => cb.gate
  /\ cb.at \in BehaviorWork => Mine
  /\ cb.at \in BehaviorWork /\ Undisturbed => cb.job # None
  /\ cb.at \in {"entry"} \cup BehaviorWork /\ Undisturbed => current # None
  /\ cb.at = "crashed" => ~Undisturbed
  /\ cb.velocity = "moving" => cb.at \in BehaviorLoops \/ cb.own.lost \/ ~Undisturbed
  /\ server = "wait" => cb.velocity = "zero"

\* The docking server: the dock it allocated, the attempts it has left, and when
\* the robot may be moving.
DockDrives == {"approach", "charge", "retry", "reset", "docking_done", "interrupted", "error"}
UndockDrives == {"undock", "undock_error", "undock_interrupted", "undock_done"}
DockHolds == {"docked", "stage", "perceive"} \cup DockDrives
DockWork == {"cancel", "cancelled", "preempt", "find"} \cup DockHolds \cup UndockDrives
DockPlaces == {"off", "entry", "inactive", "return", "no_plugin"} \cup DockWork
DockInv ==
  /\ cb \in Callbacks(DockPlaces, DockOwn)
  /\ cb.gate <=> lifecycle # "inactive"
  /\ cb.at = "inactive" /\ cb.job = None => lifecycle = "deactivating"
  /\ cb.at \in DockWork => cb.job # None
  /\ cb.at \in DockWork \cup {"inactive"} => Mine \/ cb.kept
  /\ cb.at \in DockWork \cup {"entry", "inactive"} /\ Undisturbed => current # None
  /\ cb.at = "find" => cb.own.dock = "null" /\ cb.own.retries = 0
  /\ cb.at \in DockHolds \ {"error", "interrupted"} => cb.own.retries <= MaxRetries
  /\ cb.own.dock = "new" => cb.at \in DockHolds \/ cb.own.leaked
  /\ cb.velocity = "moving" => cb.at \in DockDrives \cup UndockDrives

\* The route server: whose blocked edges it plans around.
RouteWork ==
  {"inactive", "cancel", "cancelled", "graph", "no_graph", "preempt", "accept", "find", "track",
   "error", "succeed"}
RoutePlaces == {"off", "entry", "return", "crashed"} \cup RouteWork
RouteInv ==
  /\ cb \in Callbacks(RoutePlaces, RouteOwn)
  /\ cb.at \in RouteWork => Mine \/ (cb.at = "find" /\ cb.job = None)
  /\ cb.at \in RouteWork => cb.own.blocked \in {None, cb.job}
  /\ cb.at \in RouteWork /\ Undisturbed => cb.job # None
  /\ cb.at = "accept" /\ Undisturbed => pending # None
  /\ cb.at = "crashed" => ~Undisturbed
  /\ cb.velocity = "zero"

\* The navigators: who has the muxer, and what onPreempt knows of the pending goal.
BtRuns == {"loop", "tick", "on_loop", "pending", "on_preempt", "accept", "refuse"}
BtPlaces ==
  {"off", "entry", "reject", "received", "start", "initialize", "completion", "result", "return",
   "crashed"} \cup BtRuns
BtInv ==
  /\ cb \in Callbacks(BtPlaces, BtOwn)
  /\ cb.own.muxer = "this" => cb.at \in {"initialize", "completion", "crashed"} \cup BtRuns
  /\ cb.own.muxer = "other" => cb.own.other = "navigating"
  /\ cb.at \in {"received", "start"} \cup BtRuns => Mine \/ (cb.kept /\ server \in PoseNavigators)
  /\ cb.at = "initialize" => cb.own.asked = None \/ current \in {None, cb.own.asked}
  /\ cb.at \in {"completion", "result"} =>
       Mine \/ (cb.kept /\ server \in PoseNavigators) \/ cb.own.rc # "SUCCEEDED"
  /\ Undisturbed =>
       /\ cb.at \in {"received"} => cb.job # None
       /\ cb.at \in {"pending", "on_preempt", "accept"} => pending # None
       /\ cb.at \in {"on_preempt", "initialize"} => cb.own.asked # None
  /\ cb.at = "crashed" => ~Undisturbed
  /\ cb.velocity = "zero"

\* The waypoint follower: unless a waypoint was missed, it has reached those before
\* the index, from where the round began.
FollowerStarts == {"poses", "inactive", "check"}
FollowerLoops ==
  {"loop", "preempt", "accept", "send", "status", "spin", "stop", "cancelled"}
FollowerCounts == {"advance", "succeed"} \cup FollowerLoops
FollowerPlaces ==
  {"off", "entry", "empty", "repose", "return", "stuck", "crashed", "overrun"}
    \cup FollowerStarts \cup FollowerCounts
FollowerAt(c) ==
  /\ c.at \in {"empty"} \cup FollowerStarts \cup FollowerCounts => current \in {None, c.job}
  /\ c.at \in FollowerStarts \cup FollowerCounts => c.job # None
  /\ c.at \in FollowerStarts => c.own.index = 0 /\ c.own.reached = {} /\ c.own.missed = {}
  /\ c.at \in FollowerCounts =>
       /\ c.own.first <= c.own.index /\ c.own.index < c.own.poses
       /\ c.own.missed \subseteq {c.job} \/ c.kept
  /\ c.at \in FollowerLoops /\ c.own.missed = {} => c.own.reached = c.own.first .. c.own.index - 1
  /\ c.at = "advance" /\ c.own.missed = {} => c.own.reached = c.own.first .. c.own.index
  /\ c.at = "succeed" /\ c.own.missed = {} => c.own.reached = c.own.first .. c.own.poses - 1
  /\ c.own.late.responses + c.own.late.results <= MaxLate
  /\ c.at = "crashed" => ~Undisturbed \/ c.own.sent = "rejected"
  /\ c.velocity = "zero"
FollowerInv == cb \in Callbacks(FollowerPlaces, FollowerOwn) /\ FollowerAt(cb)

-----------------------------------------------------------------------------
ServerInv ==
  /\ server \in Planners => PlannerInv
  /\ server \in RoomPlanners => RoomInv
  /\ server \in Controllers => ControllerInv
  /\ server \in Smoothers => SmootherInv
  /\ server \in Behaviors => BehaviorInv
  /\ server \in Followers => FollowerInv
  /\ server \in Docks => DockInv
  /\ server \in Routers => RouteInv
  /\ server \in Navigators => BtInv

NavInv == IInv /\ LifeInv /\ CallbackInv /\ ServerInv /\ SuccessIsOwn

-----------------------------------------------------------------------------
(* What the operations of the action server do to its slots and to the answers *)

\* No goal succeeds in this step.
NoNewSuccess ==
  \A g \in Goals : handle'[g] = "succeeded" => handle[g] = "succeeded" /\ result'[g] = result[g]

\* terminate_all() empties both slots.
LEMMA AllEnd ==
  ASSUME IInv, NEW r, TerminateAll(r)
  PROVE  current' = None /\ pending' = None /\ NoNewSuccess
BY NoneAssumption DEF IInv, TypeOK, SlotsConsistent, TerminateAll, Terminate, AfterTerminate,
   is_active, NoNewSuccess

\* terminate_current() empties the current slot.
LEMMA CurrentEnds ==
  ASSUME IInv, NEW r, TerminateCurrent(r)
  PROVE  current' = None /\ pending' = pending /\ NoNewSuccess
BY NoneAssumption DEF IInv, TypeOK, SlotsConsistent, TerminateCurrent, Terminate, AfterTerminate,
   is_active, NoNewSuccess

\* terminate_pending_goal() empties the pending slot.
LEMMA PendingEnds ==
  ASSUME IInv, TerminatePendingGoal
  PROVE  current' = current /\ pending' = None /\ NoNewSuccess
BY NoneAssumption DEF IInv, TypeOK, SlotsConsistent, TerminatePendingGoal, Terminate, is_active,
   NoNewSuccess

\* accept_pending_goal() moves the pending goal to the current slot, if there is one.
LEMMA PendingAccepted ==
  ASSUME IInv, AcceptPendingGoal
  PROVE  /\ current' = (IF pending = None THEN current ELSE pending)
         /\ pending' = None
         /\ is_active(pending) <=> pending # None
         /\ NoNewSuccess
BY NoneAssumption DEF IInv, TypeOK, SlotsConsistent, AcceptPendingGoal, is_active, NoNewSuccess,
   handleVars, slotVars

\* succeeded_current() answers the current goal, and no other.
LEMMA CurrentSucceeds ==
  ASSUME IInv, NEW r, SucceededCurrent(r)
  PROVE  /\ current' = None /\ pending' = pending
         /\ \A g \in Goals : handle'[g] = "succeeded" =>
              \/ handle[g] = "succeeded" /\ result'[g] = result[g]
              \/ g = current /\ result'[g] = r
BY NoneAssumption DEF IInv, TypeOK, SlotsConsistent, SucceededCurrent, is_active, handleVars,
   slotVars

\* get_current_goal() is the goal in the current slot.
LEMMA CurrentGoalIs ==
  ASSUME IInv
  PROVE  CurrentGoal = current /\ current \in Goals \cup {None} /\ pending \in Goals \cup {None}
BY DEF IInv, TypeOK, SlotsConsistent, CurrentGoal

\* A step in which no goal succeeds keeps SuccessIsOwn.
LEMMA SuccessKept ==
  ASSUME SuccessIsOwn, NoNewSuccess, server' = server, cb.kept => cb'.kept
  PROVE  SuccessIsOwn'
BY DEF SuccessIsOwn, NoNewSuccess

\* So does an answer about the current goal alone.
LEMMA SuccessGiven ==
  ASSUME IInv, SuccessIsOwn, NEW r, SucceededCurrent(r), server' = server, cb.kept => cb'.kept,
         r.kind # "short",
         current = None \/ r.for \subseteq {current} \/ (cb.kept /\ server \in KeepsData)
  PROVE  SuccessIsOwn'
<1> SUFFICES ASSUME NEW g \in Goals, handle'[g] = "succeeded"
             PROVE  /\ result'[g].for \subseteq {g} \/ (cb'.kept /\ server' \in KeepsData)
                    /\ result'[g].kind # "short"
  BY DEF SuccessIsOwn
<1>1. \/ handle[g] = "succeeded" /\ result'[g] = result[g]
      \/ g = current /\ result'[g] = r
  BY CurrentSucceeds
<1> QED BY <1>1, NoneAssumption DEF SuccessIsOwn

-----------------------------------------------------------------------------
(* What a step of a callback is *)

\* The callback goes on: the other threads are where they were, and what changed in the
\* action server was one call into it.
Goes ==
  /\ server' = server /\ worker = "callback"
  /\ UNCHANGED <<worker, accepting, lifeVars>>
  /\ [CallbackCall]_serverVars
  /\ cb'.at \notin {"off", "entry"}
  /\ SuccessIsOwn'

\* The new place, with everything else as it was.
Moved(c, p) ==
  /\ c.at = p /\ c.job = cb.job /\ c.velocity = cb.velocity /\ c.gate = cb.gate
  /\ c.kept = cb.kept /\ c.own = cb.own

\* Goto changes the place only.
LEMMA GotoIs ==
  ASSUME NEW P, NEW O, cb \in Callbacks(P, O), NEW p \in P
  PROVE  Goto(p) \in Callbacks(P, O) /\ Moved(Goto(p), p)
BY DEF Callbacks, Goto, Moved

\* A step that calls nothing.
LEMMA LocalGoes ==
  ASSUME NavInv, NEW c, Local(c), cb.at # "off", c.at \notin {"off", "entry"}, cb.kept => c.kept
  PROVE  Goes /\ UNCHANGED serverVars /\ cb' = c
<1>1. cb' = c /\ UNCHANGED serverVars /\ server' = server
  BY DEF Local
<1>2. NoNewSuccess
  BY <1>1 DEF NoNewSuccess, serverVars
<1>3. SuccessIsOwn'
  BY <1>1, <1>2, SuccessKept DEF NavInv
<1>4. worker = "callback"
  BY DEF NavInv, CallbackInv
<1> QED BY <1>1, <1>3, <1>4 DEF Goes, serverVars, lifeVars

\* A step that ends all goals, or the current one.
LEMMA EndGoes ==
  ASSUME NavInv, NEW c, NEW r \in Results, TerminateAll(r) \/ TerminateCurrent(r), Called(c),
         cb.at # "off", c.at \notin {"off", "entry"}, cb.kept => c.kept
  PROVE  Goes /\ current' = None /\ cb' = c /\ UNCHANGED lifeVars
<1>1. cb' = c /\ server' = server /\ UNCHANGED <<worker, accepting, lifeVars>>
  BY DEF Called
<1>2. current' = None /\ NoNewSuccess
  BY AllEnd, CurrentEnds DEF NavInv
<1>3. SuccessIsOwn'
  BY <1>1, <1>2, SuccessKept DEF NavInv
<1>4. CallbackCall
  BY <1>1, SMTT(30) DEF CallbackCall, NavInv, CallbackInv
<1> QED BY <1>1, <1>2, <1>3, <1>4 DEF Goes, CallbackCall

\* A step that answers the current goal.
LEMMA SucceedGoes ==
  ASSUME NavInv, NEW c, NEW r \in Results, SucceededCurrent(r), Called(c),
         cb.at # "off", c.at \notin {"off", "entry"}, cb.kept => c.kept, r.kind # "short",
         current = None \/ r.for \subseteq {current} \/ (cb.kept /\ server \in KeepsData)
  PROVE  Goes /\ current' = None /\ cb' = c /\ UNCHANGED lifeVars
<1>1. cb' = c /\ server' = server /\ UNCHANGED <<worker, accepting, lifeVars>>
  BY SMTT(30) DEF Called
<1>2. current' = None
  BY CurrentSucceeds DEF NavInv
<1>3. SuccessIsOwn'
  BY <1>1, SuccessGiven DEF NavInv
<1>4. CallbackCall
  BY <1>1 DEF CallbackCall, NavInv, CallbackInv
<1> QED BY <1>1, <1>2, <1>3, <1>4 DEF Goes, CallbackCall

\* A step that takes over the pending goal, if there is one.
LEMMA AcceptGoes ==
  ASSUME NavInv, NEW c, AcceptPendingGoal, Called(c), cb.at # "off",
         c.at \notin {"off", "entry"}, cb.kept => c.kept
  PROVE  /\ Goes /\ cb' = c /\ UNCHANGED lifeVars
         /\ current' = (IF pending = None THEN current ELSE pending)
         /\ pending' = None
         /\ is_active(pending) <=> pending # None
<1>1. cb' = c /\ server' = server /\ UNCHANGED <<worker, accepting, lifeVars>>
  BY DEF Called
<1>2. /\ current' = (IF pending = None THEN current ELSE pending) /\ pending' = None
      /\ is_active(pending) <=> pending # None
      /\ NoNewSuccess
  BY PendingAccepted DEF NavInv
<1>3. SuccessIsOwn'
  BY <1>1, <1>2, SuccessKept DEF NavInv
<1>4. CallbackCall
  BY <1>1 DEF CallbackCall, NavInv, CallbackInv
<1> QED BY <1>1, <1>2, <1>3, <1>4 DEF Goes, CallbackCall

\* A step that asks the action server for something it does not do.
LEMMA IgnoredGoes ==
  ASSUME NavInv, NEW c, UNCHANGED <<handleVars, slotVars>>, Called(c), cb.at # "off",
         c.at \notin {"off", "entry"}, cb.kept => c.kept
  PROVE  Goes /\ UNCHANGED serverVars /\ cb' = c
<1>1. cb' = c /\ UNCHANGED serverVars /\ server' = server
  BY DEF Called, serverVars, lifeVars, handleVars, slotVars
<1>2. NoNewSuccess
  BY <1>1 DEF NoNewSuccess, serverVars
<1>3. SuccessIsOwn'
  BY <1>1, <1>2, SuccessKept DEF NavInv
<1>4. worker = "callback"
  BY DEF NavInv, CallbackInv
<1> QED BY <1>1, <1>3, <1>4 DEF Goes, serverVars, lifeVars

\* An answer is a result the action server can give.
LEMMA AnswerIs ==
  ASSUME cb.job \in Goals \cup {None}, NEW k \in AnswerKinds
  PROVE  /\ Answer(k) \in Results /\ Answer(k).kind = k /\ Answer(k).for \subseteq {cb.job}
         /\ EmptyResult \in Results
BY NavResultsAssumption, EmptyResultAssumption DEF Answer, NavResults

\* A step that only goes on to the next place.
LEMMA GotoGoes ==
  ASSUME NavInv, NEW P, NEW O, cb \in Callbacks(P, O), NEW p \in P, p \notin {"off", "entry"},
         cb.at # "off", Local(Goto(p))
  PROVE  Goes /\ UNCHANGED serverVars /\ cb' \in Callbacks(P, O) /\ Moved(cb', p)
<1>1. Goto(p) \in Callbacks(P, O) /\ Moved(Goto(p), p)
  BY GotoIs
<1>2. Goes /\ UNCHANGED serverVars /\ cb' = Goto(p)
  BY <1>1, LocalGoes DEF Moved
<1> QED BY <1>1, <1>2

\* The last step of a callback that ends its goals without success.
LEMMA EndReturns ==
  ASSUME NavInv, NEW P, NEW O, cb \in Callbacks(P, O), "return" \in P, cb.at # "off",
         NEW r \in Results, TerminateAll(r) \/ TerminateCurrent(r), Called(Goto("return"))
  PROVE  /\ Goes /\ current' = None /\ UNCHANGED lifeVars
         /\ cb' \in Callbacks(P, O) /\ Moved(cb', "return")
<1>1. Goto("return") \in Callbacks(P, O) /\ Moved(Goto("return"), "return")
  BY GotoIs
<1>2. Goes /\ current' = None /\ UNCHANGED lifeVars /\ cb' = Goto("return")
  BY <1>1, EndGoes, SMTT(30) DEF Moved
<1> QED BY <1>1, <1>2

\* The last step of a callback that succeeds.
LEMMA SucceedReturns ==
  ASSUME NavInv, NEW P, NEW O, cb \in Callbacks(P, O), "return" \in P, cb.at # "off",
         NEW r \in Results, SucceededCurrent(r), Called(Goto("return")), r.kind # "short",
         current = None \/ r.for \subseteq {current} \/ (cb.kept /\ server \in KeepsData)
  PROVE  /\ Goes /\ current' = None /\ UNCHANGED lifeVars
         /\ cb' \in Callbacks(P, O) /\ Moved(cb', "return")
<1>1. Goto("return") \in Callbacks(P, O) /\ Moved(Goto("return"), "return")
  BY GotoIs, SMTT(30)
<1>2. Goes /\ current' = None /\ UNCHANGED lifeVars /\ cb' = Goto("return")
  BY <1>1, SucceedGoes DEF Moved
<1> QED BY <1>1, <1>2, SMTT(30)

\* get_current_goal() at the start of a callback.
LEMMA EntryGoes ==
  ASSUME NavInv, NEW P, NEW O, cb \in Callbacks(P, O), NEW p \in P, p \notin {"off", "entry"},
         cb.at # "off", Local([cb EXCEPT !.at = p, !.job = CurrentGoal])
  PROVE  /\ Goes /\ UNCHANGED serverVars /\ cb' \in Callbacks(P, O)
         /\ cb'.at = p /\ cb'.job = current /\ cb'.kept = cb.kept /\ cb'.own = cb.own
         /\ cb'.velocity = cb.velocity /\ cb'.gate = cb.gate
<1> DEFINE c == [cb EXCEPT !.at = p, !.job = CurrentGoal]
<1>1. CurrentGoal = current /\ current \in Goals \cup {None}
  BY CurrentGoalIs DEF NavInv
<1>2. /\ c \in Callbacks(P, O)
      /\ c.at = p /\ c.job = current /\ c.kept = cb.kept /\ c.own = cb.own
      /\ c.velocity = cb.velocity /\ c.gate = cb.gate
  BY <1>1, Zenon DEF Callbacks
<1> HIDE DEF c
<1>3. Goes /\ UNCHANGED serverVars /\ cb' = c
  BY <1>2, LocalGoes, Zenon DEF c
<1> QED BY <1>2, <1>3

\* getPreemptedGoalIfRequested of the planner and the room planner server: the goal in
\* hand stays, and a preemption is remembered.
LEMMA PreemptGoes ==
  ASSUME NavInv, NEW P, NEW O, cb \in Callbacks(P, O), "start" \in P, cb.at # "off",
         IF preempt_requested THEN AcceptPendingGoal ELSE UNCHANGED <<handleVars, slotVars>>,
         Called([cb EXCEPT !.at = "start", !.kept = @ \/ preempt_requested])
  PROVE  /\ Goes /\ cb' \in Callbacks(P, O) /\ UNCHANGED lifeVars
         /\ cb'.at = "start" /\ cb'.job = cb.job /\ cb'.velocity = cb.velocity
         /\ cb.kept => cb'.kept
         /\ cb'.kept \/ current' = current
<1> DEFINE k == cb.kept \/ preempt_requested
           c == [cb EXCEPT !.at = "start", !.kept = k]
<1>1. k \in BOOLEAN /\ (cb.kept => k)
  OBVIOUS
<1>2. Called(c)
  OBVIOUS
<1>3. CASE preempt_requested
  <2>1. k
    BY <1>3
  <2> HIDE DEF k
  <2>2. /\ c \in Callbacks(P, O) /\ c.at = "start" /\ c.job = cb.job /\ c.velocity = cb.velocity
        /\ c.kept = k
    BY <1>1, Zenon DEF Callbacks
  <2> HIDE DEF c
  <2>3. Goes /\ cb' = c /\ UNCHANGED lifeVars
    BY <1>1, <1>2, <1>3, <2>2, AcceptGoes
  <2> QED BY <1>1, <2>1, <2>2, <2>3, Zenon
<1>4. CASE ~preempt_requested
  <2> HIDE DEF k
  <2>2. /\ c \in Callbacks(P, O) /\ c.at = "start" /\ c.job = cb.job /\ c.velocity = cb.velocity
        /\ c.kept = k
    BY <1>1, Zenon DEF Callbacks
  <2> HIDE DEF c
  <2>3. Goes /\ cb' = c /\ UNCHANGED serverVars
    BY <1>1, <1>2, <1>4, <2>2, IgnoredGoes
  <2> QED BY <1>1, <2>2, <2>3 DEF serverVars, lifeVars
<1> QED BY <1>3, <1>4

-----------------------------------------------------------------------------
(* The navigators *)

\* A step of a navigator that only goes on in the loop.
LEMMA BtGoto ==
  ASSUME NavInv, server \in Navigators, NEW p \in BtRuns, Local(Goto(p)), cb.at \in BtRuns,
         p \in {"pending", "on_preempt", "accept"} => preempt_requested,
         p # "on_preempt"
  PROVE  Goes /\ BtInv'
<1> DEFINE C == Callbacks(BtPlaces, BtOwn)
<1>1. BtInv /\ IInv /\ cb \in C
  BY Zenon DEF NavInv, ServerInv, BtInv
<1>2. p \in BtPlaces /\ p \notin {"off", "entry"} /\ cb.at # "off"
  BY SMTT(30) DEF BtPlaces, BtRuns
<1>3. Goes /\ UNCHANGED serverVars /\ cb' \in C /\ Moved(cb', p)
  BY <1>1, <1>2, GotoGoes, SMTT(30)
<1>4. preempt_requested => pending # None
  BY <1>1, SMTT(30) DEF IInv, SlotsConsistent
<1> QED BY <1>1, <1>3, <1>4, ZenonT(40) DEF Goes, BtInv, BtRuns, Mine, serverVars, Moved, Undisturbed

\* Every step of BtActionServer::executeCallback and BehaviorTreeEngine::run.
LEMMA BtStep ==
  ASSUME NavInv, server \in Navigators, BtNext
  PROVE  Goes /\ BtInv'
<1> DEFINE C == Callbacks(BtPlaces, BtOwn)
<1>i. /\ BtInv /\ IInv /\ LifeInv /\ cb \in C
      /\ (cb.at = "entry" /\ current = None => lifecycle = "deactivating")
  BY Zenon DEF NavInv, ServerInv, CallbackInv, BtInv
<1>t. /\ cb.job \in Goals \cup {None} /\ cb.own \in BtOwn /\ cb.own.asked \in Goals \cup {None}
      /\ cb.own.trees \in [Goals -> Trees] /\ cb.kept \in BOOLEAN
      /\ cb.own.muxer \in {"", "this", "other"} /\ cb.own.rc \in {"SUCCEEDED", "FAILED", "CANCELED"}
  BY <1>i, TreesAssumption, ZenonT(40) DEF Callbacks, BtOwn
<1>p. /\ "return" \in BtPlaces /\ "crashed" \in BtPlaces /\ "loop" \in BtPlaces
      /\ "completion" \in BtPlaces /\ "reject" \in BtPlaces /\ "received" \in BtPlaces
      /\ "start" \in BtPlaces /\ "on_preempt" \in BtPlaces /\ "accept" \in BtPlaces
      /\ "refuse" \in BtPlaces /\ "initialize" \in BtPlaces /\ "result" \in BtPlaces
  BY SMTT(30) DEF BtPlaces, BtRuns
<1>g. current \in Goals \cup {None} /\ pending \in Goals \cup {None} /\ CurrentGoal = current
      /\ (is_active(pending) <=> pending # None)
  BY <1>i, CurrentGoalIs, SMTT(30) DEF IInv, SlotsConsistent, is_active
<1>c. ASSUME Local(Goto("crashed")), cb.at \in {"received", "on_preempt", "initialize"}, ~Undisturbed
      PROVE  Goes /\ BtInv'
  <2>1. Goes /\ UNCHANGED serverVars /\ cb' \in C /\ Moved(cb', "crashed")
    BY <1>i, <1>p, <1>c, GotoGoes, SMTT(30)
  <2> QED BY <1>i, <1>c, <2>1, ZenonT(40) DEF Goes, BtInv, BtRuns, Mine, serverVars, Moved, Undisturbed
<1>1. CASE BtEntry
  <2>1. PICK p \in {"reject", "received"} :
          Local([cb EXCEPT !.at = p, !.job = CurrentGoal])
    BY <1>1, Zenon DEF BtEntry
  <2>2. cb.at = "entry"
    BY <1>1 DEF BtEntry, Here
  <2>3. /\ Goes /\ UNCHANGED serverVars /\ cb' \in C
        /\ cb'.at = p /\ cb'.job = current /\ cb'.velocity = cb.velocity /\ cb'.own = cb.own
    BY <1>i, <1>p, <2>1, <2>2, EntryGoes, ZenonT(40)
  <2>4. current = None => ~Undisturbed
    BY <1>i, <2>2 DEF LifeInv, Undisturbed
  <2> QED BY <1>i, <2>1, <2>2, <2>3, <2>4, SMTT(30) DEF Goes, BtInv, BtRuns, Mine, serverVars, Undisturbed
<1>2. CASE BtGoalReceived
  <2>1. cb.at = "received"
    BY <1>2 DEF BtGoalReceived, Here
  <2>2. CASE cb.job = None
    <3>1. Local(Goto("crashed")) /\ ~Undisturbed
      BY <1>i, <1>2, <2>1, <2>2, SMTT(30) DEF BtGoalReceived, BtInv
    <3> QED BY <1>c, <2>1, <3>1
  <2>3. CASE Local(Goto("reject"))
    <3>1. Goes /\ UNCHANGED serverVars /\ cb' \in C /\ Moved(cb', "reject")
      BY <1>i, <1>p, <2>1, <2>3, GotoGoes, SMTT(30)
    <3> QED BY <1>i, <2>1, <3>1, ZenonT(40) DEF Goes, BtInv, BtRuns, Mine, serverVars, Moved, Undisturbed
  <2>4. CASE cb.job # None /\ ~Local(Goto("reject"))
    <3>1. PICK p \in {"reject", "start"} :
            Local([cb EXCEPT !.at = p, !.own.tree = cb.own.trees[cb.job]])
      BY <1>2, <2>4, SMTT(30) DEF BtGoalReceived
    <3> DEFINE v == cb.own.trees[cb.job]
               c == [cb EXCEPT !.at = p, !.own.tree = v]
    <3>2. v \in Trees
      BY <1>t, <2>4, Zenon
    <3> HIDE DEF v
    <3>3. /\ c \in C /\ c.at = p /\ c.job = cb.job /\ c.kept = cb.kept /\ c.velocity = cb.velocity
          /\ c.own.muxer = cb.own.muxer /\ c.own.other = cb.own.other
      BY <1>i, <1>t, <1>p, <3>1, <3>2, Zenon DEF Callbacks, BtOwn
    <3>4. Local(c)
      BY <3>1 DEF v
    <3> HIDE DEF c
    <3>5. Goes /\ UNCHANGED serverVars /\ cb' = c
      BY <2>1, <3>1, <3>3, <3>4, LocalGoes, SMTT(30)
    <3> QED BY <1>i, <2>1, <3>1, <3>3, <3>5, SMTT(30)
            DEF Goes, BtInv, BtRuns, Mine, serverVars, Undisturbed
  <2> QED BY <2>2, <2>3, <2>4
<1>3. CASE BtStartNavigating
  <2> DEFINE c == [cb EXCEPT !.at = "loop", !.own.muxer = "this"]
  <2>1. cb.at = "start" /\ Local(c)
    BY <1>3 DEF BtStartNavigating, Here
  <2>2. /\ c \in C /\ c.at = "loop" /\ c.job = cb.job /\ c.kept = cb.kept
        /\ c.velocity = cb.velocity /\ c.own.muxer = "this"
    BY <1>i, <1>t, <1>p, ZenonT(40) DEF Callbacks, BtOwn
  <2> HIDE DEF c
  <2>3. Goes /\ UNCHANGED serverVars /\ cb' = c
    BY <2>1, <2>2, LocalGoes, SMTT(30)
  <2> QED BY <1>i, <2>1, <2>2, <2>3, Zenon DEF Goes, BtInv, BtRuns, Mine, serverVars, Undisturbed
<1>4. CASE BtReject
  <2>1. cb.at = "reject" /\ TerminateCurrent(EmptyResult) /\ Called(Goto("return"))
    BY <1>4, SMTT(30) DEF BtReject, EndCurrent, Here
  <2>2. Goes /\ current' = None /\ UNCHANGED lifeVars /\ cb' \in C /\ Moved(cb', "return")
    BY <1>i, <1>p, <2>1, EndReturns, EmptyResultAssumption, SMTT(30)
  <2> QED BY <1>i, <2>1, <2>2, Zenon DEF Goes, BtInv, BtRuns, lifeVars, Moved, Undisturbed
<1>e. ASSUME NEW rc \in {"SUCCEEDED", "FAILED", "CANCELED"},
             Local([cb EXCEPT !.at = "completion", !.own.rc = rc]), cb.at \in BtRuns
      PROVE  Goes /\ BtInv'
  <2> DEFINE c == [cb EXCEPT !.at = "completion", !.own.rc = rc]
  <2>1. /\ c \in C /\ c.at = "completion" /\ c.job = cb.job /\ c.kept = cb.kept
        /\ c.velocity = cb.velocity /\ c.own.muxer = cb.own.muxer /\ c.own.other = cb.own.other
    BY <1>i, <1>t, <1>p, Zenon DEF Callbacks, BtOwn
  <2> HIDE DEF c
  <2>2. cb.at # "off" /\ Local(c)
    BY <1>e, SMTT(30) DEF BtRuns, c
  <2>3. Goes /\ UNCHANGED serverVars /\ cb' = c
    BY <2>1, <2>2, LocalGoes, SMTT(30)
  <2> QED BY <1>i, <1>e, <2>1, <2>3, SMTT(30) DEF Goes, BtInv, BtRuns, Mine, serverVars, Undisturbed
<1>5. CASE BtIsCanceling \/ BtTick
  <2>1. cb.at \in BtRuns
    BY <1>5 DEF BtIsCanceling, BtTick, Here, BtRuns
  <2>2. \/ \E p \in {"tick", "on_loop"} : Local(Goto(p))
        \/ \E rc \in {"SUCCEEDED", "FAILED", "CANCELED"} :
             Local([cb EXCEPT !.at = "completion", !.own.rc = rc])
    BY <1>5, SMTT(30) DEF BtIsCanceling, BtTick
  <2>3. CASE \E p \in {"tick", "on_loop"} : Local(Goto(p))
    BY <2>1, <2>3, BtGoto, SMTT(30) DEF BtRuns
  <2> QED BY <1>e, <2>1, <2>2, <2>3, SMTT(30)
<1>6. CASE BtIsPreempted
  <2>1. cb.at = "on_loop" /\ Local(Goto(IF preempt_requested THEN "pending" ELSE "loop"))
    BY <1>6, SMTT(30) DEF BtIsPreempted, Here
  <2>2. CASE preempt_requested
    BY <2>1, <2>2, BtGoto, SMTT(30) DEF BtRuns
  <2>3. CASE ~preempt_requested
    BY <2>1, <2>3, BtGoto, SMTT(30) DEF BtRuns
  <2> QED BY <2>2, <2>3
<1>7. CASE BtGetPendingGoal
  <2> DEFINE a == IF is_active(pending) THEN pending ELSE None
             c == [cb EXCEPT !.own.asked = a, !.at = "on_preempt"]
  <2>1. cb.at = "pending" /\ Local(c)
    BY <1>7 DEF BtGetPendingGoal, Here
  <2>2. a = pending
    BY <1>g
  <2> HIDE DEF a
  <2>3. /\ c \in C /\ c.at = "on_preempt" /\ c.job = cb.job /\ c.kept = cb.kept
        /\ c.velocity = cb.velocity /\ c.own.muxer = cb.own.muxer /\ c.own.other = cb.own.other
        /\ c.own.asked = pending
    BY <1>i, <1>t, <1>p, <1>g, <2>2, ZenonT(40) DEF Callbacks, BtOwn
  <2> HIDE DEF c
  <2>4. Goes /\ UNCHANGED serverVars /\ cb' = c
    BY <2>1, <2>3, LocalGoes, Zenon
  <2> QED BY <1>i, <2>1, <2>3, <2>4, ZenonT(40) DEF Goes, BtInv, BtRuns, Mine, serverVars, Undisturbed
<1>8. CASE BtOnPreempt
  <2>1. cb.at = "on_preempt"
    BY <1>8 DEF BtOnPreempt, Here
  <2>2. CASE cb.own.asked = None
    <3>1. Local(Goto("crashed")) /\ ~Undisturbed
      BY <1>i, <1>8, <2>1, <2>2, SMTT(30) DEF BtOnPreempt, BtInv
    <3> QED BY <1>c, <2>1, <3>1
  <2>3. CASE cb.own.asked # None
    <3>1. PICK p \in {"accept", "refuse"} : Local(Goto(p))
      BY <1>8, <2>3, SMTT(30) DEF BtOnPreempt, Goto
    <3>2. Goes /\ UNCHANGED serverVars /\ cb' \in C /\ Moved(cb', p)
      BY <1>i, <1>p, <2>1, <3>1, GotoGoes, SMTT(30)
    <3> QED BY <1>i, <2>1, <3>1, <3>2, Zenon DEF Goes, BtInv, BtRuns, Mine, serverVars, Moved, Undisturbed
  <2> QED BY <2>2, <2>3
<1>9. CASE BtRefuse
  <2> DEFINE c == [cb EXCEPT !.at = "loop", !.own.asked = None]
  <2>1. cb.at = "refuse" /\ Called(c)
    BY <1>9 DEF BtRefuse, Here
  <2>2. /\ c \in C /\ c.at = "loop" /\ c.job = cb.job /\ c.kept = cb.kept
        /\ c.velocity = cb.velocity /\ c.own.muxer = cb.own.muxer /\ c.own.other = cb.own.other
    BY <1>i, <1>t, <1>p, Zenon DEF Callbacks, BtOwn
  <2> HIDE DEF c
  <2>3. Goes /\ cb' = c /\ UNCHANGED lifeVars /\ current' = current
    <3>1. CASE is_active(pending)
      <4>1. TerminatePendingGoal
        BY <1>9, <3>1, SMTT(30) DEF BtRefuse
      <4>2. cb' = c /\ server' = server /\ UNCHANGED <<worker, accepting, lifeVars>>
        BY <2>1 DEF Called
      <4>3. current' = current /\ NoNewSuccess
        BY <1>i, <4>1, PendingEnds, SMTT(30)
      <4>4. SuccessIsOwn'
        BY <2>2, <4>2, <4>3, SuccessKept, ZenonT(40) DEF NavInv
      <4>5. CallbackCall
        BY <2>1, <4>1, <4>2, SMTT(30) DEF CallbackCall, NavInv, CallbackInv
      <4> QED BY <2>2, <4>2, <4>3, <4>4, <4>5, Zenon DEF Goes, CallbackCall
    <3>2. CASE ~is_active(pending)
      <4>1. UNCHANGED <<handleVars, slotVars>>
        BY <1>9, <3>2, SMTT(30) DEF BtRefuse
      <4>2. Goes /\ UNCHANGED serverVars /\ cb' = c
        BY <2>1, <2>2, <4>1, IgnoredGoes, SMTT(30)
      <4> QED BY <4>2 DEF serverVars, lifeVars
    <3> QED BY <3>1, <3>2, SMTT(30)
  <2> QED BY <1>i, <2>1, <2>2, <2>3, Zenon DEF Goes, BtInv, BtRuns, Mine, lifeVars, Undisturbed
<1>10. CASE BtAcceptPendingGoal
  <2> DEFINE a == IF is_active(pending) THEN pending ELSE None
             c == [cb EXCEPT !.at = "initialize", !.own.asked = a]
  <2>1. cb.at = "accept" /\ AcceptPendingGoal /\ Called(c)
    BY <1>10 DEF BtAcceptPendingGoal, Here
  <2>2. a = pending
    BY <1>g
  <2> HIDE DEF a
  <2>3. /\ c \in C /\ c.at = "initialize" /\ c.job = cb.job /\ c.kept = cb.kept
        /\ c.velocity = cb.velocity /\ c.own.muxer = cb.own.muxer /\ c.own.other = cb.own.other
        /\ c.own.asked = pending
    BY <1>i, <1>t, <1>p, <1>g, <2>2, ZenonT(40) DEF Callbacks, BtOwn
  <2> HIDE DEF c
  <2>4. /\ Goes /\ cb' = c /\ UNCHANGED lifeVars
        /\ current' = (IF pending = None THEN current ELSE pending)
    BY <2>1, <2>3, AcceptGoes, Zenon
  <2> QED BY <1>i, <2>1, <2>3, <2>4, Zenon DEF Goes, BtInv, BtRuns, Mine, lifeVars, Undisturbed
<1>11. CASE BtInitializeGoalPose
  <2>1. cb.at = "initialize"
    BY <1>11 DEF BtInitializeGoalPose, Here
  <2>2. CASE cb.own.asked = None /\ Local(Goto("crashed"))
    <3>1. ~Undisturbed
      BY <1>i, <2>1, <2>2, SMTT(30) DEF BtInv
    <3> QED BY <1>c, <2>1, <2>2, <3>1, SMTT(30)
  <2>3. CASE /\ cb.own.asked # None
             /\ Local([cb EXCEPT !.at = "loop", !.job = cb.own.asked, !.own.asked = None])
    <3> DEFINE a == cb.own.asked
               c == [cb EXCEPT !.at = "loop", !.job = a, !.own.asked = None]
    <3>1. a \in Goals \cup {None} /\ current \in {None, a}
      BY <1>i, <1>t, <2>1, <2>3, Zenon DEF BtInv
    <3>2. Local(c)
      BY <2>3
    <3> HIDE DEF a
    <3>3. /\ c \in C /\ c.at = "loop" /\ c.job = a /\ c.kept = cb.kept
          /\ c.velocity = cb.velocity /\ c.own.muxer = cb.own.muxer /\ c.own.other = cb.own.other
      BY <1>i, <1>t, <1>p, <3>1, ZenonT(40) DEF Callbacks, BtOwn
    <3> HIDE DEF c
    <3>4. Goes /\ UNCHANGED serverVars /\ cb' = c
      BY <2>1, <3>2, <3>3, LocalGoes, ZenonT(40)
    <3> QED BY <1>i, <2>1, <3>1, <3>3, <3>4, ZenonT(40) DEF Goes, BtInv, BtRuns, Mine, serverVars, Undisturbed
  <2>4. CASE server \in PoseNavigators /\ Local([cb EXCEPT !.at = "refuse", !.kept = TRUE])
    <3> DEFINE c == [cb EXCEPT !.at = "refuse", !.kept = TRUE]
    <3>1. /\ c \in C /\ c.at = "refuse" /\ c.job = cb.job /\ c.kept
          /\ c.velocity = cb.velocity /\ c.own = cb.own
      BY <1>i, <1>t, <1>p, Zenon DEF Callbacks
    <3>2. Local(c)
      BY <2>4, SMTT(30)
    <3> HIDE DEF c
    <3>3. Goes /\ UNCHANGED serverVars /\ cb' = c
      BY <2>1, <3>1, <3>2, LocalGoes, SMTT(30)
    <3> QED BY <1>i, <2>1, <2>4, <3>1, <3>3, SMTT(30) DEF Goes, BtInv, BtRuns, Mine, serverVars, Undisturbed
  <2>5. CASE Local([cb EXCEPT !.at = "completion", !.own.rc = "FAILED", !.own.asked = None])
    <3> DEFINE c == [cb EXCEPT !.at = "completion", !.own.rc = "FAILED", !.own.asked = None]
    <3>1. /\ c \in C /\ c.at = "completion" /\ c.job = cb.job /\ c.kept = cb.kept
          /\ c.velocity = cb.velocity /\ c.own.muxer = cb.own.muxer /\ c.own.other = cb.own.other
          /\ c.own.rc = "FAILED"
      BY <1>i, <1>t, <1>p, Zenon DEF Callbacks, BtOwn
    <3>2. Local(c)
      BY <2>5, SMTT(30)
    <3> HIDE DEF c
    <3>3. Goes /\ UNCHANGED serverVars /\ cb' = c
      BY <2>1, <3>1, <3>2, LocalGoes, ZenonT(40)
    <3> QED BY <1>i, <2>1, <3>1, <3>3, ZenonT(40) DEF Goes, BtInv, BtRuns, Mine, serverVars, Undisturbed
  <2> QED BY <1>11, <2>2, <2>3, <2>4, <2>5, SMTT(30) DEF BtInitializeGoalPose
<1>12. CASE BtOnCompletion
  <2> DEFINE m == IF cb.own.muxer = "this" THEN "" ELSE cb.own.muxer
             c == [cb EXCEPT !.at = "result", !.own.muxer = m]
  <2>1. cb.at = "completion" /\ Local([cb EXCEPT !.at = "result", !.own.muxer = IF @ = "this" THEN "" ELSE @])
    BY <1>12, SMTT(30) DEF BtOnCompletion, Here
  <2>2. /\ m \in {"", "this", "other"} /\ m # "this" /\ (m = "other" => cb.own.muxer = "other")
    BY <1>t, Zenon
  <2>3. [cb EXCEPT !.at = "result", !.own.muxer = IF @ = "this" THEN "" ELSE @] = c
    BY <1>i, <1>t, Zenon DEF Callbacks, BtOwn
  <2>4. Local(c)
    BY <2>1, <2>3, SMTT(30)
  <2> HIDE DEF m
  <2>5. /\ c \in C /\ c.at = "result" /\ c.job = cb.job /\ c.kept = cb.kept
        /\ c.velocity = cb.velocity /\ c.own.muxer = m /\ c.own.other = cb.own.other
        /\ c.own.rc = cb.own.rc
    BY <1>i, <1>t, <1>p, <2>2, Zenon DEF Callbacks, BtOwn
  <2> HIDE DEF c
  <2>6. Goes /\ UNCHANGED serverVars /\ cb' = c
    BY <2>1, <2>4, <2>5, LocalGoes, SMTT(30)
  <2> QED BY <1>i, <2>1, <2>2, <2>5, <2>6, Zenon DEF Goes, BtInv, BtRuns, Mine, serverVars, Undisturbed
<1>13. CASE BtResult
  <2>1. cb.at = "result" /\ Called(Goto("return"))
    BY <1>13 DEF BtResult, Here
  <2>2. \/ cb.own.rc = "SUCCEEDED" /\ SucceededCurrent(Answer("done"))
        \/ TerminateCurrent(Answer("error")) \/ TerminateAll(Answer("empty"))
    BY <1>t, <1>13, ZenonT(40) DEF BtResult
  <2>3. /\ Answer("done") \in Results /\ Answer("done").kind = "done"
        /\ Answer("done").for \subseteq {cb.job}
        /\ Answer("error") \in Results /\ Answer("empty") \in Results
    BY <1>t, AnswerIs, ZenonT(40) DEF AnswerKinds
  <2>4. cb.own.rc = "SUCCEEDED" =>
          current = None \/ Answer("done").for \subseteq {current} \/ (cb.kept /\ server \in KeepsData)
    BY <1>i, <2>1, <2>3, ZenonT(40) DEF BtInv, Mine, KeepsData
  <2>5. Goes /\ current' = None /\ UNCHANGED lifeVars /\ cb' \in C /\ Moved(cb', "return")
    BY <1>i, <1>p, <2>1, <2>2, <2>3, <2>4, EndReturns, SucceedReturns, ZenonT(40)
  <2> QED BY <1>i, <2>1, <2>5, Zenon DEF Goes, BtInv, BtRuns, lifeVars, Moved, Undisturbed
<1> QED BY <1>1, <1>2, <1>3, <1>4, <1>5, <1>6, <1>7, <1>8, <1>9, <1>10, <1>11, <1>12, <1>13, SMTT(30)
        DEF BtNext

-----------------------------------------------------------------------------
(* The waypoint follower *)

\* A step to a local state c of the follower.
LEMMA FollowerGoesOn ==
  ASSUME NavInv, server \in Followers, cb.at # "off",
         NEW c \in Callbacks(FollowerPlaces, FollowerOwn), Local(c), c.at \notin {"off", "entry"},
         cb.kept => c.kept, FollowerAt(c)
  PROVE  Goes /\ FollowerInv'
<1>1. Goes /\ UNCHANGED serverVars /\ cb' = c
  BY LocalGoes
<1> QED BY <1>1, ZenonT(40) DEF FollowerInv, FollowerAt, serverVars, Undisturbed

\* The members of the follower have their types.
LEMMA FollowerTypes ==
  ASSUME cb \in Callbacks(FollowerPlaces, FollowerOwn)
  PROVE  /\ cb.job \in Goals \cup {None} /\ cb.own \in FollowerOwn /\ cb.kept \in BOOLEAN
         /\ cb.own.poses \in 0..Waypoints /\ cb.own.index \in 0..Waypoints
         /\ cb.own.first \in 0..Waypoints /\ cb.own.loop \in 0..MaxLoops /\ cb.own.late.responses \in 0..MaxLate
         /\ cb.own.late.results \in 0..MaxLate /\ cb.own.missed \subseteq Goals
         /\ cb.own.reached \subseteq 0..Waypoints
         /\ cb.own.late \in [responses : 0..MaxLate, results : 0..MaxLate]
         /\ cb.own.sent \in SentStates /\ cb.own.fresh \in BOOLEAN /\ cb.own.open \in BOOLEAN
         /\ 0 \in 0..Waypoints /\ 0 \in 0..MaxLoops
BY WaypointsAssumption, SMTT(30) DEF Callbacks, FollowerOwn

\* A step that only goes on to the next place.
LEMMA FollowerGoto ==
  ASSUME NavInv, server \in Followers, cb.at \in FollowerLoops, NEW p \in FollowerLoops,
         Local(Goto(p))
  PROVE  Goes /\ FollowerInv'
<1> DEFINE c == Goto(p)
<1>1. FollowerInv /\ cb \in Callbacks(FollowerPlaces, FollowerOwn)
  BY DEF NavInv, ServerInv, FollowerInv
<1>2. p \in FollowerPlaces /\ p \notin {"off", "entry"} /\ cb.at # "off"
  BY SMTT(30) DEF FollowerPlaces, FollowerCounts, FollowerLoops
<1>3. c \in Callbacks(FollowerPlaces, FollowerOwn) /\ Moved(c, p)
  BY <1>1, <1>2, GotoIs, SMTT(30)
<1> HIDE DEF c
<1>4. FollowerAt(c)
  BY <1>1, <1>3, Zenon DEF FollowerInv, FollowerAt, Moved, FollowerCounts, FollowerLoops, FollowerStarts
<1> QED BY <1>2, <1>3, <1>4, FollowerGoesOn, ZenonT(40) DEF Moved, c

\* The start of followWaypointsHandler.
LEMMA FollowerBegins ==
  ASSUME NavInv, server \in Followers,
         FollowerEntry \/ FollowerPoses \/ FollowerIsInactive \/ FollowerCheck \/ FollowerEmpty
  PROVE  Goes /\ FollowerInv'
<1> DEFINE C == Callbacks(FollowerPlaces, FollowerOwn)
<1>i. /\ FollowerInv /\ IInv /\ LifeInv /\ cb \in C
      /\ (cb.at = "entry" /\ current = None => lifecycle = "deactivating")
  BY SMTT(30) DEF NavInv, ServerInv, CallbackInv, FollowerInv
<1>p. /\ "crashed" \in FollowerPlaces /\ "poses" \in FollowerPlaces /\ "inactive" \in FollowerPlaces
      /\ "check" \in FollowerPlaces /\ "return" \in FollowerPlaces /\ "empty" \in FollowerPlaces
      /\ "loop" \in FollowerPlaces /\ "overrun" \in FollowerPlaces
  BY DEF FollowerPlaces, FollowerStarts, FollowerCounts, FollowerLoops
<1>g. current \in Goals \cup {None} /\ CurrentGoal = current
  BY <1>i, CurrentGoalIs, SMTT(30)
<1>t. /\ cb.own \in FollowerOwn /\ cb.job \in Goals \cup {None} /\ cb.kept \in BOOLEAN
      /\ 0 \in 0..Waypoints /\ 0 \in 0..MaxLoops /\ cb.own.poses \in 0..Waypoints
  BY <1>i, FollowerTypes
<1>1. CASE FollowerEntry
  <2>1. cb.at = "entry"
    BY <1>1, SMTT(30) DEF FollowerEntry, Here
  <2>2. CASE current = None
    <3> DEFINE c == Goto("crashed")
    <3>1. c \in C /\ Moved(c, "crashed")
      BY <1>i, <1>p, GotoIs
    <3>2. Local(c)
      BY <1>1, <1>g, <2>2, SMTT(30) DEF FollowerEntry
    <3>3. ~Undisturbed
      BY <1>i, <2>1, <2>2, SMTT(30) DEF LifeInv, Undisturbed
    <3> HIDE DEF c
    <3>4. FollowerAt(c)
      BY <1>i, <3>1, <3>3, ZenonT(40)
         DEF FollowerInv, FollowerAt, Moved, FollowerCounts, FollowerLoops, FollowerStarts
    <3> QED BY <2>1, <3>1, <3>2, <3>4, FollowerGoesOn, SMTT(30) DEF Moved
  <2>3. CASE current # None
    <3> DEFINE o == [cb.own EXCEPT !.loop = 0, !.index = 0, !.missed = {}, !.reached = {}]
               c == [cb EXCEPT !.at = "poses", !.job = current, !.own = o]
    <3>1. o \in FollowerOwn /\ o.index = 0 /\ o.missed = {} /\ o.reached = {} /\ o.late = cb.own.late
      <4> DEFINE w == [cb.own EXCEPT !.loop = 0, !.index = 0]
      <4>1. w \in FollowerOwn /\ w.index = 0 /\ w.late = cb.own.late
        BY <1>t, Zenon DEF FollowerOwn
      <4>2. o = [w EXCEPT !.missed = {}, !.reached = {}]
        BY <1>t DEF FollowerOwn
      <4> HIDE DEF w
      <4> QED BY <4>1, <4>2, Zenon DEF FollowerOwn
    <3>2. [cb EXCEPT !.at = "poses", !.job = current, !.own.loop = 0,
                     !.own.index = 0, !.own.missed = {}, !.own.reached = {}] = c
      BY <1>i, Zenon DEF Callbacks
    <3>3. Local(c)
      BY <1>1, <1>g, <2>3, <3>2 DEF FollowerEntry
    <3> HIDE DEF o
    <3>4. /\ c \in C /\ c.at = "poses" /\ c.job = current /\ c.own = o /\ c.velocity = cb.velocity
          /\ c.kept = cb.kept
      BY <1>i, <1>p, <1>g, <3>1, ZenonT(40) DEF Callbacks
    <3> HIDE DEF c
    <3>5. FollowerAt(c)
      BY <1>i, <2>3, <3>1, <3>4, ZenonT(40)
         DEF FollowerInv, FollowerAt, FollowerCounts, FollowerLoops, FollowerStarts
    <3> QED BY <2>1, <3>3, <3>4, <3>5, FollowerGoesOn, Zenon
  <2> QED BY <2>2, <2>3
<1>2. CASE FollowerPoses
  <2>1. cb.at = "poses"
    BY <1>2, Zenon DEF FollowerPoses, Here
  <2>2. PICK n \in LatestGoalPoses : Local([cb EXCEPT !.at = "inactive", !.own.poses = n])
    BY <1>2, ZenonT(40) DEF FollowerPoses
  <2>3. n \in 0..Waypoints
    BY <1>t, WaypointsAssumption DEF LatestGoalPoses
  <2> DEFINE c == [cb EXCEPT !.at = "inactive", !.own.poses = n]
  <2>4. /\ c \in C /\ c.at = "inactive" /\ c.job = cb.job /\ c.velocity = cb.velocity
        /\ c.kept = cb.kept /\ c.own.late = cb.own.late /\ c.own.index = cb.own.index
        /\ c.own.missed = cb.own.missed /\ c.own.reached = cb.own.reached
    BY <1>i, <1>p, <1>t, <2>3, ZenonT(40) DEF Callbacks, FollowerOwn
  <2> HIDE DEF c
  <2>5. FollowerAt(c)
    BY <1>i, <2>1, <2>4, Zenon
       DEF FollowerInv, FollowerAt, FollowerCounts, FollowerLoops, FollowerStarts
  <2> QED BY <2>1, <2>2, <2>4, <2>5, FollowerGoesOn, ZenonT(40) DEF c
<1>3. CASE FollowerIsInactive
  <2>1. cb.at = "inactive"
    BY <1>3 DEF FollowerIsInactive, ReturnIfInactive, Here
  <2>2. PICK p \in {"check", "return"} : Local(Goto(p))
    BY <1>3, SMTT(30) DEF FollowerIsInactive, ReturnIfInactive
  <2> DEFINE c == Goto(p)
  <2>3. c \in C /\ Moved(c, p)
    BY <1>i, <1>p, <2>2, GotoIs, SMTT(30)
  <2> HIDE DEF c
  <2>4. FollowerAt(c)
    BY <1>i, <2>1, <2>2, <2>3, ZenonT(40)
       DEF FollowerInv, FollowerAt, Moved, FollowerCounts, FollowerLoops, FollowerStarts
  <2> QED BY <2>1, <2>2, <2>3, <2>4, FollowerGoesOn, ZenonT(40) DEF c, Moved
<1>4. CASE FollowerCheck
  <2>1. cb.at = "check"
    BY <1>4, Zenon DEF FollowerCheck, Here
  <2>2. cb.own.index = 0 /\ cb.own.reached = {} /\ cb.own.missed = {}
    BY <1>i, <2>1, Zenon DEF FollowerInv, FollowerAt, FollowerStarts
  <2>3. CASE cb.own.poses = 0
    <3> DEFINE c == Goto("empty")
    <3>1. Local(c)
      BY <1>4, <2>3, SMTT(30) DEF FollowerCheck
    <3>2. c \in C /\ Moved(c, "empty")
      BY <1>i, <1>p, GotoIs, SMTT(30)
    <3> HIDE DEF c
    <3>3. FollowerAt(c)
      BY <1>i, <2>1, <3>2, ZenonT(40)
         DEF FollowerInv, FollowerAt, Moved, FollowerCounts, FollowerLoops, FollowerStarts
    <3> QED BY <2>1, <3>1, <3>2, <3>3, FollowerGoesOn, ZenonT(40) DEF Moved
  <2>4. CASE cb.own.poses # 0
    <3>1. PICK k \in 0..Waypoints - 1 :
            Local([cb EXCEPT !.at = IF k < cb.own.poses THEN "loop" ELSE "overrun",
                             !.own.fresh = TRUE, !.own.index = k, !.own.first = k])
      BY <1>4, <2>4, ZenonT(40) DEF FollowerCheck
    <3>2. /\ k \in 0..Waypoints /\ k <= k /\ {} = k .. k - 1
      BY WaypointsAssumption, SMTT(30)
    <3> DEFINE p == IF k < cb.own.poses THEN "loop" ELSE "overrun"
               o == [cb.own EXCEPT !.fresh = TRUE, !.index = k, !.first = k]
               c == [cb EXCEPT !.at = p, !.own = o]
    <3>3. p \in {"loop", "overrun"} /\ (p = "loop" => k < cb.own.poses)
      BY SMTT(30)
    <3> HIDE DEF p
    <3>4. [cb EXCEPT !.at = p, !.own.fresh = TRUE, !.own.index = k, !.own.first = k] = c
      BY <1>i, <1>t, ZenonT(40) DEF Callbacks, FollowerOwn
    <3>5. Local(c)
      <4> HIDE DEF c
      <4> QED BY ONLY <3>1, <3>4, SMTT(30) DEF p
    <3>6. /\ o \in FollowerOwn /\ o.index = k /\ o.first = k /\ o.poses = cb.own.poses
          /\ o.missed = cb.own.missed /\ o.reached = cb.own.reached /\ o.late = cb.own.late
      BY <1>t, <3>2, Zenon DEF FollowerOwn
    <3> HIDE DEF o
    <3>7. /\ c \in C /\ c.at = p /\ c.job = cb.job /\ c.velocity = cb.velocity
          /\ c.kept = cb.kept /\ c.own = o
      BY <1>i, <1>p, <3>3, <3>6, Zenon DEF Callbacks
    <3> HIDE DEF c
    <3>8. FollowerAt(c)
      BY <1>i, <2>1, <2>2, <3>2, <3>3, <3>6, <3>7, ZenonT(40)
         DEF FollowerInv, FollowerAt, FollowerCounts, FollowerLoops, FollowerStarts
    <3> QED BY <2>1, <3>3, <3>5, <3>7, <3>8, FollowerGoesOn, ZenonT(40)
  <2> QED BY <2>3, <2>4
<1>5. CASE FollowerEmpty
  <2>1. cb.at = "empty" /\ TerminateCurrent(Answer("error")) /\ Called(Goto("return"))
    BY <1>5, SMTT(30) DEF FollowerEmpty, EndCurrent, Here
  <2>2. Answer("error") \in Results
    BY <1>t, AnswerIs, SMTT(30) DEF AnswerKinds
  <2>3. Goes /\ current' = None /\ UNCHANGED lifeVars /\ cb' \in C /\ Moved(cb', "return")
    BY <1>i, <1>p, <2>1, <2>2, EndReturns, SMTT(30)
  <2> QED BY <1>i, <2>1, <2>3, Zenon
          DEF FollowerInv, FollowerAt, FollowerCounts, FollowerLoops, FollowerStarts, lifeVars,
              Moved, Undisturbed
<1> QED BY <1>1, <1>2, <1>3, <1>4, <1>5, SMTT(30)

\* The loop: a preempting goal, and the next waypoint.
LEMMA FollowerTakes ==
  ASSUME NavInv, server \in Followers,
         \/ FollowerIsCanceled \/ FollowerCancelled \/ FollowerIsPreempted \/ FollowerAccept
         \/ FollowerRepose \/ FollowerSend \/ FollowerSpun
  PROVE  Goes /\ FollowerInv'
<1> DEFINE C == Callbacks(FollowerPlaces, FollowerOwn)
<1>i. FollowerInv /\ IInv /\ cb \in C
  BY SMTT(30) DEF NavInv, ServerInv, FollowerInv
<1>p. /\ "repose" \in FollowerPlaces /\ "send" \in FollowerPlaces /\ "status" \in FollowerPlaces
      /\ "return" \in FollowerPlaces /\ "empty" \in FollowerPlaces
  BY DEF FollowerPlaces, FollowerStarts, FollowerCounts, FollowerLoops
<1>g. current \in Goals \cup {None} /\ CurrentGoal = current
  BY <1>i, CurrentGoalIs, SMTT(30)
<1>t. /\ cb.own \in FollowerOwn /\ cb.job \in Goals \cup {None} /\ cb.kept \in BOOLEAN
      /\ 0 \in 0..Waypoints /\ cb.own.late.responses \in 0..MaxLate
      /\ cb.own.late.results \in 0..MaxLate
  BY <1>i, FollowerTypes, SMTT(30)
<1>1. CASE FollowerIsCanceled \/ FollowerIsPreempted \/ FollowerSpun
  <2>1. /\ cb.at \in FollowerLoops
        /\ \E p \in {"cancelled", "preempt", "accept", "send", "loop"} : Local(Goto(p))
    BY <1>1, SMTT(30) DEF FollowerIsCanceled, TestCancel, FollowerIsPreempted, FollowerSpun, Here,
                FollowerLoops
  <2> QED BY <2>1, FollowerGoto, SMTT(30) DEF FollowerLoops
<1>2. CASE FollowerCancelled
  <2>1. cb.at = "cancelled" /\ TerminateAll(EmptyResult) /\ Called(Goto("return"))
    BY <1>2, SMTT(30) DEF FollowerCancelled, EndAll, Here
  <2>2. Goes /\ current' = None /\ UNCHANGED lifeVars /\ cb' \in C /\ Moved(cb', "return")
    BY <1>i, <1>p, <2>1, EndReturns, EmptyResultAssumption, SMTT(30)
  <2> QED BY <1>i, <2>1, <2>2, ZenonT(40)
          DEF FollowerInv, FollowerAt, FollowerCounts, FollowerLoops, FollowerStarts, lifeVars,
              Moved, Undisturbed
<1>3. CASE FollowerAccept
  <2> DEFINE c == Goto("repose")
  <2>1. cb.at = "accept" /\ AcceptPendingGoal /\ Called(c)
    BY <1>3, SMTT(30) DEF FollowerAccept, Here
  <2>2. c \in C /\ Moved(c, "repose")
    BY <1>i, <1>p, GotoIs, SMTT(30)
  <2> HIDE DEF c
  <2>3. Goes /\ cb' = c /\ UNCHANGED lifeVars
    BY <2>1, <2>2, AcceptGoes, SMTT(30) DEF Moved
  <2> QED BY <1>i, <2>1, <2>2, <2>3, ZenonT(40)
          DEF FollowerInv, FollowerAt, FollowerCounts, FollowerLoops, FollowerStarts, lifeVars,
              Moved, Undisturbed
<1>4. CASE FollowerRepose
  <2>1. cb.at = "repose"
    BY <1>4, ZenonT(40) DEF FollowerRepose, Here
  <2>2. PICK n \in LatestGoalPoses :
          Local([cb EXCEPT !.at = IF n = 0 THEN "empty" ELSE "send", !.job = CurrentGoal,
                           !.kept = @ \/ cb.own.missed # {}, !.own.poses = n, !.own.index = 0,
                           !.own.first = 0, !.own.fresh = TRUE, !.own.reached = {}])
    BY <1>4, ZenonT(40) DEF FollowerRepose
  <2>3. n \in 0..Waypoints /\ (n # 0 => current # None)
    BY <1>g, <1>t, WaypointsAssumption, SMTT(30) DEF LatestGoalPoses
  <2> DEFINE p == IF n = 0 THEN "empty" ELSE "send"
             k == cb.kept \/ cb.own.missed # {}
             w == [cb.own EXCEPT !.poses = n, !.index = 0, !.first = 0]
             o == [w EXCEPT !.fresh = TRUE, !.reached = {}]
             d == [cb EXCEPT !.at = p, !.job = CurrentGoal]
             c == [d EXCEPT !.kept = k, !.own = o]
  <2>4. /\ p \in {"empty", "send"} /\ (p = "send" => n # 0)
        /\ k \in BOOLEAN /\ (cb.kept => k) /\ (~k => cb.own.missed = {})
    BY SMTT(30)
  <2> HIDE DEF p, k
  <2>6. Local(c)
    <3>1. [cb EXCEPT !.at = p, !.job = CurrentGoal, !.kept = k, !.own.poses = n, !.own.index = 0,
                     !.own.first = 0, !.own.fresh = TRUE, !.own.reached = {}] = c
      BY <1>i, <1>t, ZenonT(40) DEF Callbacks, FollowerOwn
    <3> HIDE DEF c
    <3> QED BY ONLY <2>2, <3>1, SMTT(30) DEF p, k
  <2>7. /\ w \in FollowerOwn /\ w.poses = n /\ w.index = 0 /\ w.first = 0 /\ w.late = cb.own.late
        /\ w.missed = cb.own.missed
    BY <1>t, <2>3, Zenon DEF FollowerOwn
  <2> HIDE DEF w
  <2>8. /\ o \in FollowerOwn /\ o.poses = n /\ o.index = 0 /\ o.first = 0 /\ o.late = cb.own.late
        /\ o.missed = cb.own.missed /\ o.reached = {}
    BY <2>7, Zenon DEF FollowerOwn
  <2> HIDE DEF o
  <2>9. /\ d \in C /\ d.at = p /\ d.job = current /\ d.velocity = cb.velocity /\ d.own = cb.own
    BY <1>i, <1>p, <1>g, <2>4, Zenon DEF Callbacks
  <2> HIDE DEF d
  <2>10. /\ c \in C /\ c.at = p /\ c.job = current /\ c.velocity = cb.velocity /\ c.kept = k
         /\ c.own = o
    BY <2>4, <2>8, <2>9, Zenon DEF Callbacks
  <2> HIDE DEF c
  <2>11. (p = "send" => 0 < n) /\ 0 <= 0 /\ {} = 0 .. 0 - 1
    BY <2>3, <2>4, WaypointsAssumption
  <2>12. FollowerAt(c)
    BY <1>i, <2>3, <2>4, <2>8, <2>10, <2>11, ZenonT(40)
       DEF FollowerInv, FollowerAt, FollowerCounts, FollowerLoops, FollowerStarts
  <2> QED BY <2>1, <2>4, <2>6, <2>10, <2>12, FollowerGoesOn, SMTT(30)
<1>5. CASE FollowerSend
  <2>1. cb.at = "send"
    BY <1>5, SMTT(30) DEF FollowerSend, Here
  <2>2. CASE ~cb.own.fresh
    <3>1. Local(Goto("status"))
      BY <1>5, <2>2, SMTT(30) DEF FollowerSend
    <3> QED BY <2>1, <3>1, FollowerGoto, SMTT(30) DEF FollowerLoops
  <2>3. CASE cb.own.fresh
    <3> DEFINE l == Superseded
               w == [cb.own EXCEPT !.fresh = FALSE, !.late = l]
               o == [w EXCEPT !.sent = "waiting", !.open = FALSE, !.status = "PROCESSING"]
               c == [cb EXCEPT !.at = "status", !.own = o]
    <3>1. l.responses + l.results <= MaxLate
      BY <1>5, <2>3, SMTT(30) DEF FollowerSend
    <3>2. l \in [responses : Nat, results : Nat]
      BY <1>t, WaypointsAssumption DEF Superseded
    <3>3. ASSUME NEW x
          PROVE  [cb EXCEPT !.at = "status", !.own.fresh = FALSE, !.own.late = x,
                            !.own.sent = "waiting", !.own.open = FALSE, !.own.status = "PROCESSING"]
                 = [cb EXCEPT !.at = "status",
                              !.own = [[cb.own EXCEPT !.fresh = FALSE, !.late = x] EXCEPT
                                        !.sent = "waiting", !.open = FALSE, !.status = "PROCESSING"]]
      BY <1>i, <1>t, ZenonT(40) DEF Callbacks, FollowerOwn
    <3>4. Local(c)
      BY <1>5, <2>3, <3>3, Zenon DEF FollowerSend
    <3> HIDE DEF l
    <3>5. l \in [responses : 0..MaxLate, results : 0..MaxLate]
      BY <3>1, <3>2, WaypointsAssumption, SMTT(30)
    <3>6. /\ w \in FollowerOwn /\ w.late = l /\ w.poses = cb.own.poses /\ w.index = cb.own.index
          /\ w.missed = cb.own.missed /\ w.reached = cb.own.reached /\ w.first = cb.own.first
      BY <1>t, <3>5, Zenon DEF FollowerOwn
    <3> HIDE DEF w
    <3>7. /\ o \in FollowerOwn /\ o.late = l /\ o.poses = cb.own.poses /\ o.index = cb.own.index
          /\ o.missed = cb.own.missed /\ o.reached = cb.own.reached /\ o.first = cb.own.first
      BY <3>6, Zenon DEF FollowerOwn, SentStates
    <3> HIDE DEF o
    <3>8. /\ c \in C /\ c.at = "status" /\ c.job = cb.job /\ c.velocity = cb.velocity
          /\ c.kept = cb.kept /\ c.own = o
      BY <1>i, <1>p, <3>7, Zenon DEF Callbacks
    <3> HIDE DEF c
    <3>9. FollowerAt(c)
      BY <1>i, <2>1, <3>1, <3>7, <3>8, ZenonT(40)
         DEF FollowerInv, FollowerAt, FollowerCounts, FollowerLoops, FollowerStarts
    <3> QED BY <2>1, <3>4, <3>8, <3>9, FollowerGoesOn, ZenonT(40)
  <2> QED BY <2>2, <2>3
<1> QED BY <1>1, <1>2, <1>3, <1>4, <1>5, SMTT(30)

\* The loop: a waypoint was reached or missed.
LEMMA FollowerCountsOn ==
  ASSUME NavInv, server \in Followers,
         FollowerStatus \/ FollowerStop \/ FollowerAdvance \/ FollowerSucceed
  PROVE  Goes /\ FollowerInv'
<1> DEFINE C == Callbacks(FollowerPlaces, FollowerOwn)
<1>i. FollowerInv /\ IInv /\ cb \in C
  BY SMTT(30) DEF NavInv, ServerInv, FollowerInv
<1>p. /\ "stop" \in FollowerPlaces /\ "advance" \in FollowerPlaces /\ "spin" \in FollowerPlaces
      /\ "return" \in FollowerPlaces /\ "succeed" \in FollowerPlaces
  BY SMTT(30) DEF FollowerPlaces, FollowerStarts, FollowerCounts, FollowerLoops
<1>t. /\ cb.own \in FollowerOwn /\ cb.job \in Goals \cup {None} /\ cb.kept \in BOOLEAN
      /\ 0 \in 0..Waypoints /\ cb.own.poses \in 0..Waypoints /\ cb.own.index \in 0..Waypoints
      /\ cb.own.first \in 0..Waypoints
      /\ cb.own.loop \in 0..MaxLoops /\ cb.own.missed \subseteq Goals
      /\ cb.own.reached \subseteq 0..Waypoints
  BY <1>i, FollowerTypes, SMTT(30)
<1>1. CASE FollowerStatus
  <2>1. cb.at = "status" /\ cb.at \in FollowerLoops
    BY <1>1, SMTT(30) DEF FollowerStatus, Here, FollowerLoops
  <2>0. /\ cb.job \in Goals /\ cb.own.index < cb.own.poses /\ cb.own.first <= cb.own.index
        /\ cb.own.missed \subseteq {cb.job} \/ cb.kept
        /\ cb.own.missed = {} => cb.own.reached = cb.own.first .. cb.own.index - 1
    BY <1>i, <1>t, <2>1, ZenonT(40) DEF FollowerInv, FollowerAt, FollowerCounts
  <2>2. CASE Local(Goto("spin"))
    BY <2>1, <2>2, FollowerGoto, SMTT(30) DEF FollowerLoops
  <2>3. ASSUME NEW p \in {"stop", "advance"}, Local([Missed EXCEPT !.at = p])
        PROVE  Goes /\ FollowerInv'
    <3> DEFINE m == cb.own.missed \cup {cb.job}
               d == [cb EXCEPT !.own.missed = m, !.own.reached = {}]
               c == [d EXCEPT !.at = p]
    <3>1. Missed = d
      BY <1>i, <1>t, SMTT(30) DEF Missed, Callbacks, FollowerOwn
    <3>2. m \in SUBSET Goals /\ m # {} /\ (m \subseteq {cb.job} \/ cb.kept)
      BY <1>t, <2>0, SMTT(30)
    <3> HIDE DEF m
    <3>3. /\ d \in C /\ d.job = cb.job /\ d.velocity = cb.velocity /\ d.kept = cb.kept
          /\ d.own.missed = m /\ d.own.index = cb.own.index /\ d.own.poses = cb.own.poses
          /\ d.own.late = cb.own.late /\ d.own.first = cb.own.first
      BY <1>i, <1>t, <3>2, ZenonT(40) DEF Callbacks, FollowerOwn
    <3>4. Local(c)
      BY <2>3, <3>1
    <3> HIDE DEF d
    <3>5. /\ c \in C /\ c.at = p /\ c.job = d.job /\ c.velocity = d.velocity /\ c.kept = d.kept
          /\ c.own = d.own
      BY <1>p, <2>3, <3>3, SMTT(30) DEF Callbacks
    <3> HIDE DEF c
    <3>6. FollowerAt(c)
      BY <1>i, <2>0, <2>1, <2>3, <3>2, <3>3, <3>5, SMTT(30)
         DEF FollowerInv, FollowerAt, FollowerCounts, FollowerLoops, FollowerStarts
    <3> QED BY <2>1, <2>3, <3>3, <3>4, <3>5, <3>6, FollowerGoesOn, SMTT(30)
  <2>4. CASE Local([Reached EXCEPT !.at = "advance"])
    <3> DEFINE d == Reached
               c == [d EXCEPT !.at = "advance"]
    <3>1. /\ d \in C /\ d.job = cb.job /\ d.velocity = cb.velocity /\ d.kept = cb.kept
          /\ d.own.missed = cb.own.missed /\ d.own.index = cb.own.index
          /\ d.own.poses = cb.own.poses /\ d.own.late = cb.own.late /\ d.own.first = cb.own.first
          /\ cb.own.missed = {} => d.own.reached = cb.own.reached \cup {cb.own.index}
      <4>1. CASE cb.own.missed = {}
        <5> DEFINE r == cb.own.reached \cup {cb.own.index}
        <5>1. r \in SUBSET (0..Waypoints)
          BY <1>t
        <5>2. d = [cb EXCEPT !.own.reached = r]
          BY <1>i, <1>t, <4>1, SMTT(30) DEF Reached, Callbacks, FollowerOwn
        <5> HIDE DEF r, d
        <5>3. /\ d \in C /\ d.job = cb.job /\ d.velocity = cb.velocity /\ d.kept = cb.kept
              /\ d.own.missed = cb.own.missed /\ d.own.index = cb.own.index
              /\ d.own.poses = cb.own.poses /\ d.own.late = cb.own.late /\ d.own.first = cb.own.first
              /\ d.own.reached = r
          BY <1>i, <1>t, <5>1, <5>2, SMTT(30) DEF Callbacks, FollowerOwn
        <5> QED BY <5>3, ZenonT(40) DEF r
      <4>2. CASE cb.own.missed # {}
        BY <1>i, <4>2 DEF Reached
      <4> QED BY <4>1, <4>2, ZenonT(40)
    <3>2. Local(c)
      BY <2>4
    <3> HIDE DEF d
    <3>3. /\ c \in C /\ c.at = "advance" /\ c.job = d.job /\ c.velocity = d.velocity
          /\ c.kept = d.kept /\ c.own = d.own
      BY <1>p, <3>1, SMTT(30) DEF Callbacks
    <3> HIDE DEF c
    <3>4. (cb.own.first .. cb.own.index - 1) \cup {cb.own.index} = cb.own.first .. cb.own.index
      BY <1>t, <2>0, WaypointsAssumption, SMTT(30)
    <3>5. FollowerAt(c)
      BY <1>i, <2>0, <2>1, <3>1, <3>3, <3>4, ZenonT(40)
         DEF FollowerInv, FollowerAt, FollowerCounts, FollowerLoops, FollowerStarts
    <3> QED BY <2>1, <3>1, <3>2, <3>3, <3>5, FollowerGoesOn, ZenonT(40)
  <2> QED BY <1>1, <2>2, <2>3, <2>4, SMTT(30) DEF FollowerStatus
<1>2. CASE FollowerStop
  <2>1. cb.at = "stop" /\ TerminateCurrent(Answer("error")) /\ Called(Goto("return"))
    BY <1>2, SMTT(30) DEF FollowerStop, EndCurrent, Here
  <2>2. Answer("error") \in Results
    BY <1>t, AnswerIs, SMTT(30) DEF AnswerKinds
  <2>3. Goes /\ current' = None /\ UNCHANGED lifeVars /\ cb' \in C /\ Moved(cb', "return")
    BY <1>i, <1>p, <2>1, <2>2, EndReturns, SMTT(30)
  <2> QED BY <1>i, <2>1, <2>3, Zenon
          DEF FollowerInv, FollowerAt, FollowerCounts, FollowerLoops, FollowerStarts, lifeVars,
              Moved, Undisturbed
<1>3. CASE FollowerAdvance
  <2>1. cb.at = "advance"
    BY <1>3, SMTT(30) DEF FollowerAdvance, Here
  <2>0. /\ cb.job \in Goals /\ cb.own.index < cb.own.poses /\ current \in {None, cb.job}
        /\ cb.own.first <= cb.own.index
        /\ cb.own.missed \subseteq {cb.job} \/ cb.kept
        /\ cb.own.missed = {} => cb.own.reached = cb.own.first .. cb.own.index
    BY <1>i, <1>t, <2>1, ZenonT(40) DEF FollowerInv, FollowerAt, FollowerCounts
  <2> DEFINE i == cb.own.index + 1
  <2>2. CASE i < cb.own.poses
    <3> DEFINE c == [cb EXCEPT !.at = "spin", !.own.fresh = TRUE, !.own.index = i]
    <3>1. Local(c)
      BY <1>3, <2>2, SMTT(30) DEF FollowerAdvance
    <3>2. i \in 0..Waypoints /\ i - 1 = cb.own.index /\ cb.own.first <= i
      BY <1>t, <2>0, <2>2, WaypointsAssumption, SMTT(30)
    <3> HIDE DEF i
    <3>3. /\ c \in C /\ c.at = "spin" /\ c.job = cb.job /\ c.velocity = cb.velocity
          /\ c.kept = cb.kept /\ c.own.index = i /\ c.own.poses = cb.own.poses
          /\ c.own.missed = cb.own.missed /\ c.own.reached = cb.own.reached
          /\ c.own.late = cb.own.late /\ c.own.first = cb.own.first
      BY <1>i, <1>p, <1>t, <3>2, ZenonT(40) DEF Callbacks, FollowerOwn
    <3> HIDE DEF c
    <3>4. FollowerAt(c)
      BY <1>i, <2>0, <2>1, <2>2, <3>2, <3>3, Zenon
         DEF FollowerInv, FollowerAt, FollowerCounts, FollowerLoops, FollowerStarts
    <3> QED BY <2>1, <3>1, <3>3, <3>4, FollowerGoesOn, ZenonT(40)
  <2>3. CASE ~(i < cb.own.poses) /\ cb.own.loop = MaxLoops
    <3> DEFINE c == Goto("succeed")
    <3>1. Local(c)
      BY <1>3, <2>3, SMTT(30) DEF FollowerAdvance
    <3>2. c \in C /\ Moved(c, "succeed")
      BY <1>i, <1>p, GotoIs, SMTT(30)
    <3>3. cb.own.index = cb.own.poses - 1
      BY <1>t, <2>0, <2>3, WaypointsAssumption, SMTT(30)
    <3> HIDE DEF c
    <3>4. FollowerAt(c)
      BY <1>i, <2>0, <2>1, <3>2, <3>3, ZenonT(40)
         DEF FollowerInv, FollowerAt, FollowerCounts, FollowerLoops, FollowerStarts, Moved
    <3> QED BY <2>1, <3>1, <3>2, <3>4, FollowerGoesOn, ZenonT(40) DEF Moved
  <2>4. CASE ~(i < cb.own.poses) /\ cb.own.loop # MaxLoops
    <3> DEFINE n == cb.own.loop + 1
               w == [cb.own EXCEPT !.fresh = TRUE, !.index = 0, !.first = 0]
               o == [w EXCEPT !.reached = {}, !.loop = n]
               c == [cb EXCEPT !.at = "spin", !.own = o]
    <3>1. Local([cb EXCEPT !.at = "spin", !.own.fresh = TRUE, !.own.index = 0,
                           !.own.first = 0, !.own.reached = {}, !.own.loop = @ + 1])
      BY <1>3, <2>4, SMTT(30) DEF FollowerAdvance
    <3>2. [cb EXCEPT !.at = "spin", !.own.fresh = TRUE, !.own.index = 0,
                     !.own.first = 0, !.own.reached = {}, !.own.loop = @ + 1] = c
      BY <1>i, <1>t, Zenon DEF Callbacks, FollowerOwn
    <3>a. n \in 0..MaxLoops
      BY <1>t, <2>0, <2>4, WaypointsAssumption, SMTT(30)
    <3>b. 0 < cb.own.poses
      BY <1>t, <2>0, SMTT(30)
    <3>c. 0 <= 0 /\ {} = 0 .. 0 - 1
      BY ONLY SMTT(30)
    <3>3. n \in 0..MaxLoops /\ 0 < cb.own.poses /\ 0 <= 0 /\ {} = 0 .. 0 - 1
      BY ONLY <3>a, <3>b, <3>c, Zenon
    <3> HIDE DEF n
    <3>4. /\ w \in FollowerOwn /\ w.index = 0 /\ w.first = 0 /\ w.poses = cb.own.poses
          /\ w.missed = cb.own.missed /\ w.late = cb.own.late
      BY <1>t, Zenon DEF FollowerOwn
    <3>5. Local(c)
      BY <3>1, <3>2
    <3> HIDE DEF w
    <3>6. /\ o \in FollowerOwn /\ o.index = 0 /\ o.first = 0 /\ o.poses = cb.own.poses /\ o.reached = {}
          /\ o.missed = cb.own.missed /\ o.late = cb.own.late
      BY <3>3, <3>4, ZenonT(40) DEF FollowerOwn
    <3> HIDE DEF o
    <3>7. /\ c \in C /\ c.at = "spin" /\ c.job = cb.job /\ c.velocity = cb.velocity
          /\ c.kept = cb.kept /\ c.own = o
      BY <1>i, <1>p, <3>6, Zenon DEF Callbacks
    <3> HIDE DEF c
    <3>8. FollowerAt(c)
      BY <1>i, <2>0, <2>1, <3>3, <3>6, <3>7, ZenonT(40)
         DEF FollowerInv, FollowerAt, FollowerCounts, FollowerLoops, FollowerStarts
    <3> QED BY <2>1, <3>5, <3>7, <3>8, FollowerGoesOn, ZenonT(40)
  <2> QED BY <2>2, <2>3, <2>4, SMTT(30)
<1>4. CASE FollowerSucceed
  <2> DEFINE k == IF cb.own.missed # {} THEN "missed"
                  ELSE IF cb.own.reached = cb.own.first..cb.own.poses - 1 THEN "done" ELSE "short"
             f == ({cb.job} \cup cb.own.missed) \ {None}
             r == [kind |-> k, for |-> f]
  <2>1. cb.at = "succeed" /\ SucceededCurrent(r) /\ Called(Goto("return"))
    BY <1>4, ZenonT(40) DEF FollowerSucceed, EndSucceeded, Here
  <2>2. /\ current \in {None, cb.job} /\ (cb.own.missed \subseteq {cb.job} \/ cb.kept)
        /\ (cb.own.missed = {} => cb.own.reached = cb.own.first..cb.own.poses - 1)
    BY <1>i, <2>1, ZenonT(40) DEF FollowerInv, FollowerAt, FollowerCounts
  <2>3. k \in {"missed", "done"} /\ f \in SUBSET Goals /\ (f \subseteq {cb.job} \/ cb.kept)
    BY <1>t, <2>2, ZenonT(40)
  <2> HIDE DEF k, f
  <2>4. r \in Results /\ r.kind # "short" /\ r.for = f
    BY <2>3, NavResultsAssumption, SMTT(30) DEF NavResults, AnswerKinds
  <2> HIDE DEF r
  <2>5. current = None \/ r.for \subseteq {current} \/ (cb.kept /\ server \in KeepsData)
    BY <2>2, <2>3, <2>4, ZenonT(40) DEF KeepsData
  <2>6. Goes /\ current' = None /\ UNCHANGED lifeVars /\ cb' \in C /\ Moved(cb', "return")
    BY <1>i, <1>p, <2>1, <2>4, <2>5, SucceedReturns, SMTT(30)
  <2> QED BY <1>i, <2>1, <2>6, ZenonT(40)
          DEF FollowerInv, FollowerAt, FollowerCounts, FollowerLoops, FollowerStarts, lifeVars,
              Moved, Undisturbed
<1> QED BY <1>1, <1>2, <1>3, <1>4, SMTT(30)

\* A response or a result arrives: c differs from cb in what is outstanding.
LEMMA FollowerHears ==
  ASSUME NavInv, server \in Followers, cb.at \in {"spin", "cancelled"},
         NEW c \in Callbacks(FollowerPlaces, FollowerOwn), Local(c),
         c.at = cb.at, c.job = cb.job, c.kept = cb.kept, c.velocity = cb.velocity,
         c.own.index = cb.own.index, c.own.first = cb.own.first, c.own.poses = cb.own.poses, c.own.missed = cb.own.missed,
         c.own.reached = cb.own.reached, c.own.late.responses + c.own.late.results <= MaxLate
  PROVE  Goes /\ FollowerInv'
<1>1. FollowerInv
  BY ZenonT(40) DEF NavInv, ServerInv
<1>2. FollowerAt(c)
  BY <1>1, Zenon DEF FollowerInv, FollowerAt, FollowerCounts, FollowerLoops, FollowerStarts
<1> QED BY <1>2, FollowerGoesOn, ZenonT(40)

\* The events the follower's own executor takes.
LEMMA FollowerEvents ==
  ASSUME NavInv, server \in Followers, GoalResponseCallback \/ ResultCallback \/ LateResultCallback
  PROVE  Goes /\ FollowerInv'
<1> DEFINE C == Callbacks(FollowerPlaces, FollowerOwn)
<1>i. FollowerInv /\ cb \in C
  BY SMTT(30) DEF NavInv, ServerInv, FollowerInv
<1>l. /\ cb.own.late.responses + cb.own.late.results <= MaxLate /\ cb.velocity = "zero"
  BY <1>i, ZenonT(40) DEF FollowerInv, FollowerAt
<1>t. /\ cb.own \in FollowerOwn /\ cb.own.late \in [responses : 0..MaxLate, results : 0..MaxLate]
      /\ cb.own.late.responses \in 0..MaxLate /\ cb.own.late.results \in 0..MaxLate
  BY <1>i, FollowerTypes, ZenonT(40)
<1>s. cb.at \in {"spin", "cancelled"}
  BY Zenon DEF GoalResponseCallback, ResultCallback, LateResultCallback, Spinning
<1>a. ASSUME NEW o \in FollowerOwn, Local([cb EXCEPT !.own = o]), o.index = cb.own.index,
             o.first = cb.own.first, o.poses = cb.own.poses, o.missed = cb.own.missed, o.reached = cb.own.reached,
             o.late.responses + o.late.results <= MaxLate
      PROVE  Goes /\ FollowerInv'
  <2> DEFINE c == [cb EXCEPT !.own = o]
  <2>1. /\ c \in C /\ c.at = cb.at /\ c.job = cb.job /\ c.kept = cb.kept
        /\ c.velocity = cb.velocity /\ c.own = o
    BY <1>i DEF Callbacks
  <2> HIDE DEF c
  <2> QED BY <1>a, <1>s, <2>1, FollowerHears, Zenon DEF c
<1>b. ASSUME NEW l \in [responses : 0..MaxLate, results : 0..MaxLate],
             NEW s \in {"PROCESSING", "SUCCEEDED", "FAILED"}, l.responses + l.results <= MaxLate,
             Local([cb EXCEPT !.own.late = l, !.own.status = s])
      PROVE  Goes /\ FollowerInv'
  <2> DEFINE o == [cb.own EXCEPT !.late = l, !.status = s]
  <2>1. /\ o \in FollowerOwn /\ o.index = cb.own.index /\ o.first = cb.own.first /\ o.late = l
        /\ o.poses = cb.own.poses /\ o.missed = cb.own.missed /\ o.reached = cb.own.reached
    BY <1>t, Zenon DEF FollowerOwn
  <2>2. [cb EXCEPT !.own.late = l, !.own.status = s] = [cb EXCEPT !.own = o]
    BY <1>i, <1>t, ZenonT(40) DEF Callbacks, FollowerOwn
  <2> HIDE DEF o
  <2> QED BY <1>a, <1>b, <2>1, <2>2
<1>1. CASE cb.own.sent = "waiting" /\ Local([cb EXCEPT !.own.sent = "accepted", !.own.open = TRUE])
  <2> DEFINE o == [cb.own EXCEPT !.sent = "accepted", !.open = TRUE]
  <2>1. /\ o \in FollowerOwn /\ o.index = cb.own.index /\ o.first = cb.own.first /\ o.late = cb.own.late
        /\ o.poses = cb.own.poses /\ o.missed = cb.own.missed /\ o.reached = cb.own.reached
    BY <1>t, Zenon DEF FollowerOwn, SentStates
  <2>2. [cb EXCEPT !.own.sent = "accepted", !.own.open = TRUE] = [cb EXCEPT !.own = o]
    BY <1>i, <1>t, ZenonT(40) DEF Callbacks, FollowerOwn
  <2> HIDE DEF o
  <2> QED BY <1>a, <1>l, <1>1, <2>1, <2>2
<1>2. CASE Local([cb EXCEPT !.own.sent = "rejected", !.own.status = "FAILED"])
  <2> DEFINE o == [cb.own EXCEPT !.sent = "rejected", !.status = "FAILED"]
  <2>1. /\ o \in FollowerOwn /\ o.index = cb.own.index /\ o.first = cb.own.first /\ o.late = cb.own.late
        /\ o.poses = cb.own.poses /\ o.missed = cb.own.missed /\ o.reached = cb.own.reached
    BY <1>t, Zenon DEF FollowerOwn, SentStates
  <2>2. [cb EXCEPT !.own.sent = "rejected", !.own.status = "FAILED"] = [cb EXCEPT !.own = o]
    BY <1>i, <1>t, Zenon DEF Callbacks, FollowerOwn
  <2> HIDE DEF o
  <2> QED BY <1>a, <1>l, <1>2, <2>1, <2>2, SMTT(30)
<1>3. CASE /\ cb.own.late.responses > 0
           /\ Local([cb EXCEPT !.own.late.responses = @ - 1, !.own.late.results = @ + 1])
  <2> DEFINE x == cb.own.late.responses - 1
             y == cb.own.late.results + 1
             l == [cb.own.late EXCEPT !.responses = x, !.results = y]
             o == [cb.own EXCEPT !.late = l]
  <2>1. x \in 0..MaxLate /\ y \in 0..MaxLate /\ x + y <= MaxLate
    BY <1>l, <1>t, <1>3, WaypointsAssumption, SMTT(30)
  <2>2. [cb EXCEPT !.own.late.responses = @ - 1, !.own.late.results = @ + 1]
          = [cb EXCEPT !.own = o]
    BY <1>i, <1>t, ZenonT(40) DEF Callbacks, FollowerOwn
  <2> HIDE DEF x, y
  <2>3. /\ l \in [responses : 0..MaxLate, results : 0..MaxLate]
        /\ l.responses = x /\ l.results = y
    BY <1>t, <2>1, Zenon
  <2> HIDE DEF l
  <2>4. /\ o \in FollowerOwn /\ o.index = cb.own.index /\ o.first = cb.own.first /\ o.late = l
        /\ o.poses = cb.own.poses /\ o.missed = cb.own.missed /\ o.reached = cb.own.reached
    BY <1>t, <2>3, SMTT(30) DEF FollowerOwn
  <2> HIDE DEF o
  <2> QED BY <1>a, <1>3, <2>1, <2>2, <2>3, <2>4, SMTT(30)
<1>4. CASE /\ cb.own.late.responses > 0
           /\ Local([cb EXCEPT !.own.late.responses = @ - 1, !.own.status = "FAILED"])
  <2> DEFINE x == cb.own.late.responses - 1
             l == [cb.own.late EXCEPT !.responses = x]
  <2>1. x \in 0..MaxLate /\ x + cb.own.late.results <= MaxLate
    BY <1>l, <1>t, <1>4, WaypointsAssumption, SMTT(30)
  <2>2. [cb EXCEPT !.own.late.responses = @ - 1, !.own.status = "FAILED"]
          = [cb EXCEPT !.own.late = l, !.own.status = "FAILED"]
    BY <1>i, <1>t DEF Callbacks, FollowerOwn
  <2> HIDE DEF x
  <2>3. /\ l \in [responses : 0..MaxLate, results : 0..MaxLate]
        /\ l.responses = x /\ l.results = cb.own.late.results
    BY <1>t, <2>1
  <2> HIDE DEF l
  <2> QED BY <1>b, <1>4, <2>1, <2>2, <2>3, ZenonT(40)
<1>5. CASE ResultCallback
  <2>1. PICK ok \in BOOLEAN : Local([cb EXCEPT !.own.open = FALSE, !.own.status = Outcome(ok)])
    BY <1>5, Zenon DEF ResultCallback
  <2> DEFINE s == Outcome(ok)
             o == [cb.own EXCEPT !.open = FALSE, !.status = s]
  <2>2. s \in {"SUCCEEDED", "FAILED"}
    BY DEF Outcome
  <2> HIDE DEF s
  <2>3. /\ o \in FollowerOwn /\ o.index = cb.own.index /\ o.first = cb.own.first /\ o.late = cb.own.late
        /\ o.poses = cb.own.poses /\ o.missed = cb.own.missed /\ o.reached = cb.own.reached
    BY <1>t, <2>2, Zenon DEF FollowerOwn
  <2>4. [cb EXCEPT !.own.open = FALSE, !.own.status = s] = [cb EXCEPT !.own = o]
    BY <1>i, <1>t, ZenonT(40) DEF Callbacks, FollowerOwn
  <2>5. Local([cb EXCEPT !.own = o])
    BY <2>1, <2>4 DEF s
  <2> HIDE DEF o
  <2> QED BY <1>a, <1>l, <2>3, <2>5, SMTT(30)
<1>6. CASE LateResultCallback
  <2>1. CASE cb.own.sent \in {"waiting", "rejected"}
    <3>1. PICK p \in {"stuck", "crashed"} :
            Local(Goto(p)) /\ (p = "crashed" => cb.own.sent = "rejected")
      BY <1>6, <2>1, SMTT(30) DEF LateResultCallback
    <3> DEFINE c == Goto(p)
    <3>2. c \in C /\ Moved(c, p)
      BY <1>i, <3>1, GotoIs, SMTT(30) DEF FollowerPlaces
    <3> HIDE DEF c
    <3>3. FollowerAt(c)
      BY <1>l, <3>1, <3>2, Zenon DEF FollowerAt, Moved, FollowerCounts, FollowerLoops, FollowerStarts
    <3> QED BY <1>s, <3>1, <3>2, <3>3, FollowerGoesOn, ZenonT(40) DEF Moved, c
  <2>2. CASE cb.own.sent \notin {"waiting", "rejected"}
    <3>1. cb.own.late.results > 0 /\ Local([cb EXCEPT !.own.late.results = @ - 1])
      BY <1>6, <2>2, SMTT(30) DEF LateResultCallback
    <3> DEFINE x == cb.own.late.results - 1
               l == [cb.own.late EXCEPT !.results = x]
               o == [cb.own EXCEPT !.late = l]
    <3>2. x \in 0..MaxLate /\ cb.own.late.responses + x <= MaxLate
      BY <1>l, <1>t, <3>1, WaypointsAssumption, SMTT(30)
    <3>3. [cb EXCEPT !.own.late.results = @ - 1] = [cb EXCEPT !.own = o]
      BY <1>i, <1>t DEF Callbacks, FollowerOwn
    <3> HIDE DEF x
    <3>4. /\ l \in [responses : 0..MaxLate, results : 0..MaxLate]
          /\ l.responses = cb.own.late.responses /\ l.results = x
      BY <1>t, <3>2
    <3> HIDE DEF l
    <3>5. /\ o \in FollowerOwn /\ o.index = cb.own.index /\ o.first = cb.own.first /\ o.late = l
          /\ o.poses = cb.own.poses /\ o.missed = cb.own.missed /\ o.reached = cb.own.reached
      BY <1>t, <3>4, SMTT(30) DEF FollowerOwn
    <3> HIDE DEF o
    <3> QED BY <1>a, <3>1, <3>2, <3>3, <3>4, <3>5, SMTT(30)
  <2> QED BY <2>1, <2>2, SMTT(30)
<1> QED BY <1>1, <1>2, <1>3, <1>4, <1>5, <1>6, SMTT(30) DEF GoalResponseCallback

\* Every step of followWaypointsHandler.
LEMMA FollowerStep ==
  ASSUME NavInv, server \in Followers, FollowerNext
  PROVE  Goes /\ FollowerInv'
BY FollowerBegins, FollowerTakes, FollowerCountsOn, FollowerEvents, SMTT(30) DEF FollowerNext
=============================================================================
