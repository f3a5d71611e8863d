------------------------- MODULE SimpleActionServer -------------------------
(***************************************************************************)
(* nav2_util::SimpleActionServer, the action server of every navbim node   *)
(* (room planner, GPP-BIM server, BT navigators).  It owns two goal        *)
(* handles, current_handle_ and pending_handle_, and one worker thread     *)
(* (std::async) that runs the execute callback of the node.  Three threads *)
(* meet here: the executor thread (goal, cancel and accepted handlers; it  *)
(* is the server's own thread, spin_thread = true), the worker thread, and *)
(* the lifecycle thread (activate, deactivate).  An action is one critical *)
(* section of update_mutex_, or one unlocked read of the worker loop.      *)
(*                                                                         *)
(* The execute callback is left open: it may call the public operations of *)
(* the server in any order.  RoomPlannerServer fills it in.                *)
(***************************************************************************)
EXTENDS Naturals

CONSTANTS
  Goals,            \* goal requests (rclcpp_action goal UUIDs)
  Results,          \* results a callback can attach to a handle
  EmptyResult,      \* empty_result()
  None,             \* a null handle
  MaxDeactivations  \* bound on the number of deactivate() calls

ASSUME EmptyResultAssumption == EmptyResult \in Results
ASSUME NoneAssumption == None \notin Goals
ASSUME BoundAssumption == MaxDeactivations \in Nat

VARIABLES
  handle,             \* state of the ServerGoalHandle of each goal
  result,             \* result each terminal handle was given
  accepting,          \* goal between handle_goal and handle_accepted
  current,            \* current_handle_
  pending,            \* pending_handle_
  preempt_requested,  \* preempt_requested_
  server_active,      \* server_active_
  stop_execution,     \* stop_execution_
  worker,             \* where the thread behind execution_future_ is
  lifecycle,          \* what the lifecycle thread is doing
  deactivations       \* deactivate() calls so far

handleVars == <<handle, result>>
slotVars   == <<current, pending, preempt_requested>>
lifeVars   == <<server_active, stop_execution, lifecycle, deactivations>>
serverVars == <<handle, result, accepting, current, pending, preempt_requested,
                server_active, stop_execution, worker, lifecycle, deactivations>>

ActiveStates   == {"executing", "canceling"}
TerminalStates == {"succeeded", "canceled", "aborted", "rejected"}
HandleStates   == {"unsent", "requested"} \cup ActiveStates \cup TerminalStates
WorkerStates   == {"ready", "test", "callback", "returned", "exit"}

Init ==
  /\ handle = [g \in Goals |-> "unsent"]
  /\ result = [g \in Goals |-> EmptyResult]
  /\ accepting = None
  /\ current = None /\ pending = None /\ preempt_requested = FALSE
  /\ server_active = FALSE /\ stop_execution = FALSE
  /\ worker = "ready"
  /\ lifecycle = "inactive" /\ deactivations = 0

-----------------------------------------------------------------------------
(* Handles *)

is_active(g) == g # None /\ handle[g] \in ActiveStates

\* terminate(handle, r) on every active handle of the set S
Terminate(S, r) ==
  /\ handle' = [g \in Goals |->
       IF g \in S /\ is_active(g)
       THEN IF handle[g] = "canceling" THEN "canceled" ELSE "aborted"
       ELSE handle[g]]
  /\ result' = [g \in Goals |-> IF g \in S /\ is_active(g) THEN r ELSE result[g]]

\* a handle after terminate(): reset when it was active
AfterTerminate(g) == IF is_active(g) THEN None ELSE g

is_running == worker # "ready"

is_cancel_requested ==
  /\ current # None
  /\ handle[IF pending # None THEN pending ELSE current] = "canceling"

-----------------------------------------------------------------------------
(* Operations of the server that the execute callback and others call *)

\* Mistake: the preemption flag is left set.
TerminateAllKeepsFlag(r) ==
  /\ Terminate({current, pending}, r)
  /\ current' = AfterTerminate(current)
  /\ pending' = AfterTerminate(pending)
  /\ UNCHANGED preempt_requested

TerminateAll(r) ==
  /\ Terminate({current, pending}, r)
  /\ current' = AfterTerminate(current)
  /\ pending' = AfterTerminate(pending)
  /\ preempt_requested' = FALSE

TerminateCurrent(r) ==
  /\ Terminate({current}, r)
  /\ current' = AfterTerminate(current)
  /\ UNCHANGED <<pending, preempt_requested>>

TerminatePendingGoal ==
  /\ is_active(pending)
  /\ Terminate({pending}, EmptyResult)
  /\ pending' = None
  /\ preempt_requested' = FALSE
  /\ UNCHANGED current

SucceededCurrent(r) ==
  IF is_active(current)
  THEN /\ handle' = [handle EXCEPT ![current] = "succeeded"]
       /\ result' = [result EXCEPT ![current] = r]
       /\ current' = None
       /\ UNCHANGED <<pending, preempt_requested>>
  ELSE UNCHANGED <<handleVars, slotVars>>

AcceptPendingGoal ==
  IF is_active(pending)
  THEN /\ handle' = IF is_active(current) /\ current # pending
                    THEN [handle EXCEPT ![current] = "aborted"] ELSE handle
       /\ result' = IF is_active(current) /\ current # pending
                    THEN [result EXCEPT ![current] = EmptyResult] ELSE result
       /\ current' = pending
       /\ pending' = None
       /\ preempt_requested' = FALSE
  ELSE UNCHANGED <<handleVars, slotVars>>

-----------------------------------------------------------------------------
(* Executor thread *)

\* A client's goal request reaches the action server.
SendGoal(g) ==
  /\ handle[g] = "unsent"
  /\ handle' = [handle EXCEPT ![g] = "requested"]
  /\ UNCHANGED <<result, accepting, slotVars, worker, lifeVars>>

HandleGoal(g) ==
  /\ accepting = None
  /\ handle[g] = "requested"
  /\ IF server_active
     THEN /\ handle' = [handle EXCEPT ![g] = "executing"]
          /\ accepting' = g
     ELSE /\ handle' = [handle EXCEPT ![g] = "rejected"]
          /\ UNCHANGED accepting
  /\ UNCHANGED <<result, slotVars, worker, lifeVars>>

\* Mistake: a cancel request for a finished goal is accepted.
HandleCancelAnyGoal(g) ==
  /\ accepting = None
  /\ handle[g] \notin {"unsent", "requested", "rejected", "canceling"}
  /\ handle' = [handle EXCEPT ![g] = "canceling"]
  /\ UNCHANGED <<result, accepting, slotVars, worker, lifeVars>>

HandleCancel(g) ==
  /\ accepting = None
  /\ handle[g] = "executing"
  /\ handle' = [handle EXCEPT ![g] = "canceling"]
  /\ UNCHANGED <<result, accepting, slotVars, worker, lifeVars>>

\* Mistake: the goal in the pending slot is overwritten without an answer.
HandleAcceptedOverwrites ==
  /\ accepting # None
  /\ accepting' = None
  /\ IF is_active(current) \/ is_running
     THEN pending' = accepting /\ preempt_requested' = TRUE /\ UNCHANGED <<current, worker>>
     ELSE current' = accepting /\ worker' = "test" /\ UNCHANGED <<pending, preempt_requested>>
  /\ UNCHANGED <<handleVars, lifeVars>>

\* The new goal goes to the pending slot while an older one is active or the
\* worker thread is still running; otherwise it becomes the current goal and a
\* new worker thread starts.
HandleAccepted ==
  /\ accepting # None
  /\ accepting' = None
  /\ Terminate({pending}, EmptyResult)
  /\ IF is_active(current) \/ is_running
     THEN /\ pending' = accepting
          /\ preempt_requested' = TRUE
          /\ UNCHANGED <<current, worker>>
     ELSE /\ pending' = AfterTerminate(pending)
          /\ preempt_requested' = (preempt_requested /\ ~is_active(pending))
          /\ current' = accepting
          /\ worker' = "test"
  /\ UNCHANGED lifeVars

-----------------------------------------------------------------------------
(* Worker thread *)

\* The loop condition, read without the mutex.
WorkTest ==
  /\ worker = "test"
  /\ worker' = IF ~stop_execution /\ is_active(current) THEN "callback" ELSE "exit"
  /\ UNCHANGED <<handleVars, accepting, slotVars, lifeVars>>

\* The critical section after the callback returned: stop, clean up the current
\* goal, then either run the pending goal on this thread or leave the loop.
WorkReturned ==
  /\ worker = "returned"
  /\ IF stop_execution
     THEN TerminateAll(EmptyResult) /\ worker' = "exit"
     ELSE /\ Terminate({current}, EmptyResult)
          /\ IF is_active(pending)
             THEN /\ current' = pending
                  /\ pending' = None
                  /\ preempt_requested' = FALSE
                  /\ worker' = "test"
             ELSE /\ current' = AfterTerminate(current)
                  /\ worker' = "exit"
                  /\ UNCHANGED <<pending, preempt_requested>>
  /\ UNCHANGED <<accepting, lifeVars>>

\* The thread ends: execution_future_ becomes ready.
WorkExit ==
  /\ worker = "exit"
  /\ worker' = "ready"
  /\ UNCHANGED <<handleVars, accepting, slotVars, lifeVars>>

CallbackReturn ==
  /\ worker = "callback"
  /\ worker' = "returned"
  /\ UNCHANGED <<handleVars, accepting, slotVars, lifeVars>>

\* An exception leaves the execute callback.
CallbackThrow ==
  /\ worker = "callback"
  /\ TerminateAll(EmptyResult)
  /\ worker' = "exit"
  /\ UNCHANGED <<accepting, lifeVars>>

\* The callback calls an operation of the server and goes on.
CallbackCall ==
  /\ worker = "callback"
  /\ \/ \E r \in Results : TerminateAll(r) \/ TerminateCurrent(r) \/ SucceededCurrent(r)
     \/ AcceptPendingGoal
     \/ TerminatePendingGoal
  /\ UNCHANGED <<worker, accepting, lifeVars>>

-----------------------------------------------------------------------------
(* Lifecycle thread *)

Activate ==
  /\ lifecycle = "inactive"
  /\ lifecycle' = "active"
  /\ server_active' = TRUE
  /\ stop_execution' = FALSE
  /\ UNCHANGED <<handleVars, accepting, slotVars, worker, deactivations>>

DeactivateBegin ==
  /\ lifecycle = "active"
  /\ deactivations < MaxDeactivations
  /\ deactivations' = deactivations + 1
  /\ lifecycle' = "deactivating"
  /\ server_active' = FALSE
  /\ stop_execution' = TRUE
  /\ UNCHANGED <<handleVars, accepting, slotVars, worker>>

\* The worker missed server_timeout_.
DeactivateDeadline ==
  /\ lifecycle = "deactivating"
  /\ is_running
  /\ TerminateAll(EmptyResult)
  /\ UNCHANGED <<accepting, worker, lifeVars>>

DeactivateEnd ==
  /\ lifecycle = "deactivating"
  /\ ~is_running
  /\ lifecycle' = "inactive"
  /\ UNCHANGED <<handleVars, accepting, slotVars, worker, server_active, stop_execution,
                 deactivations>>

-----------------------------------------------------------------------------
ExecutorNext ==
  \/ \E g \in Goals : SendGoal(g) \/ HandleGoal(g) \/ HandleCancel(g)
  \/ HandleAccepted
LifecycleNext == Activate \/ DeactivateBegin \/ DeactivateDeadline \/ DeactivateEnd
LoopNext == WorkTest \/ WorkReturned \/ WorkExit
CallbackNext == CallbackReturn \/ CallbackThrow \/ CallbackCall

Next == ExecutorNext \/ LifecycleNext \/ LoopNext \/ CallbackNext

Spec == Init /\ [][Next]_serverVars

-----------------------------------------------------------------------------
(* Properties *)

\* Type correctness.
TypeOK ==
  /\ handle \in [Goals -> HandleStates]
  /\ result \in [Goals -> Results]
  /\ accepting \in Goals \cup {None}
  /\ current \in Goals \cup {None}
  /\ pending \in Goals \cup {None}
  /\ preempt_requested \in BOOLEAN
  /\ server_active \in BOOLEAN
  /\ stop_execution \in BOOLEAN
  /\ worker \in WorkerStates
  /\ lifecycle \in {"inactive", "active", "deactivating"}
  /\ deactivations \in 0..MaxDeactivations

\* No accepted goal is dropped: a goal whose handle is still active is in one of
\* the two slots of the server, or on its way to handle_accepted.  Every place
\* that overwrites current_handle_ or pending_handle_ must have terminated the
\* goal it overwrites, whatever the callback and a deactivation did in between.
NoOrphanedGoal ==
  \A g \in Goals : is_active(g) => g \in {accepting, current, pending}

\* The slots hold live, distinct goals, and preempt_requested_ says exactly
\* whether there is a pending goal: computePlanInRoom and the BT navigator act on
\* the flag alone.
SlotsConsistent ==
  /\ current # None => is_active(current)
  /\ pending # None => is_active(pending)
  /\ current # None => current # pending
  /\ accepting # None => is_active(accepting) /\ accepting \notin {current, pending}
  /\ preempt_requested <=> pending # None

\* A goal is answered once: a terminal handle never changes state and never gets
\* another result.
AnsweredOnce ==
  [][\A g \in Goals : handle[g] \in TerminalStates =>
       handle'[g] = handle[g] /\ result'[g] = result[g]]_serverVars

\* The server keeps the action protocol: its goal handles, its results, the goal
\* on its way to handle_accepted and current_handle_ are the protocol's variables;
\* the pending slot, the flags, the threads and the lifecycle are hidden.
Protocol == INSTANCE ActionProtocol
              WITH status <- handle, answer <- result, offered <- accepting, turn <- current

ImplementsProtocol == Protocol!Spec

=============================================================================
