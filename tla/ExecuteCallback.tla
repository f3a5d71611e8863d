--------------------------- MODULE ExecuteCallback ---------------------------
(***************************************************************************)
(* The execute callbacks of the navigation servers, on top of the action   *)
(* server they share.  A model has one server, chosen in the initial       *)
(* state; cb is what its callback knows: the place it has reached, the     *)
(* goal whose data it works with, the last command on cmd_vel, whether the *)
(* velocity publisher is active, and members of its own.  Every call into  *)
(* the action server is a step, because update_mutex_ is free between two  *)
(* calls; work that calls nothing is one step with a choice of outcomes.   *)
(* The modules that extend this one give the steps of one server each.     *)
(***************************************************************************)
EXTENDS SimpleActionServer

VARIABLES
  server,  \* the action server that is modelled
  cb       \* its execute callback

navVars == <<serverVars, server, cb>>

\* An answer, and the goals whose data went into it (no field of the message).
AnswerKinds == {"empty", "done", "no_path", "error", "missed", "short"}
NavResults == [kind : AnswerKinds, for : SUBSET Goals]
NavEmptyResult == [kind |-> "empty", for |-> {}]

ASSUME NavResultsAssumption == Results = NavResults /\ EmptyResult = NavEmptyResult

Answer(kind) == [kind |-> kind, for |-> {cb.job} \ {None}]

\* own is the record of the members and locals only this server has; kept records
\* that a callback went on with the data of the goal it was preempted from.
IdleCallback(own) ==
  [at |-> "off", job |-> None, velocity |-> "zero", gate |-> FALSE, kept |-> FALSE, own |-> own]

Here(S, place) == server \in S /\ cb.at = place
Goto(place) == [cb EXCEPT !.at = place]

\* publish() of a lifecycle publisher: nothing is sent while it is not active.
Publish(c, v) == IF c.gate THEN [c EXCEPT !.velocity = v] ELSE c

\* A step that calls no operation of the action server, and one that does.
Local(c) == cb' = c /\ UNCHANGED <<serverVars, server>>
Called(c) == cb' = c /\ UNCHANGED <<worker, accepting, lifeVars, server>>
Ignored(c) == Called(c) /\ UNCHANGED <<handleVars, slotVars>>

-----------------------------------------------------------------------------
(* Steps every callback has *)

\* The worker loop enters the callback.
EnterCallback ==
  /\ WorkTest
  /\ cb' = IF worker' = "callback" THEN Goto("entry") ELSE cb
  /\ UNCHANGED server

\* get_current_goal(): null when the current goal is gone.
CurrentGoal == IF is_active(current) THEN current ELSE None

GetCurrentGoal(S, place) ==
  /\ Here(S, "entry")
  /\ Local([cb EXCEPT !.at = place, !.job = CurrentGoal])

\* is_server_active(), and is_cancel_requested()
ReturnIfInactive(S, place, next) ==
  Here(S, place) /\ Local(Goto(IF server_active THEN next ELSE "return"))
TestCancel(S, place, canceled, next) ==
  Here(S, place) /\ Local(Goto(IF is_cancel_requested THEN canceled ELSE next))

\* terminate_all, terminate_current and succeeded_current as the last thing done
EndAll(S, place, r) == Here(S, place) /\ TerminateAll(r) /\ Called(Goto("return"))
EndCurrent(S, place, r) == Here(S, place) /\ TerminateCurrent(r) /\ Called(Goto("return"))
EndSucceeded(S, place, r) == Here(S, place) /\ SucceededCurrent(r) /\ Called(Goto("return"))

\* The callback returns; own is what is left of its data.
LeaveCallback(own) ==
  /\ cb.at = "return"
  /\ CallbackReturn
  /\ cb' = [cb EXCEPT !.at = "off", !.job = None, !.own = own]
  /\ UNCHANGED server

=============================================================================
