------------------------- MODULE SecondLevelPlanner -------------------------
(***************************************************************************)
(* GppBimServer::secondLevelPlanner, called from two threads of the        *)
(* GPP-BIM server against one room planner: the worker thread of a         *)
(* navbim_compute_path_to_pose query and the detached pre-planning thread. *)
(* A call sends one goal and polls for its acceptance and its result with  *)
(* two deadlines; it never cancels the goal it gives up on.  Both threads  *)
(* write the member timeout_occurred_, which the query resets when it      *)
(* starts and reads when it fails, if it plans on two levels; on one level *)
(* (use_two_level off) it makes a single call, for the whole floor, and    *)
(* fails without a look at the flag.                                       *)
(***************************************************************************)
EXTENDS PathServers

Threads == {"query", "preplan"}

VARIABLES
  use_two_level,     \* the parameter use_two_level_, read when the node is configured
  call,              \* where the thread's secondLevelPlanner call stands
  sent,              \* the goal of that call
  reply,             \* what the thread's last call returned
  timeout_occurred,  \* timeout_occurred_, shared by the threads
  query,             \* state of computePathToPose
  own_timeout        \* some call of the running query set timeout_occurred_

clientVars == <<use_two_level, call, sent, reply, timeout_occurred, query, own_timeout>>
allVars == <<navVars, clientVars>>

\* A call returns a path (and whose request it was planned for), or nullopt.
Replies == [path : BOOLEAN, for : SUBSET Goals]
NoPath == [path |-> FALSE, for |-> {}]

ClientInit ==
  /\ Init
  /\ use_two_level \in BOOLEAN
  /\ server \in RoomPlanners /\ cb = IdleCallback(RoomInitOwn)
  /\ call = [t \in Threads |-> "idle"]
  /\ sent = [t \in Threads |-> None]
  /\ reply = [t \in Threads |-> NoPath]
  /\ timeout_occurred = FALSE
  /\ query = "none" /\ own_timeout = FALSE

-----------------------------------------------------------------------------
(* computePathToPose, as far as it concerns timeout_occurred_ *)

QueryBegin ==
  /\ query # "planning"
  /\ query' = "planning"
  /\ timeout_occurred' = FALSE
  /\ own_timeout' = FALSE
  /\ sent' = [sent EXCEPT !["query"] = None]
  /\ reply' = [reply EXCEPT !["query"] = NoPath]
  /\ UNCHANGED <<navVars, use_two_level, call>>

\* On two levels planTopomapPath failed: the error code is read off the shared flag.
QueryFails ==
  /\ query = "planning" /\ call["query"] = "idle"
  /\ use_two_level
  /\ query' = IF timeout_occurred THEN "TIMEOUT" ELSE "NO_VALID_PATH"
  /\ UNCHANGED <<navVars, use_two_level, call, sent, reply, timeout_occurred, own_timeout>>

\* The paths may all have been there before.
QuerySucceeds ==
  /\ query = "planning" /\ call["query"] = "idle"
  /\ use_two_level
  /\ query' = "NONE"
  /\ UNCHANGED <<navVars, use_two_level, call, sent, reply, timeout_occurred, own_timeout>>

\* On one level the only call brought no path, or start and goal are on two floors and
\* none was made: there is one error code.
OneLevelFails ==
  /\ query = "planning" /\ call["query"] = "idle"
  /\ ~use_two_level /\ ~reply["query"].path
  /\ query' = "NO_VALID_PATH"
  /\ UNCHANGED <<navVars, use_two_level, call, sent, reply, timeout_occurred, own_timeout>>

OneLevelSucceeds ==
  /\ query = "planning" /\ call["query"] = "idle"
  /\ ~use_two_level /\ reply["query"].path
  /\ query' = "NONE"
  /\ UNCHANGED <<navVars, use_two_level, call, sent, reply, timeout_occurred, own_timeout>>

-----------------------------------------------------------------------------
(* secondLevelPlanner *)

\* The running query has made a call.
Asked == own_timeout \/ sent["query"] # None

MayCall(t) ==
  /\ call[t] = "idle"
  /\ t = "query" => query = "planning" /\ (use_two_level \/ ~Asked)

\* The call returns nullopt and sets timeout_occurred_.
ReturnTimeout(t) ==
  /\ call' = [call EXCEPT ![t] = "idle"]
  /\ sent' = [sent EXCEPT ![t] = None]
  /\ reply' = [reply EXCEPT ![t] = NoPath]
  /\ timeout_occurred' = TRUE
  /\ own_timeout' = (own_timeout \/ t = "query")
  /\ UNCHANGED <<navVars, use_two_level, query>>

\* wait_for_action_server failed.
ServerUnavailable(t) == MayCall(t) /\ ReturnTimeout(t)

\* Mistake: the flag is reset by each call.
CallSendGoalResets(t) ==
  /\ MayCall(t)
  /\ \E g \in Goals : SendGoal(g) /\ sent' = [sent EXCEPT ![t] = g]
  /\ call' = [call EXCEPT ![t] = "accept"]
  /\ timeout_occurred' = FALSE
  /\ UNCHANGED <<server, cb, use_two_level, reply, query, own_timeout>>

CallSendGoal(t) ==
  /\ MayCall(t)
  /\ \E g \in Goals : SendGoal(g) /\ sent' = [sent EXCEPT ![t] = g]
  /\ call' = [call EXCEPT ![t] = "accept"]
  /\ UNCHANGED <<server, cb, use_two_level, reply, timeout_occurred, query, own_timeout>>

GoalResponse(t) ==
  /\ call[t] = "accept"
  /\ handle[sent[t]] \notin {"requested", "rejected"}
  /\ call' = [call EXCEPT ![t] = "result"]
  /\ UNCHANGED <<navVars, use_two_level, sent, reply, timeout_occurred, query, own_timeout>>

GoalRejected(t) ==
  /\ call[t] = "accept"
  /\ handle[sent[t]] = "rejected"
  /\ ReturnTimeout(t)

AcceptTimeout(t) == call[t] = "accept" /\ ReturnTimeout(t)

\* Mistake: the wait for the result has no deadline.
ResultNoTimeout(t) ==
  call[t] = "result" /\ handle[sent[t]] \in {"aborted", "canceled"} /\ ReturnTimeout(t)

ResultTimeout(t) == call[t] = "result" /\ ReturnTimeout(t)

\* A result code other than SUCCEEDED counts as a timeout.
ResultFailed(t) ==
  /\ call[t] = "result"
  /\ handle[sent[t]] \in {"aborted", "canceled"}
  /\ ReturnTimeout(t)

ResultReady(t) ==
  /\ call[t] = "result"
  /\ handle[sent[t]] = "succeeded"
  /\ LET r == result[sent[t]] IN
       reply' = [reply EXCEPT ![t] = IF r.kind = "done" THEN [path |-> TRUE, for |-> r.for]
                                     ELSE NoPath]
  /\ call' = [call EXCEPT ![t] = "idle"]
  /\ UNCHANGED <<navVars, use_two_level, sent, timeout_occurred, query, own_timeout>>

\* Steps of a call that do not depend on anyone else: the deadlines, and reading
\* an answer that is there.
CallProgress(t) ==
  GoalResponse(t) \/ GoalRejected(t) \/ AcceptTimeout(t) \/ ResultTimeout(t)
  \/ ResultFailed(t) \/ ResultReady(t)

ServerStep ==
  /\ \/ (\E g \in Goals : HandleGoal(g)) /\ UNCHANGED <<server, cb>>
     \/ (HandleAccepted \/ LifecycleNext) /\ UNCHANGED <<server, cb>>
     \/ EnterCallback \/ RoomNext \/ LeaveCallback(cb.own)
     \/ (WorkReturned \/ WorkExit) /\ UNCHANGED <<server, cb>>
  /\ UNCHANGED clientVars

ClientNext ==
  \/ QueryBegin \/ QueryFails \/ QuerySucceeds \/ OneLevelFails \/ OneLevelSucceeds
  \/ \E t \in Threads : ServerUnavailable(t) \/ CallSendGoal(t) \/ CallProgress(t)

SystemNext == ServerStep \/ ClientNext

SystemSpec == ClientInit /\ [][SystemNext]_allVars

\* A polling loop of secondLevelPlanner runs until it returns.  Nothing is
\* assumed of the room planner.
LiveSystemSpec == SystemSpec /\ \A t \in Threads : WF_allVars(CallProgress(t))

-----------------------------------------------------------------------------
\* Type correctness of the client side.
ClientTypeOK ==
  /\ call \in [Threads -> {"idle", "accept", "result"}]
  /\ sent \in [Threads -> Goals \cup {None}]
  /\ reply \in [Threads -> Replies]
  /\ use_two_level \in BOOLEAN /\ timeout_occurred \in BOOLEAN /\ own_timeout \in BOOLEAN
  /\ query \in {"none", "planning", "NONE", "TIMEOUT", "NO_VALID_PATH"}

\* secondLevelPlanner returns whatever the room planner does, even when the goal
\* is lost in the server: computePathToPose waits for it with
\* topological_map_mutex_ locked.
CallReturns == \A t \in Threads : call[t] # "idle" ~> call[t] = "idle"

\* A path that a call returns was planned in the room and between the points the
\* call asked for, not those of the other thread's goal.
PathIsForThisCall ==
  \A t \in Threads : call[t] = "idle" /\ reply[t].path => reply[t].for = {sent[t]}

\* With use_two_level, a query that reports NO_VALID_PATH had no timeout: whatever the
\* pre-planning thread does in between, timeout_occurred_ is reset at the start of a
\* planning request only.
TimeoutNotHidden == use_two_level /\ query = "NO_VALID_PATH" => ~own_timeout

\* The same of a query on one level: gpp_bim_server.cpp answers NO_VALID_PATH there to
\* whatever keeps the room planner from answering.
\* It does not hold: README, Disagreements.
OneLevelTimeoutNotHidden == ~use_two_level /\ query = "NO_VALID_PATH" => ~own_timeout

=============================================================================
