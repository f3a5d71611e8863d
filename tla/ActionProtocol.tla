--------------------------- MODULE ActionProtocol ---------------------------
(***************************************************************************)
(* What an action server promises its clients, without slots, flags,       *)
(* threads or a lifecycle.  Goals are requested, accepted or rejected,     *)
(* possibly cancelled, and answered once.  At most one goal has the turn;  *)
(* only that goal can succeed, and the turn leaves it only together with   *)
(* its answer.  The newest goal wins: a goal that is handed over ends      *)
(* every older goal still waiting, and a goal gets the turn only when      *)
(* nothing older is left.  SimpleActionServer implements this.             *)
(***************************************************************************)
CONSTANTS
  Goals,    \* goal requests
  Results,  \* results a goal can be answered with
  None      \* no goal

VARIABLES
  status,   \* state of each goal, as its client sees it
  answer,   \* result of each answered goal
  offered,  \* goal accepted and not yet handed over for execution
  turn      \* goal being executed

protocolVars == <<status, answer, offered, turn>>

Live == {g \in Goals : status[g] \in {"executing", "canceling"}}

Init ==
  /\ status = [g \in Goals |-> "unsent"]
  /\ answer \in [Goals -> Results]
  /\ offered = None
  /\ turn = None

\* Goal g goes from one state to another and nothing else happens.
Move(g, from, to) ==
  /\ status[g] = from
  /\ status' = [status EXCEPT ![g] = to]
  /\ UNCHANGED <<answer, turn>>

Request(g) == Move(g, "unsent", "requested") /\ UNCHANGED offered
Reject(g)  == Move(g, "requested", "rejected") /\ UNCHANGED offered
Cancel(g)  == Move(g, "executing", "canceling") /\ UNCHANGED offered
Accept(g)  == Move(g, "requested", "executing") /\ offered = None /\ offered' = g

\* The goals of S are answered without success; "canceled" is only for a goal
\* whose cancellation was requested.
Ended(S) ==
  \E how \in [S -> {"aborted", "canceled"}], r \in Results :
    /\ \A g \in S : how[g] = "canceled" => status[g] = "canceling"
    /\ status' = [g \in Goals |-> IF g \in S THEN how[g] ELSE status[g]]
    /\ answer' = [g \in Goals |-> IF g \in S THEN r ELSE answer[g]]

\* The offered goal waits for the turn, or takes it when nobody has it.
HandOver ==
  /\ offered # None
  /\ Ended(Live \ {turn, offered})
  /\ offered' = None
  /\ turn' = turn \/ (turn = None /\ turn' = offered)

\* Goals are answered without success; the turn may pass to the newest goal.
Finish(S) ==
  /\ S \subseteq Live \ {offered}
  /\ Ended(S)
  /\ turn' # turn => turn \in S \cup {None}
  /\ turn' \notin {turn, None} => Live \ (S \cup {offered}) = {turn'}
  /\ UNCHANGED offered

Succeed ==
  /\ turn \in Live
  /\ status' = [status EXCEPT ![turn] = "succeeded"]
  /\ \E r \in Results : answer' = [answer EXCEPT ![turn] = r]
  /\ turn' = None
  /\ UNCHANGED offered

Next ==
  \/ \E g \in Goals : Request(g) \/ Reject(g) \/ Cancel(g) \/ Accept(g)
  \/ HandOver
  \/ \E S \in SUBSET Goals : Finish(S)
  \/ Succeed

Spec == Init /\ [][Next]_protocolVars

=============================================================================
