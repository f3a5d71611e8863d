------------------------- MODULE ObservationBuffer --------------------------
(***************************************************************************)
(* nav2_costmap_2d::ObservationBuffer, filled by the sensor callbacks of   *)
(* the obstacle layer and read by its updateBounds, under one lock.  An    *)
(* observation is its stamp.                                               *)
(*                                                                         *)
(*   now            the clock                                              *)
(*   list           observation_list_, the last cloud first                *)
(*   keep           observation_keep_time_                                 *)
(*   answer         what getObservations returned last                     *)
(*   disorder       a cloud older than one before it has come              *)
(***************************************************************************)
EXTENDS Component

CONSTANTS
  ObTime,    \* bound on the clock
  ObKeeps    \* observation keep times

ASSUME ObservationAssumption == ObTime \in Nat /\ ObKeeps \subseteq Nat

ObservationBuffers == {"observation_buffer"}

ObservationBufferInit ==
  [at : {"run"}, now : {1}, list : {<<>>}, keep : ObKeeps, answer : {<<>>},
   disorder : {FALSE}]

\* purgeStaleObservations: the first stale observation and everything behind it.
purged(list, now, keep) ==
  LET stale == {i \in DOMAIN list : now - list[i] > keep} IN
  IF list = <<>> THEN list
  ELSE IF keep = 0 THEN <<Head(list)>>
  ELSE IF stale = {} THEN list
  ELSE SubSeq(list, 1, (CHOOSE i \in stale : \A j \in stale : i <= j) - 1)

\* The sensor callbacks with bufferCloud.  A cloud that cannot be transformed leaves no trace.
Ob_bufferCloud ==
  /\ In(ObservationBuffers, "run")
  /\ Len(st.list) < 3
  /\ \E stamp \in {st.now - 2, st.now - 1, st.now} :
       Become([st EXCEPT !.list = purged(<<stamp>> \o @, st.now, st.keep),
                 !.disorder = @ \/ \E i \in DOMAIN st.list : st.list[i] > stamp])

\* getObservations, from getMarkingObservations and getClearingObservations.
Ob_getObservations ==
  /\ In(ObservationBuffers, "run")
  /\ LET l == purged(st.list, st.now, st.keep) IN
     Become([st EXCEPT !.list = l, !.answer = l, !.at = "read"])
Ob_read == In(ObservationBuffers, "read") /\ Become([st EXCEPT !.at = "run", !.answer = <<>>])

Ob_time == In(ObservationBuffers, "run") /\ st.now < ObTime /\ Become([st EXCEPT !.now = @ + 1])

ObservationBufferNext ==
  Ob_bufferCloud \/ Ob_getObservations \/ Ob_read \/ Ob_time

-----------------------------------------------------------------------------
\* What updateBounds gets is not older than the keep time (or is the last cloud alone), and as
\* long as clouds come in the order of their stamps nothing younger is thrown away.
ObservationsAreFresh ==
  part \in ObservationBuffers /\ st.at = "read" =>
    /\ st.keep > 0 => \A i \in DOMAIN st.answer : st.now - st.answer[i] <= st.keep
    /\ st.keep = 0 => Len(st.answer) <= 1
    /\ ~st.disorder => \A i \in 1 .. Len(st.answer) - 1 : st.answer[i] >= st.answer[i + 1]

\* A step throws away a young observation only if an older cloud came after it.
FreshObservationKept ==
  [][st.at = "run" /\ part \in ObservationBuffers /\ ~st'.disorder /\ st.keep > 0 =>
       \A i \in DOMAIN st.list : st'.now - st.list[i] <= st.keep => \E j \in DOMAIN st'.list : st'.list[j] = st.list[i]]_componentVars
=============================================================================
