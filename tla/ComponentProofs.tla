-------------------------- MODULE ComponentProofs --------------------------
(***************************************************************************)
(* The inductive invariants of single nodes: what a user works with, for   *)
(* every number of loops, every element and every sequence of goals, and   *)
(* the nodes between a command and the wheels, for every speed, timeout,   *)
(* number of simulated steps, clock and pose.                              *)
(***************************************************************************)
EXTENDS UserInterfaces, MotionNodes, WellFoundedInduction, TLAPS

-----------------------------------------------------------------------------
(* The navigation panel *)

\* The states of the panel's machine, with those that are left at once.
NpPlaces ==
  {"pre_initial", "initial", "idle", "running", "paused", "accumulating", "accumulated_wp",
   "accumulated_ntp", "resumed_wp", "canceled", "reset", "resumed", "crashed"}
NpCommands == {"none", "startup", "pause", "resume", "reset"}
NpCancels == {"no", "begun", "asked"}
NpKinds == SUBSET GoalKinds
NpButtons == SUBSET {"mode", "pause"}
NpHandles == [GoalKinds -> {"none", "live", "dead", "shared"}]
NpWays == [index : Int, left : Nat]
NpStates ==
  [servers : NpKinds, at : NpPlaces, command : NpCommands, poses : Int, stored : Int, text : Int,
   loop_no : Int, loop_count : Int, counted : BOOLEAN, index : Int, off : NpButtons, handle : NpHandles,
   timer : BOOLEAN, cancel : NpCancels, answered : NpKinds, way : NpWays, initial : BOOLEAN]
\* The state shows the last command.
Shows(s) ==
  /\ s.at = "paused" => s.command = "pause"
  /\ s.at \in {"pre_initial", "initial"} => s.command \in {"none", "reset"}
  /\ s.at \notin {"paused", "pre_initial", "initial", "crashed"} => s.command \in {"startup", "resume"}
NpInv == st \in NpStates /\ Shows(st)

\* Like s but for what a state assigns and what its slots do: the place and the command stay.
Alike(s, t) == t \in NpStates /\ t.at = s.at /\ t.command = s.command

\* Sending a goal changes handles and the timer.
LEMMA SentIs ==
  ASSUME NEW s \in NpStates, NEW k \in GoalKinds, NEW t \in Np_send(s, k)
  PROVE  Alike(s, t) /\ t.stored = s.stored /\ t.poses = s.poses
<1>1. t = s \/ (\E h \in {"none", "live", "shared"}, b \in BOOLEAN :
                  t = [s EXCEPT !.handle[k] = h, !.timer = b])
  <2>1. CASE t = s
    BY <2>1
  <2>2. CASE t = [s EXCEPT !.handle[k] = "none"]
    <3>1. s.timer \in BOOLEAN
      BY DEF NpStates
    <3>2. t = [s EXCEPT !.handle[k] = "none", !.timer = s.timer]
      BY <2>2, <3>1, Zenon DEF NpStates
    <3> QED BY <3>1, <3>2, Zenon
  <2>3. CASE t = [s EXCEPT !.handle[k] = IF @ \in {"live", "shared"} THEN "shared" ELSE "live", !.timer = TRUE]
    <3> DEFINE h == IF s.handle[k] \in {"live", "shared"} THEN "shared" ELSE "live"
    <3>1. h \in {"none", "live", "shared"} /\ t = [s EXCEPT !.handle[k] = h, !.timer = TRUE]
      BY <2>3
    <3> QED BY <3>1, Zenon
  <2> QED BY <2>1, <2>2, <2>3, Zenon DEF Np_send
<1>2. CASE t = s
  BY <1>2 DEF Alike
<1>3. ASSUME NEW h \in {"none", "live", "shared"}, NEW b \in BOOLEAN, t = [s EXCEPT !.handle[k] = h, !.timer = b]
      PROVE  Alike(s, t) /\ t.stored = s.stored /\ t.poses = s.poses
  <2> DEFINE g == [s.handle EXCEPT ![k] = h]
  <2>0. s.handle \in NpHandles
    BY DEF NpStates
  <2>1. g \in NpHandles /\ t = [s EXCEPT !.handle = g, !.timer = b]
    BY <1>3, <2>0 DEF NpHandles
  <2> HIDE DEF g
  <2> QED BY <2>1, Zenon DEF NpStates, Alike
<1> QED BY <1>1, <1>2, <1>3, Zenon

\* What a state assigns to the widgets.
LEMMA AssignedIs ==
  ASSUME NEW s \in NpStates, NEW q \in NpPlaces
  PROVE  /\ Np_assigned(s, q) \in NpStates /\ Np_assigned(s, q).at = q
         /\ Np_assigned(s, q).command = s.command
<1> DEFINE x == IF q \in {"initial", "idle", "accumulating", "running"} THEN 0 ELSE s.text
<1>1. x \in Int
  BY DEF NpStates
<1> DEFINE none == {}
<1>2. Np_assigned(s, q) = [s EXCEPT !.at = q, !.off = none, !.text = x]
  BY Zenon DEF Np_assigned
<1>3. none \in NpButtons
  BY DEF NpButtons
<1> HIDE DEF x, none
<1> QED BY ONLY <1>1, <1>2, <1>3, s \in NpStates, q \in NpPlaces, Zenon DEF NpStates

\* onAccumulating.
LEMMA AccumulatingIs ==
  ASSUME NEW s \in NpStates
  PROVE  Alike(s, onAccumulating(s))
<1> DEFINE zero == 0
           u == [s EXCEPT !.poses = zero, !.stored = zero, !.loop_count = zero]
<1>1. zero \in Int /\ onAccumulating(s) = [u EXCEPT !.loop_no = zero, !.counted = TRUE, !.index = zero]
  BY DEF onAccumulating
<1> HIDE DEF zero
<1>2. Alike(s, u)
  BY ONLY <1>1, s \in NpStates, Zenon DEF NpStates, Alike
<1> HIDE DEF u
<1>3. Alike(u, onAccumulating(s))
  BY ONLY <1>1, <1>2, Zenon DEF NpStates, Alike
<1> QED BY <1>2, <1>3, Zenon DEF Alike

\* The waypoints go out with the loops that are left, which onAccumulatedWp has found valid.
LEMMA WaypointsSent ==
  ASSUME NEW s \in NpStates, s.loop_no >= 0, NEW t \in startWaypointFollowing(s)
  PROVE  Alike(s, t)
<1>1. s.index \in Int /\ s.loop_no \in Nat
  BY DEF NpStates
<1> DEFINE w == [index |-> s.index, left |-> s.loop_no]
<1>2. w \in NpWays /\ Np_sent(s) = [s EXCEPT !.way = w]
  BY <1>1 DEF Np_sent, NpWays
<1> HIDE DEF w
<1>3. Alike(s, Np_sent(s))
  BY ONLY <1>2, s \in NpStates DEF NpStates, Alike
<1>4. t \in Np_send(Np_sent(s), "wp") /\ "wp" \in GoalKinds
  BY DEF startWaypointFollowing, GoalKinds
<1>5. Alike(Np_sent(s), t)
  BY <1>3, <1>4, SentIs DEF Alike
<1> QED BY <1>3, <1>5 DEF Alike

\* onAccumulatedWp: it accumulates again or sends the waypoints.
LEMMA AccumulatedWpIs ==
  ASSUME NEW s \in NpStates, s.at = "accumulated_wp", NEW t \in onAccumulatedWp(s)
  PROVE  t \in NpStates /\ t.at \in {"accumulating", "accumulated_wp"} /\ t.command = s.command
<1> DEFINE kept(u) == [u EXCEPT !.stored = u.poses, !.poses = 0]
           first == IF s.stored = 0 THEN [s EXCEPT !.text = s.loop_no] ELSE s
           led == [first EXCEPT !.poses = @ + 1, !.index = IF s.loop_count = 0 THEN 1 ELSE @]
<1>1. ASSUME NEW u, Alike(s, u) PROVE Alike(s, kept(u))
  <2> DEFINE n == u.poses
             zero == 0
  <2>1. n \in Int /\ zero \in Int /\ u \in NpStates /\ kept(u) = [u EXCEPT !.stored = n, !.poses = zero]
    BY <1>1 DEF Alike, NpStates
  <2> HIDE DEF n, zero, kept
  <2> QED BY ONLY <1>1, <2>1, Zenon DEF NpStates, Alike
<1>2. Alike(s, first) /\ first.loop_no = s.loop_no
  BY DEF NpStates, Alike
<1>3. Alike(s, led) /\ led.loop_no = s.loop_no
  <2> DEFINE n == first.poses + 1
             j == IF s.loop_count = 0 THEN 1 ELSE first.index
  <2>1. n \in Int /\ j \in Int
    BY <1>2 DEF Alike, NpStates
  <2>2. led = [first EXCEPT !.poses = n, !.index = j]
    OBVIOUS
  <2> HIDE DEF n, j, first, led
  <2> QED BY ONLY <1>2, <2>1, <2>2, Zenon DEF NpStates, Alike
<1>4. CASE s.poses = 0 \/ ~isLoopValueValid(s.loop_no)
  <2>1. t = onAccumulating(Np_assigned(s, "accumulating"))
    BY <1>4, Zenon DEF onAccumulatedWp
  <2>2. "accumulating" \in NpPlaces
    BY DEF NpPlaces
  <2> QED BY <2>1, <2>2, AssignedIs, AccumulatingIs DEF Alike
<1>5. CASE ~(s.poses = 0 \/ ~isLoopValueValid(s.loop_no))
  <2>1. \/ t = first
        \/ \E u \in startWaypointFollowing(led) : t = kept(u)
        \/ \E u \in startWaypointFollowing(first) : t = kept(u)
    BY <1>5, Zenon DEF onAccumulatedWp
  <2>2. s.loop_no >= 0
    BY <1>5 DEF isLoopValueValid
  <2> HIDE DEF first, led, kept
  <2>3. ASSUME NEW v, Alike(s, v), v.loop_no = s.loop_no, NEW u \in startWaypointFollowing(v), t = kept(u)
        PROVE  Alike(s, t)
    <3>1. Alike(v, u)
      BY <2>2, <2>3, WaypointsSent DEF Alike
    <3>2. Alike(s, u)
      BY <2>3, <3>1 DEF Alike
    <3> QED BY <3>2, <2>3, <1>1
  <2>4. Alike(s, t)
    BY <2>1, <2>3, <1>2, <1>3, Zenon
  <2> QED BY <2>4 DEF Alike
<1> QED BY <1>4, <1>5

\* Where the buttons lead: only "start" leaves the initial state, and only a reset or a resumption
\* the paused one.
LEMMA ClicksAre ==
  ASSUME NEW p \in DOMAIN Np_clicks, NEW button \in DOMAIN Np_clicks[p]
  PROVE  /\ Np_clicks[p][button] \in {"idle", "reset", "accumulating", "paused", "canceled", "resumed",
              "accumulated_wp", "accumulated_ntp", "resumed_wp"}
         /\ p = "initial" => Np_clicks[p][button] = "idle"
         /\ p = "paused" => Np_clicks[p][button] \in {"reset", "resumed"}
         /\ p \notin {"initial", "paused"} => Np_clicks[p][button] # "resumed"
         /\ p \in NpPlaces \ {"pre_initial", "crashed"}
<1> USE DEF Np_clicks
<1>1. p \in {"initial", "idle", "running", "paused", "accumulating", "accumulated_wp", "accumulated_ntp",
             "resumed_wp"}
  OBVIOUS
<1>2. CASE p = "initial"
  BY <1>2 DEF NpPlaces
<1>3. CASE p = "idle"
  BY <1>3 DEF NpPlaces
<1>4. CASE p = "running"
  BY <1>4 DEF NpPlaces
<1>5. CASE p = "paused"
  BY <1>5 DEF NpPlaces
<1>6. CASE p = "accumulating"
  BY <1>6 DEF NpPlaces
<1>7. CASE p = "accumulated_wp"
  BY <1>7 DEF NpPlaces
<1>8. CASE p = "accumulated_ntp"
  BY <1>8 DEF NpPlaces
<1>9. CASE p = "resumed_wp"
  BY <1>9 DEF NpPlaces
<1> HIDE DEF Np_clicks
<1> QED BY <1>1, <1>2, <1>3, <1>4, <1>5, <1>6, <1>7, <1>8, <1>9

\* Entering a state by a button shows what the button commanded.
LEMMA EnteredIs ==
  ASSUME NEW s \in NpStates, Shows(s), NEW button, s.at \in DOMAIN Np_clicks,
         button \in DOMAIN Np_clicks[s.at], NEW t \in Np_entered(s, Np_clicks[s.at][button])
  PROVE  t \in NpStates /\ Shows(t)
<1> DEFINE q == Np_clicks[s.at][button]
           u == Np_assigned(s, q)
<1>1. /\ q \in {"idle", "reset", "accumulating", "paused", "canceled", "resumed",
                "accumulated_wp", "accumulated_ntp", "resumed_wp"}
      /\ s.at = "initial" => q = "idle"
      /\ s.at = "paused" => q \in {"reset", "resumed"}
      /\ s.at \notin {"initial", "paused"} => q # "resumed"
      /\ s.at \in NpPlaces \ {"pre_initial", "crashed"}
  BY ClicksAre
<1>2. t \in Np_entered(s, q)
  OBVIOUS
<1> HIDE DEF q
<1>3. u \in NpStates /\ u.at = q /\ u.command = s.command
  <2>1. q \in NpPlaces
    BY <1>1 DEF NpPlaces
  <2> QED BY <2>1, AssignedIs
<1>a. ASSUME NEW p \in NpPlaces, NEW v \in NpStates
      PROVE  /\ Np_assigned(v, p) \in NpStates /\ Np_assigned(v, p).at = p
             /\ Np_assigned(v, p).command = v.command
  BY AssignedIs
<1>b. "initial" \in NpPlaces /\ "idle" \in NpPlaces
  BY DEF NpPlaces
<1>4. s.at \notin {"initial", "paused"} => s.command \in {"startup", "resume"}
  BY <1>1 DEF Shows
<1>5. CASE q = "accumulating"
  <2>1. t = onAccumulating(u)
    BY <1>2, <1>5 DEF Np_entered
  <2>2. Alike(u, t)
    BY <2>1, <1>3, <1>5, AccumulatingIs
  <2> QED BY <2>2, <1>1, <1>3, <1>4, <1>5 DEF Alike, Shows
<1>6. CASE q = "accumulated_wp"
  <2>1. t \in onAccumulatedWp(u)
    BY <1>2, <1>6 DEF Np_entered
  <2>2. t \in NpStates /\ t.at \in {"accumulating", "accumulated_wp"} /\ t.command = s.command
    BY <2>1, <1>3, <1>6, AccumulatedWpIs
  <2> QED BY <2>2, <1>1, <1>4, <1>6 DEF Shows
<1>7. CASE q = "accumulated_ntp"
  <2>1. t \in Np_send(u, "ntp") /\ "ntp" \in GoalKinds
    BY <1>2, <1>7 DEF Np_entered, onAccumulatedNTP, startNavThroughPoses, GoalKinds
  <2>2. Alike(u, t)
    BY <2>1, <1>3, <1>7, SentIs
  <2> QED BY <2>2, <1>1, <1>3, <1>4, <1>7 DEF Alike, Shows
<1>8. CASE q = "resumed_wp"
  <2> DEFINE n == u.stored
             m == u.text - u.loop_count
  <2>1. t = [u EXCEPT !.cancel = "begun", !.poses = n, !.loop_no = m]
    BY <1>2, <1>8 DEF Np_entered, onResumedWp
  <2>2. u \in NpStates /\ u.at = q /\ u.command = s.command
    BY <1>3
  <2>3. n \in Int /\ m \in Int /\ "begun" \in NpCancels
    BY <2>2 DEF NpStates, NpCancels
  <2> HIDE DEF n, m, u
  <2>4. t \in NpStates /\ t.at = u.at /\ t.command = u.command
    BY ONLY <2>1, <2>2, <2>3, Zenon DEF NpStates
  <2> QED BY <2>2, <2>4, <1>1, <1>4, <1>8 DEF Shows
<1>9. CASE q = "paused"
  <2>1. t = [u EXCEPT !.command = "pause"]
    BY <1>2, <1>9 DEF Np_entered
  <2>2. u \in NpStates /\ u.at = q /\ "pause" \in NpCommands
    BY <1>3 DEF NpCommands
  <2> HIDE DEF u
  <2>3. t \in NpStates /\ t.at = q /\ t.command = "pause"
    BY ONLY <2>1, <2>2, Zenon DEF NpStates
  <2> QED BY <2>3, <1>9 DEF Shows
<1>10. CASE q = "reset"
  <2>1. t = [Np_assigned(u, "initial") EXCEPT !.command = "reset", !.timer = FALSE]
    BY <1>2, <1>10 DEF Np_entered
  <2> DEFINE v == Np_assigned(u, "initial")
  <2>2. v \in NpStates /\ v.at = "initial" /\ "reset" \in NpCommands
    BY <1>3, <1>a, <1>b DEF NpCommands
  <2>3. t = [v EXCEPT !.command = "reset", !.timer = FALSE]
    BY <2>1
  <2> HIDE DEF v
  <2>4. t \in NpStates /\ t.at = "initial" /\ t.command = "reset"
    BY ONLY <2>2, <2>3, Zenon DEF NpStates
  <2> QED BY <2>4 DEF Shows
<1>11. CASE q = "canceled"
  <2> DEFINE zero == 0
             v == [u EXCEPT !.cancel = "begun", !.stored = zero, !.poses = zero]
  <2>1. t = Np_assigned(v, "idle")
    BY <1>2, <1>11 DEF Np_entered, onCancel
  <2>2. zero \in Int /\ "begun" \in NpCancels
    BY DEF NpCancels
  <2> HIDE DEF u, zero
  <2>3. v \in NpStates /\ v.command = s.command
    BY ONLY <1>3, <2>2, Zenon DEF NpStates
  <2>4. t \in NpStates /\ t.at = "idle" /\ t.command = s.command
    BY <2>1, <2>3, <1>a, <1>b, Zenon
  <2> QED BY <2>4, <1>1, <1>4, <1>11 DEF Shows
<1>12. CASE q = "resumed"
  <2> DEFINE v == Np_assigned(u, "idle")
  <2>1. t = [v EXCEPT !.command = "resume"]
    BY <1>2, <1>12 DEF Np_entered
  <2>2. v \in NpStates /\ v.at = "idle" /\ "resume" \in NpCommands
    BY <1>3, <1>a, <1>b DEF NpCommands
  <2> HIDE DEF v
  <2>3. t \in NpStates /\ t.at = "idle" /\ t.command = "resume"
    BY ONLY <2>1, <2>2, Zenon DEF NpStates
  <2> QED BY <2>3 DEF Shows
<1>13. CASE q = "idle"
  <2> DEFINE c == IF s.at = "initial" THEN "startup" ELSE u.command
  <2>1. t = [u EXCEPT !.command = c]
    BY <1>2, <1>13 DEF Np_entered
  <2>2. c \in NpCommands /\ c \in {"startup", "resume"}
    BY <1>1, <1>3, <1>4, <1>13 DEF NpCommands
  <2> HIDE DEF u, c
  <2>3. t \in NpStates /\ t.at = q /\ t.command = c
    BY ONLY <1>3, <2>1, <2>2, Zenon DEF NpStates
  <2> QED BY <2>2, <2>3, <1>13 DEF Shows
<1> QED BY <1>1, <1>5, <1>6, <1>7, <1>8, <1>9, <1>10, <1>11, <1>12, <1>13

\* NpInv holds when the panel is created.
LEMMA NpInitInv ==
  ASSUME NEW servers \in NpServers, st = Np_init(servers)
  PROVE  NpInv
<1> DEFINE h == [k \in GoalKinds |-> "none"]
           w == [index |-> 0, left |-> 0]
           zero == 0
           off == {}
<1>1. servers \in NpKinds /\ h \in NpHandles /\ w \in NpWays /\ zero \in Int /\ off \in NpButtons
      /\ off \in NpKinds
  BY PanelsAssumption DEF NpKinds, GoalKinds, NpHandles, NpWays, NpButtons
<1>2. "pre_initial" \in NpPlaces /\ "none" \in NpCommands /\ "no" \in NpCancels
  BY DEF NpPlaces, NpCommands, NpCancels
<1>3. st = [servers |-> servers, at |-> "pre_initial", command |-> "none", poses |-> zero, stored |-> zero,
            text |-> zero, loop_no |-> zero, loop_count |-> zero, counted |-> FALSE, index |-> zero,
            off |-> off, handle |-> h, timer |-> FALSE, cancel |-> "no", answered |-> off,
            way |-> w, initial |-> FALSE]
  BY Zenon DEF Np_init
<1> HIDE DEF h, w, zero, off
<1>4. st \in NpStates /\ st.at = "pre_initial" /\ st.command = "none"
  BY ONLY <1>1, <1>2, <1>3 DEF NpStates
<1> QED BY <1>4 DEF NpInv, Shows

\* What the timer's event changes.
LEMMA EventIs ==
  ASSUME NEW s \in NpStates, Shows(s), NEW active \in BOOLEAN, NEW t \in Np_event(s, active)
  PROVE  t \in NpStates /\ Shows(t)
<1>1. ASSUME NEW p \in {"running", "idle", "accumulating"},
             s.at \in {"idle", "running", "accumulated_wp", "accumulated_ntp"}, t = Np_assigned(s, p)
      PROVE  t \in NpStates /\ Shows(t)
  <2>1. p \in NpPlaces
    BY DEF NpPlaces
  <2>2. t \in NpStates /\ t.at = p /\ t.command = s.command
    BY <2>1, <1>1, AssignedIs
  <2> QED BY <2>2, <1>1 DEF Shows
<1>2. CASE s.at = "accumulated_wp" /\ ~active
  <2>1. t = onAccumulating(Np_assigned(s, "accumulating"))
    BY <1>2 DEF Np_event
  <2>2. "accumulating" \in NpPlaces
    BY DEF NpPlaces
  <2>3. t \in NpStates /\ t.at = "accumulating" /\ t.command = s.command
    BY <2>1, <2>2, AssignedIs, AccumulatingIs DEF Alike
  <2> QED BY <2>3, <1>2 DEF Shows
<1>3. CASE s.at # "accumulated_wp" \/ active
  <2>1. t = s \/ (s.at \in {"idle", "running", "accumulated_wp", "accumulated_ntp"}
                 /\ \E p \in {"running", "idle", "accumulating"} : t = Np_assigned(s, p))
    BY <1>3 DEF Np_event
  <2> QED BY <2>1, <1>1
<1> QED BY <1>2, <1>3

\* Every step of the navigation panel keeps NpInv.
LEMMA NpNextInv ==
  ASSUME NpInv, Nav2PanelNext \/ st' = st
  PROVE  NpInv'
<1>0. st \in NpStates /\ Shows(st)
  BY DEF NpInv
<1>s. ASSUME NEW t, t \in NpStates, Shows(t), st' = t PROVE NpInv'
  BY <1>s DEF NpInv
\* A step that leaves the place and the command.
<1>a. ASSUME Alike(st, st') PROVE NpInv'
  BY <1>a, <1>0, Zenon DEF Alike, NpInv, Shows
<1>c. ASSUME st' \in NpStates, st'.at = "crashed" PROVE NpInv'
  BY <1>c DEF NpInv, Shows
<1>1. CASE Np_click
  <2>1. PICK button \in DOMAIN Np_clicks[st.at] : st' \in Np_entered(st, Np_clicks[st.at][button])
    BY <1>1, Zenon DEF Np_click, Become
  <2>2. st.at \in DOMAIN Np_clicks
    BY <1>1, Zenon DEF Np_click
  <2> QED BY <2>1, <2>2, <1>0, <1>s, EnteredIs
<1>2. CASE Np_initialThread
  <2>1. PICK active \in BOOLEAN :
          st' = [Np_assigned(st, IF active THEN "idle" ELSE "initial") EXCEPT
                   !.command = IF active THEN "startup" ELSE @]
    BY <1>2, Zenon DEF Np_initialThread, Become
  <2>2. st.command \in {"none", "reset"}
    <3>1. st.at = "pre_initial"
      BY <1>2, Zenon DEF Np_initialThread, In
    <3> QED BY <1>0, <3>1 DEF Shows
  <2> DEFINE p == IF active THEN "idle" ELSE "initial"
             u == Np_assigned(st, p)
             c == IF active THEN "startup" ELSE u.command
  <2>3. p \in NpPlaces /\ st' = [u EXCEPT !.command = c]
    BY <2>1 DEF NpPlaces
  <2>4. u \in NpStates /\ u.at = p /\ u.command = st.command
    BY <2>3, <1>0, AssignedIs
  <2>5. c \in NpCommands
    BY <2>4, <2>2 DEF NpCommands
  <2>6. (p = "idle" /\ c = "startup") \/ (p = "initial" /\ c \in {"none", "reset"})
    <3>1. CASE active
      <4>1. p = "idle" /\ c = "startup"
        BY <3>1, Zenon
      <4> HIDE DEF p, c
      <4> QED BY ONLY <4>1, Zenon
    <3>2. CASE ~active
      <4>1. p = "initial" /\ c = u.command
        BY <3>2, Zenon
      <4> QED BY <4>1, <2>2, <2>4, Zenon
    <3> QED BY <3>1, <3>2
  <2> HIDE DEF p, u, c
  <2>7. st' \in NpStates /\ st'.at = p /\ st'.command = c
    BY ONLY <2>3, <2>4, <2>5, Zenon DEF NpStates
  <2> QED BY <2>6, <2>7 DEF NpInv, Shows
<1>3. CASE Np_timerEvent
  <2>1. PICK t \in {st, [st EXCEPT !.index = st.way.index]} : st' \in Np_ticked(t, Np_watched(t))
    BY <1>3, Zenon DEF Np_timerEvent, Become
  <2>2. t \in NpStates /\ t.at = st.at /\ t.command = st.command
    <3>1. st.way \in NpWays
      BY <1>0, Zenon DEF NpStates
    <3> DEFINE i == st.way.index
    <3>2. i \in Int
      BY <3>1 DEF NpWays
    <3>3. t = st \/ t = [st EXCEPT !.index = i]
      BY <2>1
    <3> HIDE DEF i
    <3> QED BY ONLY <1>0, <3>2, <3>3, Zenon DEF NpStates
  <2>3. Shows(t)
    BY <2>2, <1>0 DEF Shows
  <2> DEFINE u == [t EXCEPT !.timer = FALSE]
             v == [t EXCEPT !.at = "crashed"]
  <2>4. u \in NpStates /\ u.at = t.at /\ u.command = t.command
    BY <2>2, Zenon DEF NpStates
  <2>5. v \in NpStates /\ v.at = "crashed"
    <3>1. "crashed" \in NpPlaces
      BY DEF NpPlaces
    <3> QED BY ONLY <3>1, <2>2, Zenon DEF NpStates
  <2>6. Shows(u)
    BY <2>3, <2>4 DEF Shows
  <2>7. Np_watched(t) \in GoalKinds /\ t.handle \in NpHandles
    BY <2>2 DEF Np_watched, GoalKinds, NpStates
  <2>8. t.handle[Np_watched(t)] \in {"none", "dead", "live", "shared"}
    BY <2>7 DEF NpHandles
  <2> HIDE DEF u, v
  <2>9. \/ \E w \in {t, u}, active \in BOOLEAN : st' \in Np_event(w, active)
        \/ st' = v
    BY <2>1, <2>8, Zenon DEF Np_ticked, u, v
  <2> QED BY <2>1, <2>2, <2>3, <2>4, <2>5, <2>6, <2>9, <1>c, <1>s, EventIs
<1>4. CASE onCancelButtonPressed
  <2>1. PICK answered \in SUBSET {k \in GoalKinds : st.handle[k] # "none"} :
          st' = [st EXCEPT !.cancel = "asked", !.answered = answered]
    BY <1>4, Zenon DEF onCancelButtonPressed, Become
  <2>2. answered \in NpKinds /\ "asked" \in NpCancels
    BY DEF NpKinds, NpCancels
  <2>3. Alike(st, st')
    BY ONLY <1>0, <2>1, <2>2, Zenon DEF NpStates, Alike
  <2> QED BY <2>3, <1>a
<1>5. CASE Np_cancelled
  <2> DEFINE h == [k \in GoalKinds |-> IF k \in st.answered THEN "none" ELSE st.handle[k]]
             none == {}
  <2>1. st' = [st EXCEPT !.cancel = "no", !.answered = none, !.timer = FALSE, !.handle = h]
    BY <1>5, Zenon DEF Np_cancelled, Become
  <2>2. st.handle \in NpHandles
    BY <1>0, Zenon DEF NpStates
  <2>3. h \in NpHandles /\ none \in NpKinds /\ "no" \in NpCancels
    BY <2>2 DEF NpHandles, NpKinds, NpCancels
  <2> HIDE DEF h, none
  <2> DEFINE u == [st EXCEPT !.cancel = "no", !.answered = none]
  <2>4. Alike(st, u) /\ st' = [u EXCEPT !.timer = FALSE, !.handle = h]
    BY ONLY <1>0, <2>1, <2>3, Zenon DEF NpStates, Alike
  <2> HIDE DEF u
  <2>5. Alike(u, st')
    BY ONLY <2>4, <2>3, Zenon DEF NpStates, Alike
  <2> QED BY <2>4, <2>5, <1>a, Zenon DEF Alike
<1>6. CASE onNewGoal
  <2> DEFINE zero == 0
             n == st.poses + 1
             u == [st EXCEPT !.poses = zero]
  <2>1. st' = [st EXCEPT !.poses = n] \/ st' \in Np_send(u, "nav")
    BY <1>6, Zenon DEF onNewGoal, startNavigation, Become
  <2>2. zero \in Int /\ n \in Int
    BY <1>0 DEF NpStates
  <2> HIDE DEF zero, n
  <2>3. Alike(st, u) /\ Alike(st, [st EXCEPT !.poses = n])
    BY ONLY <1>0, <2>2, Zenon DEF NpStates, Alike
  <2> HIDE DEF u
  <2>4. CASE st' \in Np_send(u, "nav")
    <3>1. "nav" \in GoalKinds
      BY DEF GoalKinds
    <3>2. Alike(u, st')
      BY <2>3, <2>4, <3>1, SentIs DEF Alike
    <3> QED BY <2>3, <3>2, <1>a, Zenon DEF Alike
  <2> QED BY <2>1, <2>3, <2>4, <1>a
<1>7. CASE loophandler
  <2>1. PICK value \in NotANumber .. NpLoops :
          st' = [st EXCEPT !.text = value, !.loop_no = value,
                           !.off = CASE ~isLoopValueValid(value) -> @ \cup {"mode"}
                                     [] value = 0 -> {} [] OTHER -> {"pause"}]
    BY <1>7, Zenon DEF loophandler, Become
  <2> DEFINE off == CASE ~isLoopValueValid(value) -> st.off \cup {"mode"}
                      [] value = 0 -> {} [] OTHER -> {"pause"}
  <2>2. st' = [st EXCEPT !.text = value, !.loop_no = value, !.off = off]
    BY <2>1
  <2>3. value \in Int
    BY PanelsAssumption DEF NotANumber
  <2>4. st.off \in NpButtons
    BY <1>0, Zenon DEF NpStates
  <2>5. off \in NpButtons
    BY <2>4 DEF NpButtons
  <2> HIDE DEF off
  <2>6. Alike(st, st')
    BY ONLY <1>0, <2>2, <2>3, <2>5, Zenon DEF NpStates, Alike
  <2> QED BY <2>6, <1>a
<1>8. CASE initialStateHandler \/ handleGoalLoader
  <2>1. \/ \E b \in BOOLEAN : st' = [st EXCEPT !.initial = b]
        \/ \E n \in Int : st' = [st EXCEPT !.poses = n]
    <3>1. CASE initialStateHandler
      <4>1. st' = [st EXCEPT !.initial = ~st.initial]
        BY <3>1, Zenon DEF initialStateHandler, Become
      <4> QED BY <4>1, Zenon
    <3>2. CASE handleGoalLoader
      <4>1. PICK n \in 0 .. NpPoses : st' = [st EXCEPT !.poses = n]
        BY <3>2, Zenon DEF handleGoalLoader, Become
      <4>2. n \in Int
        BY PanelsAssumption
      <4> QED BY <4>1, <4>2
    <3> QED BY <1>8, <3>1, <3>2
  <2>2. Alike(st, st')
    BY ONLY <1>0, <2>1, ZenonT(60) DEF NpStates, Alike
  <2> QED BY <2>2, <1>a
<1>9. CASE Np_feedback \/ Np_succeeded
  <2>1. CASE st' = [st EXCEPT !.at = "crashed"]
    <3>1. "crashed" \in NpPlaces
      BY DEF NpPlaces
    <3>2. st' \in NpStates /\ st'.at = "crashed"
      BY ONLY <1>0, <2>1, <3>1, Zenon DEF NpStates
    <3> QED BY <3>2, <1>c
  <2>2. ASSUME NEW n \in Int, NEW b \in BOOLEAN, st' = [st EXCEPT !.loop_count = n, !.counted = b]
        PROVE  NpInv'
    <3>1. Alike(st, st')
      BY ONLY <1>0, <2>2, Zenon DEF NpStates, Alike
    <3> QED BY <3>1, <1>a
  <2>3. ASSUME NEW n \in Int, st' = [st EXCEPT !.stored = n, !.loop_no = n, !.loop_count = n]
        PROVE  NpInv'
    <3>1. Alike(st, st')
      BY ONLY <1>0, <2>3, Zenon DEF NpStates, Alike
    <3> QED BY <3>1, <1>a
  <2>4. CASE Np_feedback
    <3> DEFINE n == IF st.index = 0 /\ ~st.counted THEN st.loop_count + 1 ELSE st.loop_count
               b == st.index = 0
    <3>1. n \in Int /\ b \in BOOLEAN
      BY <1>0 DEF NpStates
    <3>2. st' = [st EXCEPT !.at = "crashed"] \/ st' = [st EXCEPT !.loop_count = n, !.counted = b]
      BY <2>4, Zenon DEF Np_feedback, Become
    <3> HIDE DEF n, b
    <3> QED BY <3>1, <3>2, <2>1, <2>2, Zenon
  <2>5. CASE Np_succeeded
    <3>1. st' = [st EXCEPT !.at = "crashed"] \/ st' = [st EXCEPT !.stored = 0, !.loop_no = 0, !.loop_count = 0]
      BY <2>5, Zenon DEF Np_succeeded, Become
    <3>2. 0 \in Int
      OBVIOUS
    <3> QED BY <3>1, <3>2, <2>1, <2>3, Zenon
  <2> QED BY <1>9, <2>4, <2>5
<1>10. CASE Np_goalEnds
  <2>1. PICK k \in GoalKinds : st' = [st EXCEPT !.handle[k] = "dead"]
    BY <1>10, Zenon DEF Np_goalEnds, Become
  <2> DEFINE h == [st.handle EXCEPT ![k] = "dead"]
  <2>2. st.handle \in NpHandles
    BY <1>0, Zenon DEF NpStates
  <2>3. h \in NpHandles /\ st' = [st EXCEPT !.handle = h]
    BY <2>1, <2>2 DEF NpHandles
  <2> HIDE DEF h
  <2>4. Alike(st, st')
    BY ONLY <1>0, <2>3, Zenon DEF NpStates, Alike
  <2> QED BY <2>4, <1>a
<1>11. CASE Np_nextWaypoint
  <2>1. st.way \in NpWays
    BY <1>0, Zenon DEF NpStates
  <2>2. \E w \in NpWays : st' = [st EXCEPT !.way = w]
    <3>1. CASE st' = [st EXCEPT !.way.index = st.way.index + 1]
      <4> DEFINE w == [st.way EXCEPT !.index = st.way.index + 1]
      <4>1. w \in NpWays /\ st' = [st EXCEPT !.way = w]
        BY <2>1, <3>1 DEF NpWays
      <4> QED BY <4>1
    <3>2. CASE st.way.left > 0 /\ st' = [st EXCEPT !.way = [index |-> 0, left |-> st.way.left - 1]]
      <4> DEFINE w == [index |-> 0, left |-> st.way.left - 1]
      <4>1. w \in NpWays /\ st' = [st EXCEPT !.way = w]
        BY <2>1, <3>2 DEF NpWays
      <4> QED BY <4>1
    <3> QED BY <1>11, <3>1, <3>2, Zenon DEF Np_nextWaypoint, Become
  <2>3. Alike(st, st')
    BY ONLY <1>0, <2>2, Zenon DEF NpStates, Alike
  <2> QED BY <2>3, <1>a
<1>12. CASE st' = st
  BY <1>12, <1>0, <1>s
<1> QED BY <1>1, <1>2, <1>3, <1>4, <1>5, <1>6, <1>7, <1>8, <1>9, <1>10, <1>11, <1>12, Zenon DEF Nav2PanelNext

\* What the panel sends and shows.
LEMMA NpFromInv ==
  ASSUME NpInv
  PROVE  /\ st.way.left >= 0
         /\ CASE st.at = "paused" -> st.command = "pause"
              [] st.at \in {"pre_initial", "initial"} -> st.command \in {"none", "reset"}
              [] st.at = "crashed" -> TRUE
              [] OTHER -> st.command \in {"startup", "resume"}
<1>1. st.way \in NpWays
  BY Zenon DEF NpInv, NpStates
<1>2. st.way.left >= 0
  BY <1>1 DEF NpWays
<1> QED BY <1>2 DEF NpInv, Shows

-----------------------------------------------------------------------------
(* The BIM panel *)

\* The members the panel lifts poses with: the floors of the list are the ones with a height, there
\* are none or all of the map's, and the selected floor is one of them.
BpFields ==
  {"at", "model", "floor", "label", "floors", "heights", "loaded", "timer", "asked", "published", "pose",
   "meshes"}
BpInv ==
  /\ DOMAIN st = BpFields
  /\ st.heights = st.floors /\ st.floors \in {{}, FloorNames}
  /\ st.floor = "" \/ st.floor \in st.floors
  /\ st.pose.z # "unknown"

\* A change that leaves what poses are lifted with.
LEMMA BpKept ==
  ASSUME BpInv, DOMAIN st' = BpFields, st'.heights = st.heights, st'.floors = st.floors,
         st'.floor = st.floor, st'.pose = st.pose
  PROVE  BpInv'
BY Zenon DEF BpInv

\* BpInv holds when the panel is created, and every step keeps it: no answer takes a floor away.
LEMMA BpInitInv ==
  ASSUME st \in {Bp_init(""), Bp_init("A")}
  PROVE  BpInv
<1>1. PICK model \in {"", "A"} : st = Bp_init(model)
  BY Zenon
<1> DEFINE l == IF model = "" THEN "none" ELSE "loading"
           b == model # ""
           p == [z |-> "none", of |-> ""]
<1>3. st = [at |-> "panel", model |-> model, floor |-> "", label |-> l, floors |-> {}, heights |-> {},
            loaded |-> FALSE, timer |-> b, asked |-> 0, published |-> "", pose |-> p, meshes |-> "none"]
  BY <1>1, Zenon DEF Bp_init
<1>4. p.z # "unknown"
  BY Zenon
<1> HIDE DEF l, b, p
<1>2. /\ DOMAIN st = BpFields /\ st.heights = {} /\ st.floors = {} /\ st.floor = ""
      /\ st.pose.z # "unknown"
  BY ONLY <1>3, <1>4, ZenonT(40) DEF BpFields
<1> QED BY <1>2, Zenon DEF BpInv

LEMMA BpNextInv ==
  ASSUME BpInv, BimPanelNext \/ st' = st
  PROVE  BpInv'
<1> DEFINE Stays(s) == /\ DOMAIN s = BpFields /\ s.heights = st.heights /\ s.floors = st.floors
                      /\ s.floor = st.floor /\ s.pose = st.pose
<1>0. DOMAIN st = BpFields
  BY Zenon DEF BpInv
<1>a. ASSUME NEW s \in Bp_tryLoadFloors(st) PROVE Stays(s)
  BY <1>0, Zenon DEF Bp_tryLoadFloors, BpFields
<1>1. CASE tryLoadFloors
  <2>1. st' \in Bp_tryLoadFloors(st)
    BY <1>1, Zenon DEF tryLoadFloors, Become
  <2> QED BY <2>1, <1>a, BpKept
<1>2. CASE Bp_answer
  <2>1. PICK names \in {{}, FloorNames} : st' = [Bp_floorsGot(st, names) EXCEPT !.asked = @ - 1]
    BY <1>2, Zenon DEF Bp_answer, Become
  <2>2. CASE names = {}
    <3>1. DOMAIN st' = BpFields /\ st'.heights = st.heights /\ st'.floors = st.floors
          /\ st'.floor = st.floor /\ st'.pose = st.pose
      BY <1>0, <2>1, <2>2 DEF Bp_floorsGot, BpFields
    <3> QED BY <3>1, BpKept
  <2>3. CASE names # {}
    <3>1. DOMAIN st' = BpFields /\ st'.heights = names /\ st'.floors = names
          /\ st'.floor = st.floor /\ st'.pose = st.pose
      BY <1>0, <2>1, <2>3 DEF Bp_floorsGot, BpFields
    <3> QED BY <3>1, <2>3, Zenon DEF BpInv
  <2> QED BY <2>2, <2>3
<1>3. CASE onBimModelsClicked
  <2>1. CASE st' = [st EXCEPT !.model = "", !.floor = "", !.label = "none"]
    <3>1. DOMAIN st' = BpFields /\ st'.heights = st.heights /\ st'.floors = st.floors
          /\ st'.floor = "" /\ st'.pose = st.pose
      BY <1>0, <2>1 DEF BpFields
    <3> QED BY <3>1, Zenon DEF BpInv
  <2>2. ASSUME NEW model \in {"A", "B"}, st' \in searchFloors([st EXCEPT !.model = model, !.label = "none"])
        PROVE  BpInv'
    <3> DEFINE u == [st EXCEPT !.model = model, !.label = "none"]
    <3>1. Stays(u)
      BY <1>0 DEF BpFields
    <3>2. st' = u \/ st' \in Bp_tryLoadFloors(u)
      BY <2>2, Zenon DEF searchFloors
    <3> HIDE DEF u
    <3>3. Stays(st')
      BY <3>1, <3>2, Zenon DEF Bp_tryLoadFloors, BpFields
    <3> QED BY <3>3, BpKept
  <2> QED BY <1>3, <2>1, <2>2, Zenon DEF onBimModelsClicked, Become
<1>4. CASE onFloorsClicked
  <2>1. PICK f \in st.floors \cup {"None"} : \E s \in displayIfcElements(st) :
          st' = [s EXCEPT !.floor = IF f = "None" THEN "" ELSE f, !.published = f,
                          !.label = IF f = "None" THEN "none" ELSE "selected"]
    BY <1>4, Zenon DEF onFloorsClicked, Become
  <2>2. PICK s \in displayIfcElements(st) :
          st' = [s EXCEPT !.floor = IF f = "None" THEN "" ELSE f, !.published = f,
                          !.label = IF f = "None" THEN "none" ELSE "selected"]
    BY <2>1, Zenon
  <2>3. Stays(s)
    BY <1>0, Zenon DEF displayIfcElements, BpFields
  <2>4. DOMAIN st' = BpFields /\ st'.heights = st.heights /\ st'.floors = st.floors
          /\ (st'.floor = "" \/ st'.floor \in st.floors) /\ st'.pose = st.pose
    BY <2>2, <2>3, Zenon DEF BpFields
  <2> QED BY <2>4, Zenon DEF BpInv
<1>5. CASE goalPoseCallback
  <2> DEFINE p == Bp_lifted(st)
  <2>1. st' = [st EXCEPT !.pose = p]
    BY <1>5, Zenon DEF goalPoseCallback, startPoseCallback, Become
  <2>2. p.z # "unknown"
    BY Zenon DEF BpInv, Bp_lifted
  <2> HIDE DEF p
  <2>3. DOMAIN st' = BpFields /\ st'.heights = st.heights /\ st'.floors = st.floors
          /\ st'.floor = st.floor /\ st'.pose = p
    BY <1>0, <2>1 DEF BpFields
  <2> QED BY <2>2, <2>3, Zenon DEF BpInv
<1>6. CASE st' = st
  BY <1>6, Zenon DEF BpInv
<1> QED BY <1>1, <1>2, <1>3, <1>4, <1>5, <1>6, Zenon DEF BimPanelNext

-----------------------------------------------------------------------------
(* The topological map panel *)

\* What is drawn is what createInteractiveMarkers gives for the selection, unless a redraw is
\* queued.
TmFields ==
  {"at", "nodes", "edges", "floor", "hidden", "map", "pruned", "redraw", "markers", "prunedMarkers"}
TmInv ==
  /\ DOMAIN st = TmFields /\ st = [f \in TmFields |-> st[f]]
  /\ st.redraw \/ st.markers = createInteractiveMarkers(st)
  /\ st.prunedMarkers = createPrunedInteractiveMarkers(st)

\* The markers depend on the map and the selection only.
SameSelection(s, t) == t.nodes = s.nodes /\ t.edges = s.edges /\ t.floor = s.floor
LEMMA MarkersOfSelection ==
  ASSUME NEW s, NEW t, SameSelection(s, t)
  PROVE  /\ t.map = s.map /\ t.hidden = s.hidden =>
              createInteractiveMarkers(t) = createInteractiveMarkers(s)
         /\ t.pruned = s.pruned =>
              createPrunedInteractiveMarkers(t) = createPrunedInteractiveMarkers(s)
<1>1. t.nodes = s.nodes /\ t.edges = s.edges /\ t.floor = s.floor
  BY DEF SameSelection
<1>2. \A n : Tm_nodeOnFloor(t, n) <=> Tm_nodeOnFloor(s, n)
  BY <1>1 DEF Tm_nodeOnFloor
<1>3. \A e : Tm_edgeOnFloor(t, e) <=> Tm_edgeOnFloor(s, e)
  BY <1>1 DEF Tm_edgeOnFloor
<1> DEFINE N(u) == {m \in TopoNodes :
                      Tm_nodeOnFloor(u, m) /\ Tm_type(m) \in u.nodes /\ createNodeMarker(m) \notin u.hidden}
           E(u) == {f \in TopoEdges :
                      Tm_edgeOnFloor(u, f) /\ f.type \in u.edges /\ <<f.type, "edge", f.id>> \notin u.hidden}
           M(u) == {m \in TopoNodes : Tm_nodeOnFloor(u, m) /\ Tm_type(m) \in u.nodes}
           F(u) == {f \in TopoEdges : Tm_edgeOnFloor(u, f) /\ f.type \in u.edges}
<1>4. M(t) = M(s) /\ (t.hidden = s.hidden => N(t) = N(s))
  BY <1>1, <1>2
<1>5. F(t) = F(s) /\ (t.hidden = s.hidden => E(t) = E(s))
  BY <1>1, <1>3
<1>6. ASSUME NEW u
      PROVE  createInteractiveMarkers(u) =
               IF ~u.map THEN {} ELSE {createNodeMarker(n) : n \in N(u)} \cup {createEdgeMarker(e) : e \in E(u)}
  BY Zenon DEF createInteractiveMarkers
<1>7. ASSUME NEW u
      PROVE  createPrunedInteractiveMarkers(u) =
               IF ~u.pruned THEN {} ELSE {createNodeMarker(n) : n \in M(u)} \cup {createEdgeMarker(e) : e \in F(u)}
  BY Zenon DEF createPrunedInteractiveMarkers
<1> HIDE DEF N, E, M, F
<1>8. t.map = s.map /\ t.hidden = s.hidden => createInteractiveMarkers(t) = createInteractiveMarkers(s)
  BY ONLY <1>4, <1>5, <1>6, Zenon
<1>9. t.pruned = s.pruned => createPrunedInteractiveMarkers(t) = createPrunedInteractiveMarkers(s)
  BY ONLY <1>4, <1>5, <1>7, Zenon
<1> QED BY <1>8, <1>9

\* TmInv holds when the panel is created, and every step keeps it: what changes the map or the
\* selection draws anew or queues a redraw.
LEMMA TmInitInv == st = Tm_init => TmInv
<1> SUFFICES ASSUME st = Tm_init PROVE TmInv
  OBVIOUS
<1>1. DOMAIN st = TmFields /\ st = [f \in TmFields |-> st[f]] /\ st.map = FALSE /\ st.pruned = FALSE
      /\ st.markers = {} /\ st.prunedMarkers = {}
  BY Zenon DEF Tm_init, TmFields
<1> QED BY <1>1, Zenon DEF TmInv, createInteractiveMarkers, createPrunedInteractiveMarkers

\* Drawing.
LEMMA DrawnIs ==
  ASSUME NEW s, DOMAIN s = TmFields, st' = Tm_drawn(s)
  PROVE  TmInv'
<1> DEFINE a == createInteractiveMarkers(s)
           b == createPrunedInteractiveMarkers(s)
<1>1. st' = [s EXCEPT !.markers = a, !.prunedMarkers = b]
  BY Zenon DEF Tm_drawn
<1>2. DOMAIN st' = TmFields /\ st' = [f \in TmFields |-> st'[f]]
  BY <1>1, Zenon DEF TmFields
<1> HIDE DEF a, b
<1>3. /\ SameSelection(s, st') /\ st'.map = s.map /\ st'.hidden = s.hidden /\ st'.pruned = s.pruned
      /\ st'.markers = a /\ st'.prunedMarkers = b
  BY ONLY <1>1, DOMAIN s = TmFields DEF TmFields, SameSelection
<1>4. createInteractiveMarkers(st') = a /\ createPrunedInteractiveMarkers(st') = b
  BY <1>3, MarkersOfSelection DEF a, b
<1> QED BY <1>2, <1>3, <1>4 DEF TmInv

LEMMA TmNextInv ==
  ASSUME TmInv, TopomapPanelNext \/ st' = st
  PROVE  TmInv'
<1>0. DOMAIN st = TmFields /\ st = [f \in TmFields |-> st[f]]
  BY DEF TmInv
<1>1. CASE Tm_nodesToggled
  <2>1. PICK k \in NodeKinds : st' = Tm_drawn([st EXCEPT !.nodes = (@ \cup {k}) \ (@ \cap {k})])
    BY <1>1, Zenon DEF Tm_nodesToggled, Become
  <2>2. DOMAIN [st EXCEPT !.nodes = (@ \cup {k}) \ (@ \cap {k})] = TmFields
    BY <1>0
  <2> QED BY <2>1, <2>2, DrawnIs
<1>2. CASE Tm_edgesToggled
  <2>1. PICK k \in NodeKinds : st' = Tm_drawn([st EXCEPT !.edges = (@ \cup {k}) \ (@ \cap {k})])
    BY <1>2, Zenon DEF Tm_edgesToggled, Become
  <2>2. DOMAIN [st EXCEPT !.edges = (@ \cup {k}) \ (@ \cap {k})] = TmFields
    BY <1>0
  <2> QED BY <2>1, <2>2, DrawnIs
<1>3. CASE Tm_floorSelected
  <2>1. PICK f \in FloorNames \cup {"None"} : st' = Tm_drawn([st EXCEPT !.floor = f])
    BY <1>3, Zenon DEF Tm_floorSelected, Become
  <2>2. DOMAIN [st EXCEPT !.floor = f] = TmFields
    BY <1>0
  <2> QED BY <2>1, <2>2, DrawnIs
<1>4. CASE Tm_prunedReceived
  <2> DEFINE s == [st EXCEPT !.pruned = TRUE]
             b == createPrunedInteractiveMarkers(s)
  <2>1. st' = [s EXCEPT !.prunedMarkers = b]
    BY <1>4, Zenon DEF Tm_prunedReceived, Become
  <2> HIDE DEF b
  <2>2. /\ DOMAIN st' = TmFields /\ st' = [f \in TmFields |-> st'[f]]
        /\ SameSelection(s, st') /\ st'.pruned = s.pruned /\ st'.prunedMarkers = b
        /\ st'.redraw = st.redraw /\ st'.markers = st.markers
        /\ SameSelection(st, st') /\ st'.hidden = st.hidden /\ st'.map = st.map
    BY ONLY <1>0, <2>1, Zenon DEF TmFields, SameSelection
  <2>3. createPrunedInteractiveMarkers(st') = b /\ createInteractiveMarkers(st') = createInteractiveMarkers(st)
    BY <2>2, MarkersOfSelection, Zenon DEF b
  <2> QED BY <2>2, <2>3 DEF TmInv
<1>5. CASE loadTopologicalMap
  <2>1. st' = [st EXCEPT !.map = TRUE, !.redraw = TRUE]
    BY <1>5, Zenon DEF loadTopologicalMap, Become
  <2>2. /\ DOMAIN st' = TmFields /\ st' = [f \in TmFields |-> st'[f]] /\ st'.redraw = TRUE
        /\ SameSelection(st, st') /\ st'.pruned = st.pruned /\ st'.prunedMarkers = st.prunedMarkers
    BY ONLY <1>0, <2>1, Zenon DEF TmFields, SameSelection
  <2>3. createPrunedInteractiveMarkers(st') = createPrunedInteractiveMarkers(st)
    BY <2>2, MarkersOfSelection
  <2> QED BY <2>2, <2>3 DEF TmInv
<1>6. CASE Tm_redrawn
  <2> DEFINE a == createInteractiveMarkers(st)
  <2>1. st' = [st EXCEPT !.redraw = FALSE, !.markers = a]
    BY <1>6, Zenon DEF Tm_redrawn, Become
  <2> HIDE DEF a
  <2>2. /\ DOMAIN st' = TmFields /\ st' = [f \in TmFields |-> st'[f]] /\ st'.markers = a
        /\ SameSelection(st, st') /\ st'.map = st.map /\ st'.hidden = st.hidden
        /\ st'.pruned = st.pruned /\ st'.prunedMarkers = st.prunedMarkers
    BY ONLY <1>0, <2>1, Zenon DEF TmFields, SameSelection
  <2>3. /\ createInteractiveMarkers(st') = a
        /\ createPrunedInteractiveMarkers(st') = createPrunedInteractiveMarkers(st)
    BY <2>2, MarkersOfSelection DEF a
  <2> QED BY <2>2, <2>3 DEF TmInv
<1>7. CASE processFeedback
  <2>1. PICK name \in st.markers \cup st.prunedMarkers : st' = Tm_drawn([st EXCEPT !.hidden = @ \cup {name}])
    BY <1>7, Zenon DEF processFeedback, Become
  <2>2. DOMAIN [st EXCEPT !.hidden = @ \cup {name}] = TmFields
    BY <1>0
  <2> QED BY <2>1, <2>2, DrawnIs
<1>8. CASE st' = st
  BY <1>8, Zenon DEF TmInv
<1> QED BY <1>1, <1>2, <1>3, <1>4, <1>5, <1>6, <1>7, <1>8, Zenon DEF TopomapPanelNext

\* What is drawn without a queued redraw is what drawing would give.
LEMMA TmFromInv ==
  ASSUME TmInv, ~st.redraw
  PROVE  st = Tm_drawn(st)
<1> DEFINE a == createInteractiveMarkers(st)
           b == createPrunedInteractiveMarkers(st)
<1>1. DOMAIN st = TmFields /\ st = [f \in TmFields |-> st[f]] /\ st.markers = a /\ st.prunedMarkers = b
  BY DEF TmInv
<1> HIDE DEF a, b
<1>2. st = [st EXCEPT !.markers = a, !.prunedMarkers = b]
  BY ONLY <1>1, Zenon
<1> QED BY <1>2, Zenon DEF Tm_drawn, a, b

-----------------------------------------------------------------------------
(* The markers of the building's elements *)

\* Every element has a marker of its own, which carries its name, is drawn if the element is visible
\* and then as transparent as the element.
ElFields == {"at", "markers", "elements", "menu", "told"}
ElEntryFields == {"marker", "visible", "alpha"}
ElMarkerFields == {"guid", "drawn", "alpha"}
Matches(m, e, g) == m.guid = g /\ m.drawn = e.visible /\ (m.drawn => m.alpha = e.alpha)
ElGood(markers, elements) ==
  \A g \in DOMAIN elements :
    /\ DOMAIN elements[g] = ElEntryFields /\ elements[g].visible \in BOOLEAN
    /\ elements[g].marker \in DOMAIN markers
    /\ DOMAIN markers[elements[g].marker] = ElMarkerFields
    /\ Matches(markers[elements[g].marker], elements[g], g)
ElInv == DOMAIN st = ElFields /\ ElGood(st.markers, st.elements)

\* ElInv holds when the panel is created.
LEMMA ElInitInv == st = El_init => ElInv
<1> SUFFICES ASSUME st = El_init PROVE ElInv
  OBVIOUS
<1>1. DOMAIN st = ElFields /\ DOMAIN st.elements = {}
  BY DEF El_init, ElFields
<1> QED BY <1>1 DEF ElInv, ElGood

\* A change of one element that its marker follows keeps the others: no two have the same marker.
LEMMA ElementUpdated ==
  ASSUME NEW markers, NEW elements, ElGood(markers, elements), NEW g \in DOMAIN elements,
         NEW e, DOMAIN e = ElEntryFields, e.marker = elements[g].marker, e.visible \in BOOLEAN,
         NEW m, DOMAIN m = ElMarkerFields, Matches(m, e, g)
  PROVE  ElGood([markers EXCEPT ![e.marker] = m], [elements EXCEPT ![g] = e])
<1> DEFINE ms == [markers EXCEPT ![e.marker] = m]
           es == [elements EXCEPT ![g] = e]
<1>1. DOMAIN ms = DOMAIN markers /\ DOMAIN es = DOMAIN elements
  OBVIOUS
<1>2. e.marker \in DOMAIN markers /\ markers[e.marker].guid = g
  BY DEF ElGood, Matches
<1>3. es[g] = e /\ ms[e.marker] = m
  BY <1>2
<1>4. ASSUME NEW h \in DOMAIN elements, h # g
      PROVE  es[h] = elements[h] /\ ms[elements[h].marker] = markers[elements[h].marker]
             /\ elements[h].marker \in DOMAIN markers
  <2>1. elements[h].marker \in DOMAIN markers /\ markers[elements[h].marker].guid = h
    BY DEF ElGood, Matches
  <2>2. elements[h].marker # e.marker
    BY <2>1, <1>2, <1>4
  <2> QED BY <2>1, <2>2, <1>4
<1> HIDE DEF ms, es
<1>5. ElGood(ms, es)
  <2> SUFFICES ASSUME NEW h \in DOMAIN elements
               PROVE  /\ DOMAIN es[h] = ElEntryFields /\ es[h].visible \in BOOLEAN
                      /\ es[h].marker \in DOMAIN markers
                      /\ DOMAIN ms[es[h].marker] = ElMarkerFields
                      /\ Matches(ms[es[h].marker], es[h], h)
    BY <1>1 DEF ElGood
  <2>1. CASE h = g
    BY <2>1, <1>2, <1>3
  <2>2. CASE h # g
    BY <2>2, <1>4, ZenonT(60) DEF ElGood
  <2> QED BY <2>1, <2>2
<1> QED BY <1>5 DEF ms, es

\* An element's marker follows its state.
LEMMA DisplayUpdated ==
  ASSUME NEW s, DOMAIN s = ElFields, ElGood(s.markers, s.elements), NEW g \in DOMAIN s.elements,
         NEW e, DOMAIN e = ElEntryFields, e.marker = s.elements[g].marker, e.visible \in BOOLEAN,
         st' = updateElementDisplay([s EXCEPT !.elements[g] = e], g)
  PROVE  ElInv'
<1> DEFINE es == [s.elements EXCEPT ![g] = e]
           m0 == s.markers[e.marker]
           m == [m0 EXCEPT !.drawn = e.visible, !.alpha = IF e.visible THEN e.alpha ELSE m0.alpha]
           ms == [s.markers EXCEPT ![e.marker] = m]
           u == [s EXCEPT !.elements = es]
<1>1. u.elements = es /\ u.markers = s.markers /\ es[g] = e /\ DOMAIN u = ElFields
  BY DEF ElFields
<1>2. st' = [u EXCEPT !.markers[e.marker] = m]
  <2>1. [s EXCEPT !.elements[g] = e] = u
    OBVIOUS
  <2>2. updateElementDisplay(u, g) =
          [u EXCEPT !.markers[u.elements[g].marker] =
             [u.markers[u.elements[g].marker] EXCEPT !.drawn = u.elements[g].visible,
                !.alpha = IF u.elements[g].visible THEN u.elements[g].alpha
                          ELSE u.markers[u.elements[g].marker].alpha]]
    BY Zenon DEF updateElementDisplay
  <2>3. u.elements[g] = e /\ u.markers = s.markers
    BY <1>1
  <2> HIDE DEF u
  <2> QED BY <2>1, <2>2, <2>3, Zenon
<1>3. DOMAIN st' = ElFields /\ st'.markers = ms /\ st'.elements = es
  BY <1>1, <1>2, Zenon DEF ElFields
<1>4. DOMAIN m0 = ElMarkerFields /\ m0.guid = g
  BY DEF ElGood, Matches
<1>5. DOMAIN m = ElMarkerFields /\ Matches(m, e, g)
  BY <1>4, Zenon DEF ElMarkerFields, Matches
<1> HIDE DEF m
<1>6. ElGood(ms, es)
  BY <1>5, ElementUpdated
<1> QED BY <1>3, <1>6 DEF ElInv

\* Showing another list of files gives every element its marker.
LEMMA ElementsDisplayed ==
  ASSUME NEW files
  PROVE  ElGood([i \in DOMAIN files |-> createInteractiveMarker(files[i])],
                [g \in Guids(files) |->
                   [marker |-> CHOOSE i \in DOMAIN files : files[i] = g, visible |-> TRUE, alpha |-> 2]])
<1> DEFINE ms == [i \in DOMAIN files |-> createInteractiveMarker(files[i])]
           es == [g \in Guids(files) |->
                    [marker |-> CHOOSE i \in DOMAIN files : files[i] = g, visible |-> TRUE, alpha |-> 2]]
<1>1. SUFFICES ASSUME NEW g \in Guids(files)
               PROVE  /\ DOMAIN es[g] = ElEntryFields /\ es[g].visible \in BOOLEAN
                      /\ es[g].marker \in DOMAIN ms
                      /\ DOMAIN ms[es[g].marker] = ElMarkerFields
                      /\ Matches(ms[es[g].marker], es[g], g)
  BY DEF ElGood
<1> DEFINE k == CHOOSE i \in DOMAIN files : files[i] = g
<1>2. \E i \in DOMAIN files : files[i] = g
  BY DEF Guids
<1>3. k \in DOMAIN files /\ files[k] = g
  BY <1>2, Zenon
<1>4. es[g] = [marker |-> k, visible |-> TRUE, alpha |-> 2]
  BY Zenon
<1>5. ms[k] = [guid |-> g, drawn |-> TRUE, alpha |-> 2] /\ DOMAIN ms = DOMAIN files
  <2> HIDE DEF k
  <2>1. ms[k] = createInteractiveMarker(files[k]) /\ DOMAIN ms = DOMAIN files
    BY <1>3, Zenon
  <2> QED BY <1>3, <2>1, Zenon DEF createInteractiveMarker
<1> HIDE DEF k, es, ms
<1>6. DOMAIN es[g] = ElEntryFields /\ es[g].visible = TRUE /\ es[g].marker = k /\ es[g].alpha = 2
  BY ONLY <1>4 DEF ElEntryFields
<1>7. DOMAIN ms[k] = ElMarkerFields /\ ms[k].guid = g /\ ms[k].drawn = TRUE /\ ms[k].alpha = 2
  BY ONLY <1>5 DEF ElMarkerFields
<1> QED BY ONLY <1>3, <1>5, <1>6, <1>7, Zenon DEF Matches

\* Every step keeps ElInv.
LEMMA ElNextInv ==
  ASSUME ElInv, IfcElementsNext \/ st' = st
  PROVE  ElInv'
<1>0. DOMAIN st = ElFields /\ ElGood(st.markers, st.elements)
  BY DEF ElInv
<1>1. ASSUME DOMAIN st' = ElFields, st'.markers = st.markers, st'.elements = st.elements PROVE ElInv'
  BY <1>0, <1>1 DEF ElInv
<1>2. CASE displayElements
  <2>1. PICK files \in ElementFiles :
          st' = [st EXCEPT
            !.markers = [i \in DOMAIN files |-> createInteractiveMarker(files[i])],
            !.elements = [g \in Guids(files) |->
              [marker |-> CHOOSE i \in DOMAIN files : files[i] = g, visible |-> TRUE, alpha |-> 2]]]
    BY <1>2, Zenon DEF displayElements, Become
  <2> DEFINE ms == [i \in DOMAIN files |-> createInteractiveMarker(files[i])]
             es == [g \in Guids(files) |->
                     [marker |-> CHOOSE i \in DOMAIN files : files[i] = g, visible |-> TRUE, alpha |-> 2]]
  <2>2. st' = [st EXCEPT !.markers = ms, !.elements = es]
    BY <2>1, Zenon
  <2>3. ElGood(ms, es)
    BY ElementsDisplayed, Zenon
  <2> HIDE DEF ms, es
  <2>4. DOMAIN st' = ElFields /\ st'.markers = ms /\ st'.elements = es
    BY ONLY <1>0, <2>2 DEF ElFields
  <2> QED BY <2>3, <2>4 DEF ElInv
<1>3. CASE El_menuClicked
  <2>1. \E menu : st' = [st EXCEPT !.menu = menu]
    BY <1>3, Zenon DEF El_menuClicked, Become
  <2> QED BY <1>0, <1>1, <2>1 DEF ElFields
<1>4. CASE onElementMenuSelect
  <2> DEFINE s == [st EXCEPT !.menu = <<>>]
             guid == st.markers[st.menu[1]].guid
  <2>1. DOMAIN s = ElFields /\ s.markers = st.markers /\ s.elements = st.elements
    BY <1>0 DEF ElFields
  <2>2. \/ st' = s \/ st' = setElementTransparency(s, guid, 1) \/ st' = setElementVisibility(s, guid, FALSE)
        \/ st' \in displayIfcInfo(s, guid)
    BY <1>4, Zenon DEF onElementMenuSelect, Become
  <2> HIDE DEF s, guid
  <2>3. CASE st' = s
    BY <2>1, <2>3, <1>1
  <2>4. CASE st' \in displayIfcInfo(s, guid)
    <3>1. \E t : st' = [s EXCEPT !.told = t]
      BY <2>4, Zenon DEF displayIfcInfo
    <3> QED BY <2>1, <3>1, <1>1 DEF ElFields
  <2>5. ASSUME guid \in DOMAIN s.elements, NEW e, DOMAIN e = ElEntryFields, e.marker = s.elements[guid].marker,
               e.visible \in BOOLEAN, st' = updateElementDisplay([s EXCEPT !.elements[guid] = e], guid)
        PROVE  ElInv'
    BY <1>0, <2>1, <2>5, DisplayUpdated
  <2>6. ASSUME guid \in DOMAIN s.elements
        PROVE  DOMAIN s.elements[guid] = ElEntryFields /\ s.elements[guid].visible \in BOOLEAN
    BY <1>0, <2>1, <2>6 DEF ElGood
  <2>7. CASE st' = setElementTransparency(s, guid, 1) /\ guid \in DOMAIN s.elements
    <3> DEFINE e == [s.elements[guid] EXCEPT !.alpha = 1]
    <3>1. DOMAIN e = ElEntryFields /\ e.marker = s.elements[guid].marker /\ e.visible \in BOOLEAN
      BY <2>6, <2>7 DEF ElEntryFields
    <3>2. st' = updateElementDisplay([s EXCEPT !.elements[guid] = e], guid)
      BY <2>7 DEF setElementTransparency
    <3> HIDE DEF e
    <3> QED BY <2>5, <2>7, <3>1, <3>2
  <2>8. CASE st' = setElementVisibility(s, guid, FALSE) /\ guid \in DOMAIN s.elements
    <3> DEFINE e == [s.elements[guid] EXCEPT !.visible = FALSE]
    <3>1. DOMAIN e = ElEntryFields /\ e.marker = s.elements[guid].marker /\ e.visible \in BOOLEAN
      BY <2>6, <2>8 DEF ElEntryFields
    <3>2. st' = updateElementDisplay([s EXCEPT !.elements[guid] = e], guid)
      BY <2>8 DEF setElementVisibility
    <3> HIDE DEF e
    <3> QED BY <2>5, <2>8, <3>1, <3>2, Zenon
  <2>9. CASE guid \notin DOMAIN s.elements
    BY <2>2, <2>3, <2>4, <2>9, Zenon DEF setElementTransparency, setElementVisibility
  <2> QED BY <2>2, <2>3, <2>4, <2>7, <2>8, <2>9, Zenon
<1>5. CASE st' = st
  BY <1>5, <1>0, <1>1
<1> QED BY <1>2, <1>3, <1>4, <1>5, Zenon DEF IfcElementsNext

-----------------------------------------------------------------------------
(* The commander *)

\* The goals and the one future: it is of the last goal that was taken, and a task that was said to
\* be complete has ended as the status tells.
CoServers ==
  {"none", "navigate_through_poses", "navigate_to_pose", "follow_waypoints", "follow_gps_waypoints", "spin",
   "backup", "drive_on_heading", "assisted_teleop", "follow_path", "dock_robot", "undock_robot",
   "compute_path_to_pose", "compute_path_through_poses", "smooth_path"}
CoStatus == CoEnds \cup {"none", "rejected"}
CoWords ==
  CoEnds \cup {"nothing", "accepted", "rejected", "cancelled", "complete", "running", "UNKNOWN", "path",
              "no path"}
CoGoal == [server : CoServers, ok : BOOLEAN, end : CoStatus]
CoStates ==
  [at : {"user"}, goals : Seq(CoGoal), handle : Nat, future : Nat, status : CoStatus, cancels : SUBSET Nat,
   said : CoWords, task : Nat]
LastTaken(goals, future) ==
  future <= Len(goals) /\ \A g \in 1 .. Len(goals) : goals[g].ok => g <= future
CoInv ==
  /\ st \in CoStates /\ LastTaken(st.goals, st.future)
  /\ st.said = "complete" /\ st.future # 0 => st.goals[st.future].end = st.status

\* A step after which nothing is said to be complete.
LEMMA CoSaid ==
  ASSUME st' \in CoStates, LastTaken(st'.goals, st'.future), st'.said # "complete"
  PROVE  CoInv'
BY DEF CoInv

\* CoInv holds when the navigator is created.
LEMMA CoInitInv == st = commanderInit => CoInv
<1> SUFFICES ASSUME st = commanderInit PROVE CoInv
  OBVIOUS
<1> DEFINE none == <<>>
           zero == 0
           no == {}
<1>1. none \in Seq(CoGoal) /\ zero \in Nat /\ no \in SUBSET Nat /\ LastTaken(none, zero)
  BY DEF LastTaken
<1>2. st = [at |-> "user", goals |-> none, handle |-> zero, future |-> zero, status |-> "none",
            cancels |-> no, said |-> "nothing", task |-> zero]
  BY Zenon DEF commanderInit
<1> HIDE DEF none, zero, no
<1>3. st \in CoStates /\ st.goals = none /\ st.future = zero /\ st.said = "nothing"
  <2>1. "none" \in CoStatus /\ "nothing" \in CoWords /\ "user" \in {"user"}
    BY DEF CoStatus, CoWords
  <2> QED BY ONLY <1>1, <1>2, <2>1, Zenon DEF CoStates
<1> QED BY <1>1, <1>3 DEF CoInv

\* Sending a goal: it is the last, and the future is its if it was taken.
LEMMA CoSentIs ==
  ASSUME st \in CoStates, LastTaken(st.goals, st.future), NEW server \in CoServers, NEW ok \in BOOLEAN
  PROVE  /\ Co_sent(st, server, ok) \in CoStates
         /\ LastTaken(Co_sent(st, server, ok).goals, Co_sent(st, server, ok).future)
         /\ Co_sent(st, server, ok).said \in {"accepted", "rejected"}
         /\ Len(Co_sent(st, server, ok).goals) > 0
<1>0. /\ st.goals \in Seq(CoGoal) /\ st.future \in Nat /\ st.task \in Nat
  BY DEF CoStates
<1> DEFINE n == Len(st.goals) + 1
           h(goal) == IF ok /\ goal.server = server /\ goal.end = "none" THEN Co_ended(goal, "ABORTED") ELSE goal
           p == [i \in DOMAIN st.goals |-> h(st.goals[i])]
           new == Co_goal(server, ok)
           gs == Append(p, new)
           f == IF ok THEN n ELSE st.future
           t == IF ok THEN n ELSE st.task
           w == IF ok THEN "accepted" ELSE "rejected"
           r == Co_sent(st, server, ok)
<1>1. r = [st EXCEPT !.goals = gs, !.handle = n, !.future = f, !.task = t, !.said = w]
  BY Zenon DEF Co_sent
<1>2. n \in Nat /\ n > 0 /\ f \in Nat /\ t \in Nat /\ w \in CoWords /\ w \in {"accepted", "rejected"}
  BY <1>0 DEF CoWords
<1>3. ASSUME NEW goal \in CoGoal PROVE h(goal) \in CoGoal /\ h(goal).ok = goal.ok
  <2>1. CASE h(goal) = goal
    BY <2>1
  <2>2. CASE h(goal) = Co_ended(goal, "ABORTED")
    <3>1. "none" \in CoServers /\ "ABORTED" \in CoStatus
      BY DEF CoServers, CoStatus, CoEnds
    <3>2. h(goal) = [goal EXCEPT !.server = "none", !.end = "ABORTED"]
      BY <2>2, Zenon DEF Co_ended
    <3> HIDE DEF h
    <3> QED BY ONLY <3>1, <3>2, goal \in CoGoal, Zenon DEF CoGoal
  <2> QED BY <2>1, <2>2
<1>4. new \in CoGoal /\ new.ok = ok
  <2> DEFINE sv == IF ok THEN server ELSE "none"
             en == IF ok THEN "none" ELSE "rejected"
  <2>1. new = [server |-> sv, ok |-> ok, end |-> en]
    BY Zenon DEF Co_goal
  <2>2. sv \in CoServers /\ en \in CoStatus
    BY DEF CoServers, CoStatus
  <2> HIDE DEF sv, en, new
  <2> QED BY ONLY <2>1, <2>2, ok \in BOOLEAN DEF CoGoal
<1> HIDE DEF h, new
<1>5. p \in Seq(CoGoal) /\ Len(p) = Len(st.goals) /\ \A i \in 1 .. Len(st.goals) : p[i].ok = st.goals[i].ok
  <2>1. \A i \in 1 .. Len(st.goals) : st.goals[i] \in CoGoal
    BY <1>0
  <2>2. DOMAIN st.goals = 1 .. Len(st.goals) /\ Len(st.goals) \in Nat
    BY <1>0
  <2>3. p = [i \in 1 .. Len(st.goals) |-> h(st.goals[i])]
    BY <2>2
  <2> QED BY <1>3, <2>1, <2>2, <2>3
<1> HIDE DEF p
<1>6. gs \in Seq(CoGoal) /\ Len(gs) = n /\ gs[n] = new /\ \A i \in 1 .. Len(st.goals) : gs[i] = p[i]
  BY <1>4, <1>5
<1> HIDE DEF gs
<1>7. LastTaken(gs, f)
  <2>1. \A i \in 1 .. n : i = n \/ i \in 1 .. Len(st.goals)
    BY <1>0
  <2>2. f <= n
    BY <1>0 DEF LastTaken
  <2>3. ASSUME NEW i \in 1 .. n, gs[i].ok PROVE i <= f
    <3>1. CASE ok
      BY <3>1, <1>0
    <3>2. CASE ~ok
      <4>1. i # n
        BY <1>4, <1>6, <2>3, <3>2
      <4>2. i \in 1 .. Len(st.goals)
        BY <2>1, <4>1
      <4>3. st.goals[i].ok
        BY <4>2, <1>5, <1>6, <2>3
      <4> QED BY <3>2, <4>2, <4>3 DEF LastTaken
    <3> QED BY <3>1, <3>2
  <2> QED BY <1>6, <2>2, <2>3 DEF LastTaken
<1> HIDE DEF n, f, t, w, r
<1> DEFINE u == [st EXCEPT !.goals = gs, !.handle = n, !.future = f]
<1>8. u \in CoStates /\ u.goals = gs /\ u.future = f
  BY ONLY st \in CoStates, <1>2, <1>6, Zenon DEF CoStates
<1>9. r = [u EXCEPT !.task = t, !.said = w]
  BY <1>1, Zenon
<1> HIDE DEF u
<1>10. r \in CoStates /\ r.goals = gs /\ r.future = f /\ r.said = w
  BY ONLY <1>2, <1>8, <1>9, Zenon DEF CoStates
<1>11. Len(r.goals) > 0
  BY <1>2, <1>6, <1>10
<1> QED BY <1>2, <1>7, <1>10, <1>11 DEF r

\* The end of a goal.
LEMMA CoEnded ==
  ASSUME NEW s, s \in CoStates, LastTaken(s.goals, s.future), NEW g \in 1 .. Len(s.goals), NEW end \in CoEnds
  PROVE  /\ [s EXCEPT !.goals[g] = Co_ended(@, end)] \in CoStates
         /\ [s EXCEPT !.goals[g] = Co_ended(@, end)].future = s.future
         /\ LastTaken([s EXCEPT !.goals[g] = Co_ended(@, end)].goals, s.future)
<1>0. s.goals \in Seq(CoGoal) /\ s.goals[g] \in CoGoal
  BY DEF CoStates
<1> DEFINE e == Co_ended(s.goals[g], end)
           gs == [s.goals EXCEPT ![g] = e]
           r == [s EXCEPT !.goals[g] = Co_ended(@, end)]
<1>1. e \in CoGoal /\ e.ok = s.goals[g].ok
  <2>1. "none" \in CoServers /\ end \in CoStatus
    BY DEF CoServers, CoStatus
  <2>2. e = [s.goals[g] EXCEPT !.server = "none", !.end = end]
    BY Zenon DEF Co_ended
  <2> HIDE DEF e
  <2> QED BY ONLY <1>0, <2>1, <2>2, Zenon DEF CoGoal
<1>2. r = [s EXCEPT !.goals = gs]
  OBVIOUS
<1> HIDE DEF e, r
<1>3. gs \in Seq(CoGoal) /\ Len(gs) = Len(s.goals) /\ \A i \in 1 .. Len(s.goals) : gs[i].ok = s.goals[i].ok
  BY <1>0, <1>1
<1> HIDE DEF gs
<1>4. LastTaken(gs, s.future)
  BY <1>3, Zenon DEF LastTaken
<1>5. r \in CoStates /\ r.goals = gs /\ r.future = s.future
  BY ONLY s \in CoStates, <1>2, <1>3, Zenon DEF CoStates
<1> QED BY <1>4, <1>5 DEF r

\* A request for a path: sent, and ended in the same call.
LEMMA CoAskedIs ==
  ASSUME st \in CoStates, LastTaken(st.goals, st.future), NEW server \in CoServers, NEW ok \in BOOLEAN,
         NEW end \in CoEnds, st' = Co_path(Co_asked(server, ok, end), ok)
  PROVE  CoInv'
<1> DEFINE s == Co_sent(st, server, ok)
           g == Len(s.goals)
           u == [s EXCEPT !.goals[g] = Co_ended(@, end)]
           v == [u EXCEPT !.status = end, !.task = st.task]
           a == Co_asked(server, ok, end)
           w == IF a.status = "SUCCEEDED" /\ ok THEN "path" ELSE "no path"
<1>1. s \in CoStates /\ LastTaken(s.goals, s.future) /\ g > 0
  BY CoSentIs
<1>2. g \in 1 .. Len(s.goals)
  BY <1>1 DEF CoStates
<1>3. a = s \/ a = v
  BY Zenon DEF Co_asked
<1> HIDE DEF s
<1>4. u \in CoStates /\ LastTaken(u.goals, u.future)
  BY <1>1, <1>2, CoEnded, Zenon
<1> HIDE DEF g, u
<1>5. v \in CoStates /\ v.goals = u.goals /\ v.future = u.future
  <2>1. end \in CoStatus /\ st.task \in Nat
    BY DEF CoStatus, CoStates
  <2> QED BY ONLY <1>4, <2>1, Zenon DEF CoStates
<1>6. a \in CoStates /\ LastTaken(a.goals, a.future)
  BY <1>1, <1>3, <1>4, <1>5, Zenon
<1>7. st' = [a EXCEPT !.said = w]
  BY Zenon DEF Co_path
<1>8. w \in CoWords /\ w # "complete"
  BY DEF CoWords
<1> HIDE DEF a, w
<1>9. st' \in CoStates /\ st'.goals = a.goals /\ st'.future = a.future /\ st'.said = w
  BY ONLY <1>6, <1>7, <1>8, Zenon DEF CoStates
<1> QED BY <1>6, <1>8, <1>9, CoSaid

\* Every step of the navigator keeps CoInv.
LEMMA CoNextInv ==
  ASSUME CoInv, part = "commander", CommanderNext \/ st' = st
  PROVE  CoInv'
<1>0. st \in CoStates /\ LastTaken(st.goals, st.future)
  BY DEF CoInv
<1>1. ASSUME NEW server \in CoServers, NEW ok \in BOOLEAN, st' = Co_sent(st, server, ok) PROVE CoInv'
  BY <1>0, <1>1, CoSentIs, CoSaid
<1>2. CASE CommanderTask
  <2>1. \E server \in CoServers : Co_task(server)
    BY <1>2 DEF CommanderTask, CoServers, goThroughPoses, goToPose, followWaypoints, followGpsWaypoints, spin,
       backup, driveOnHeading, assistedTeleop, followPath, dockRobotByPose, dockRobotByID, undockRobot
  <2> QED BY <1>1, <2>1, Zenon DEF Co_task, Become
<1>3. CASE cancelTask
  <2> DEFINE c == IF st.future # 0 THEN st.cancels \cup {st.handle} ELSE st.cancels
             w == IF st.future # 0 THEN "cancelled" ELSE "nothing"
  <2>1. st' = [st EXCEPT !.cancels = c, !.said = w]
    BY <1>3, Zenon DEF cancelTask, Become
  <2>2. c \in SUBSET Nat /\ w \in CoWords /\ w # "complete"
    BY <1>0, Zenon DEF CoStates, CoWords
  <2> HIDE DEF c, w
  <2>3. st' \in CoStates /\ st'.goals = st.goals /\ st'.future = st.future /\ st'.said = w
    BY ONLY <1>0, <2>1, <2>2, Zenon DEF CoStates
  <2> QED BY <1>0, <2>2, <2>3, CoSaid
<1>4. CASE isTaskComplete
  <2> DEFINE ended == st.future # 0 /\ st.goals[st.future].end # "none"
             x == IF ended THEN st.goals[st.future].end ELSE st.status
             w == IF st.future = 0 \/ ended THEN "complete" ELSE "running"
  <2>1. st' = [st EXCEPT !.status = x, !.said = w]
    BY <1>4, Zenon DEF isTaskComplete, Become
  <2>2. st.future # 0 => st.goals[st.future] \in CoGoal
    BY <1>0 DEF CoStates, LastTaken
  <2>3. x \in CoStatus /\ w \in CoWords
    BY <1>0, <2>2, Zenon DEF CoStates, CoGoal, CoWords
  <2>4. w = "complete" /\ st.future # 0 => x = st.goals[st.future].end
    OBVIOUS
  <2> HIDE DEF ended, x, w
  <2>5. /\ st' \in CoStates /\ st'.goals = st.goals /\ st'.future = st.future /\ st'.said = w
        /\ st'.status = x
    BY ONLY <1>0, <2>1, <2>3, Zenon DEF CoStates
  <2> QED BY <1>0, <2>4, <2>5 DEF CoInv
<1>5. CASE getResult
  <2> DEFINE w == IF st.status \in CoEnds THEN st.status ELSE "UNKNOWN"
  <2>1. st' = [st EXCEPT !.said = w]
    BY <1>5, Zenon DEF getResult, Become
  <2>2. w \in CoWords /\ w # "complete"
    BY Zenon DEF CoWords, CoEnds
  <2> HIDE DEF w
  <2>3. st' \in CoStates /\ st'.goals = st.goals /\ st'.future = st.future /\ st'.said = w
    BY ONLY <1>0, <2>1, <2>2, Zenon DEF CoStates
  <2> QED BY <1>0, <2>2, <2>3, CoSaid
<1>6. CASE Co_paths
  <2>1. PICK server \in {"compute_path_to_pose", "compute_path_through_poses", "smooth_path"},
             ok \in BOOLEAN, end \in CoEnds : st' = Co_path(Co_asked(server, ok, end), ok)
    BY <1>6, Zenon DEF Co_paths, getPath, getPathThroughPoses, smoothPath, _getPathImpl,
       _getPathThroughPosesImpl, _smoothPathImpl, Become
  <2>2. server \in CoServers
    BY DEF CoServers
  <2> QED BY <1>0, <2>1, <2>2, CoAskedIs
<1>7. CASE Co_serverEnds
  <2>1. PICK g \in DOMAIN st.goals, end \in CoEnds :
          st' = [st EXCEPT !.goals[g] = Co_ended(@, end), !.said = "nothing"]
    BY <1>7, Zenon DEF Co_serverEnds, Become
  <2> DEFINE u == [st EXCEPT !.goals[g] = Co_ended(@, end)]
  <2>2. g \in 1 .. Len(st.goals)
    BY <1>0 DEF CoStates
  <2>3. u \in CoStates /\ u.future = st.future /\ LastTaken(u.goals, st.future)
    BY <1>0, <2>2, CoEnded
  <2>4. st' = [u EXCEPT !.said = "nothing"] /\ "nothing" \in CoWords
    BY <2>1 DEF CoWords
  <2> HIDE DEF u
  <2>5. st' \in CoStates /\ st'.goals = u.goals /\ st'.future = u.future /\ st'.said = "nothing"
    BY ONLY <2>3, <2>4, Zenon DEF CoStates
  <2> QED BY <2>3, <2>5, CoSaid
<1>8. CASE st' = st
  BY <1>8, Zenon DEF CoInv
<1>9. ~(setInitialPose \/ _amclPoseCallback \/ lifecycleStartup \/ lifecycleShutdown \/ Co_bringupEnds
        \/ waitUntilNav2Active)
  BY DEF setInitialPose, _amclPoseCallback, lifecycleStartup, lifecycleShutdown, Co_bringupEnds,
     waitUntilNav2Active, In
<1> QED BY <1>2, <1>3, <1>4, <1>5, <1>6, <1>7, <1>8, <1>9, Zenon DEF CommanderNext

-----------------------------------------------------------------------------
(* The parts of the user *)

\* A part starts as its own kind does, takes the steps of its own kind, and has its invariant.
UserInit ==
  /\ part \in NavPanels \cup DockPanels => PanelsInit
  /\ part \in BimPanelParts \cup TopoPanelParts \cup ElementParts => BimPanelsInit
  /\ part \in {"commander", "bringup"} => CommanderInit
UserNext ==
  /\ part' = part
  /\ part \in NavPanels \cup DockPanels => PanelsNext \/ st' = st
  /\ part \in BimPanelParts \cup TopoPanelParts \cup ElementParts => BimPanelsNext \/ st' = st
  /\ part \in {"commander", "bringup"} => CommanderNext \/ st' = st
UserInv ==
  /\ part \in NavPanels => NpInv
  /\ part \in BimPanelParts => BpInv
  /\ part \in TopoPanelParts => TmInv
  /\ part \in ElementParts => ElInv
  /\ part = "commander" => CoInv

\* Every such part starts with its invariant.
LEMMA UserInitInv == UserInit => UserInv
<1> SUFFICES ASSUME UserInit PROVE UserInv
  OBVIOUS
<1>1. part \in NavPanels => NpInv
  <2>1. part \in NavPanels => \E servers \in NpServers : st = Np_init(servers)
    BY Zenon DEF UserInit, PanelsInit, NavPanels, DockPanels
  <2> QED BY <2>1, NpInitInv, Zenon
<1>2. part \in BimPanelParts \cup TopoPanelParts \cup ElementParts => BimPanelsInit
  BY Zenon DEF UserInit
<1>3. part \in BimPanelParts => BpInv
  <2>1. part \in BimPanelParts => st \in {Bp_init(""), Bp_init("A")}
    BY <1>2, Zenon DEF BimPanelsInit, BimPanelParts, TopoPanelParts, ElementParts
  <2> QED BY <2>1, BpInitInv, Zenon
<1>4. part \in TopoPanelParts => TmInv
  BY <1>2, TmInitInv, Zenon DEF BimPanelsInit, BimPanelParts, TopoPanelParts, ElementParts
<1>5. part \in ElementParts => ElInv
  BY <1>2, ElInitInv, Zenon DEF BimPanelsInit, BimPanelParts, TopoPanelParts, ElementParts
<1>6. part = "commander" => CoInv
  BY CoInitInv, Zenon DEF UserInit, CommanderInit
<1> QED BY <1>1, <1>3, <1>4, <1>5, <1>6, Zenon DEF UserInv

\* Every step of such a part keeps its invariant.
LEMMA UserNextInv ==
  ASSUME UserInv, UserNext
  PROVE  UserInv'
<1>1. part' = part
  BY Zenon DEF UserNext
<1>2. part \in NavPanels => NpInv'
  <2>1. part \in NavPanels => Nav2PanelNext \/ st' = st
    <3>1. part \in NavPanels => ~DockingPanelNext
      BY DEF NavPanels, DockPanels, DockingPanelNext, Dp_initialThread, dockIdCheckbox, Dp_filledIn, Dp_click,
         Dp_cancel, Dp_timerEvent, Dp_goalEnds, In
    <3> QED BY <3>1, Zenon DEF UserNext, PanelsNext
  <2> QED BY <2>1, NpNextInv, Zenon DEF UserInv
<1>3. /\ BimPanelNext => part \in BimPanelParts
      /\ TopomapPanelNext => part \in TopoPanelParts
      /\ IfcElementsNext => part \in ElementParts
  <2>1. BimPanelNext => part \in BimPanelParts
    BY Zenon DEF BimPanelNext, tryLoadFloors, Bp_answer, onBimModelsClicked, onFloorsClicked, goalPoseCallback,
       startPoseCallback
  <2>2. TopomapPanelNext => part \in TopoPanelParts
    BY Zenon DEF TopomapPanelNext, Tm_nodesToggled, Tm_edgesToggled, Tm_floorSelected, Tm_prunedReceived,
       loadTopologicalMap, Tm_redrawn, processFeedback
  <2>3. IfcElementsNext => part \in ElementParts
    BY Zenon DEF IfcElementsNext, displayElements, El_menuClicked, onElementMenuSelect
  <2> QED BY <2>1, <2>2, <2>3
<1>4. part \in BimPanelParts \cup TopoPanelParts \cup ElementParts =>
         BimPanelNext \/ TopomapPanelNext \/ IfcElementsNext \/ st' = st
  BY Zenon DEF UserNext, BimPanelsNext
<1>5. part \in BimPanelParts => BpInv'
  <2>1. part \in BimPanelParts => BimPanelNext \/ st' = st
    BY <1>3, <1>4 DEF BimPanelParts, TopoPanelParts, ElementParts
  <2> QED BY <2>1, BpNextInv, Zenon DEF UserInv
<1>6. part \in TopoPanelParts => TmInv'
  <2>1. part \in TopoPanelParts => TopomapPanelNext \/ st' = st
    BY <1>3, <1>4 DEF BimPanelParts, TopoPanelParts, ElementParts
  <2> QED BY <2>1, TmNextInv, Zenon DEF UserInv
<1>7. part \in ElementParts => ElInv'
  <2>1. part \in ElementParts => IfcElementsNext \/ st' = st
    BY <1>3, <1>4 DEF BimPanelParts, TopoPanelParts, ElementParts
  <2> QED BY <2>1, ElNextInv, Zenon DEF UserInv
<1>8. part = "commander" => CoInv'
  BY CoNextInv, Zenon DEF UserNext, UserInv
<1> QED BY <1>1, <1>2, <1>5, <1>6, <1>7, <1>8, Zenon DEF UserInv

\* What the invariants of the user's parts give.
LEMMA UserFromInv ==
  ASSUME UserInv
  PROVE  RemainingLoops /\ ShowsLastCommand /\ SelectedFloorHasHeight /\ MarkersAreCurrent /\ CompleteIsReported
<1>1. RemainingLoops /\ ShowsLastCommand
  BY NpFromInv, Zenon DEF UserInv, RemainingLoops, ShowsLastCommand
<1>2. SelectedFloorHasHeight
  BY Zenon DEF UserInv, BpInv, SelectedFloorHasHeight
<1>3. MarkersAreCurrent
  <2>1. part \in TopoPanelParts /\ ~st.redraw => st = Tm_drawn(st)
    BY TmFromInv, Zenon DEF UserInv
  <2>2. part \in ElementParts => \A g \in DOMAIN st.elements :
          Matches(st.markers[st.elements[g].marker], st.elements[g], g)
    BY Zenon DEF UserInv, ElInv, ElGood
  <2> QED BY <2>1, <2>2, Zenon DEF MarkersAreCurrent, Matches
<1>4. CompleteIsReported
  <2>1. SUFFICES ASSUME part = "commander", st.said = "complete", st.future # 0
                 PROVE  /\ st.goals[st.future].end = st.status
                        /\ \A g \in DOMAIN st.goals : st.goals[g].ok => g <= st.future
    BY Zenon DEF CompleteIsReported
  <2>2. CoInv
    BY <2>1, Zenon DEF UserInv
  <2>3. DOMAIN st.goals = 1 .. Len(st.goals)
    BY <2>2 DEF CoInv, CoStates
  <2> QED BY <2>1, <2>2, <2>3, Zenon DEF CoInv, LastTaken
<1> QED BY <1>1, <1>2, <1>3, <1>4

-----------------------------------------------------------------------------
(* Numbers *)

\* A set of natural numbers has a least element.
LEMMA NatHasLeast ==
  ASSUME NEW T \in SUBSET Nat, T # {}
  PROVE  \E x \in T : \A y \in T : x <= y
<1>1. IsWellFoundedOn(OpToRel(<, Nat), Nat)
  BY NatLessThanWellFounded, Zenon
<1>2. PICK x \in T : \A y \in T : ~ (<<y, x>> \in OpToRel(<, Nat))
  BY <1>1, WFMin, Zenon
<1>3. \A y \in T : ~ (y < x)
  BY <1>2, Zenon DEF OpToRel
<1> QED BY <1>3

\* Division undoes the multiplication in the speed of an approach at full steps.
LEMMA DivOfTwice ==
  ASSUME NEW C \in Nat \ {0}, NEW k \in Nat
  PROVE  ((2 * C) * k) \div C = 2 * k
<1>1. (2 * C) * k = (2 * k) * C
  OBVIOUS
<1> DEFINE q == ((2 * k) * C) \div C
<1>2. q \in Int
  OBVIOUS
<1>3. C * q <= (2 * k) * C /\ (2 * k) * C < C * q + C
  OBVIOUS
<1> QED BY <1>1, <1>2, <1>3

-----------------------------------------------------------------------------
(* The velocity smoother *)

\* The members of the smoother; whoever is at rest, or says that it has stopped, has sent a zero
\* last, or nothing yet.
SmootherStates ==
  [at : {"unconfigured", "inactive", "active"}, command : Int, age : Int, last : Int,
   stopped : BOOLEAN, open_loop : BOOLEAN, max : Int, out : Int]
SmootherInv ==
  /\ st \in SmootherStates
  /\ st.last = 0 \/ st.stopped => st.out \in {0, NoCommand}

\* What the smoother computes is a number.
LEMMA ConstrainedIsInt ==
  ASSUME NEW curr \in Int, NEW cmd \in Int
  PROVE  applyConstraints(curr, cmd, VsAccel, VsDecel, <<1, 1>>) \in Int
<1>1. ComponentMax(curr, cmd, VsAccel, VsDecel) \in Int
  BY VelocitySmootherAssumption DEF ComponentMax
<1>2. \A x, lo, hi \in Int : Clamp(x, lo, hi) \in Int
  BY DEF Clamp
<1>3. <<1, 1>>[1] = 1 /\ <<1, 1>>[2] = 1
  OBVIOUS
<1> DEFINE c == ComponentMax(curr, cmd, VsAccel, VsDecel) * 1
<1>4. applyConstraints(curr, cmd, VsAccel, VsDecel, <<1, 1>>)
        = curr * 1 + Clamp(1 * (cmd - curr), -c, c)
  BY <1>3 DEF applyConstraints
<1>5. c \in Int
  BY <1>1
<1> HIDE DEF c
<1>6. Clamp(1 * (cmd - curr), -c, c) \in Int
  BY <1>2, <1>5
<1> QED BY <1>4, <1>6

\* SmootherInv holds when the smoother is created, and every step keeps it.
LEMMA SmootherInitInv == st \in VelocitySmootherInit => SmootherInv
<1>1. VsMax \in Nat
  BY VelocitySmootherAssumption
<1>2. NoCommand \in Int
  BY <1>1 DEF NoCommand
<1> SUFFICES ASSUME st \in VelocitySmootherInit PROVE SmootherInv
  OBVIOUS
<1>3. st \in SmootherStates
  <2> DEFINE zero == 0
  <2>1. zero \in Int
    OBVIOUS
  <2>2. st \in [at : {"unconfigured"}, command : {NoCommand}, age : {zero}, last : {zero},
                stopped : {TRUE}, open_loop : BOOLEAN, max : {VsMax}, out : {NoCommand}]
    BY Zenon DEF VelocitySmootherInit
  <2>3. VsMax \in Int
    BY <1>1
  <2> HIDE DEF zero
  <2>4. PICK o \in BOOLEAN :
          st = [at |-> "unconfigured", command |-> NoCommand, age |-> zero, last |-> zero,
                stopped |-> TRUE, open_loop |-> o, max |-> VsMax, out |-> NoCommand]
    BY ONLY <2>2, Zenon
  <2> QED BY ONLY <1>2, <2>1, <2>3, <2>4 DEF SmootherStates
<1>4. st.out = NoCommand
  BY DEF VelocitySmootherInit
<1> QED BY <1>3, <1>4 DEF SmootherInv

\* Every transition, command and timer of the velocity smoother keeps SmootherInv.
LEMMA SmootherNextInv ==
  ASSUME SmootherInv, VelocitySmootherNext
  PROVE  SmootherInv'
<1> USE VelocitySmootherAssumption
<1>1. CASE Vs_on_configure \/ Vs_on_activate \/ Vs_on_deactivate \/ Vs_on_cleanup
  BY <1>1 DEF SmootherInv, SmootherStates, Vs_on_configure, Vs_on_activate, Vs_on_deactivate,
     Vs_on_cleanup, Become, In, NoCommand
<1>a. VsMax \in Nat /\ Speeds \subseteq Int
  BY DEF Speeds
<1>2. CASE inputCommandCallback
  <2>1. PICK v \in Speeds : st' = [st EXCEPT !.command = v, !.age = 0]
    BY <1>2, Zenon DEF inputCommandCallback, Become
  <2>2. v \in Int
    BY <1>a
  <2>3. st' \in SmootherStates /\ st'.last = st.last /\ st'.stopped = st.stopped /\ st'.out = st.out
    <3>1. st \in SmootherStates
      BY DEF SmootherInv
    <3> DEFINE zero == 0
    <3>2. zero \in Int /\ st' = [st EXCEPT !.command = v, !.age = zero]
      BY <2>1
    <3> HIDE DEF zero
    <3> QED BY ONLY <3>1, <3>2, <2>2, Zenon DEF SmootherStates
  <2> QED BY <2>3, SMTT(30) DEF SmootherInv
<1>4. CASE VsTime \/ Vs_feedback
  BY <1>4 DEF SmootherInv, SmootherStates, VsTime, Vs_feedback, Become, In
<1>5. CASE Vs_dynamicParameters
  <2>1. PICK m \in {1, VsMax} : st' = [st EXCEPT !.max = m]
    BY <1>5 DEF Vs_dynamicParameters, Become
  <2> QED BY <1>a, <2>1 DEF SmootherInv, SmootherStates
<1>3. CASE smootherTimer
  <2>1. CASE st' = [st EXCEPT !.stopped = TRUE] /\ StaleAtRest(st)
    BY <2>1, Zenon DEF SmootherInv, SmootherStates, StaleAtRest
  <2>2. ASSUME NEW current \in Int, NEW command \in Int, NEW v,
               v = applyConstraints(current, command, VsAccel, VsDecel, <<1, 1>>),
               st' = [st EXCEPT !.command = command, !.stopped = FALSE, !.last = v,
                                !.out = IF Magnitude(v) < VsDeadband THEN 0 ELSE v]
        PROVE  SmootherInv'
    <3>1. v \in Int
      BY <2>2, ConstrainedIsInt
    <3> DEFINE o == IF Magnitude(v) < VsDeadband THEN 0 ELSE v
    <3>2. o \in Int /\ (v = 0 => o = 0)
      BY <3>1 DEF Magnitude
    <3>3. st' = [st EXCEPT !.command = command, !.stopped = FALSE, !.last = v, !.out = o]
      BY <2>2
    <3> HIDE DEF o
    <3>4. st \in SmootherStates
      BY DEF SmootherInv
    <3>5. st' \in SmootherStates /\ st'.last = v /\ st'.stopped = FALSE /\ st'.out = o
      BY ONLY <3>1, <3>2, <3>3, <3>4, command \in Int, Zenon DEF SmootherStates
    <3> QED BY <3>2, <3>5 DEF SmootherInv
  <2>3. CASE ~(st.age > VsTimeout /\ StaleAtRest(st))
    <3>1. PICK current \in IF st.open_loop THEN {st.last} ELSE Speeds :
            LET command == Clamp(IF st.age > VsTimeout THEN 0 ELSE st.command, -VsMax, st.max)
                v == applyConstraints(current, command, VsAccel, VsDecel, <<1, 1>>) IN
            st' = [st EXCEPT !.command = command, !.stopped = FALSE, !.last = v,
                             !.out = IF Magnitude(v) < VsDeadband THEN 0 ELSE v]
      BY <1>3, <2>3, Zenon DEF smootherTimer, Become
    <3> DEFINE command == Clamp(IF st.age > VsTimeout THEN 0 ELSE st.command, -VsMax, st.max)
    <3>2. current \in Int /\ command \in Int
      BY DEF SmootherInv, SmootherStates, Speeds, Clamp
    <3> QED BY <3>1, <3>2, <2>2, ZenonT(40)
  <2> QED BY <1>3, <2>1, <2>3, Zenon DEF smootherTimer, Become
<1> QED BY <1>1, <1>2, <1>3, <1>4, <1>5 DEF VelocitySmootherNext

-----------------------------------------------------------------------------
(* The collision monitor *)

\* An action of process(): a stop is a zero.
Actions == {a \in [type : {"none", "approach", "limit", "slowdown", "stop"}, vel : Nat] :
              a.type = "stop" => a.vel = 0}
\* What a polygon can see: points at some steps of the simulated motion.
SeenSets == [source : {"points", "invalid", "empty"}, inside : SUBSET {"limit", "slowdown", "stop"},
             hits : SUBSET (0 .. CmSteps + 1)]
Velocities == {0, Cruise}

\* The speeds that polygons ask for are natural numbers.
LEMMA SafeSpeedIs ==
  ASSUME NEW v \in Velocities, NEW p \in {"limit", "slowdown", "stop"}
  PROVE  SafeSpeed(p, v) \in Nat /\ (p = "stop" => SafeSpeed(p, v) = 0)
BY CollisionMonitorAssumption DEF SafeSpeed, CmLimit, Cruise, Velocities

\* The speed that leaves time before a collision grows with that time (APPROACH polygons).
LEMMA ApproachSpeedIs ==
  ASSUME NEW v \in Velocities, NEW k \in Nat
  PROVE  /\ (v * k) \div CmSteps \in Nat
         /\ \A l \in Nat : l <= k => (v * l) \div CmSteps <= (v * k) \div CmSteps
<1>1. CmSteps \in Nat \ {0}
  BY CollisionMonitorAssumption
<1>2. CASE v = 0
  <2>1. \A l \in Nat : (0 * l) \div CmSteps = 0
    BY <1>1
  <2> QED BY <1>2, <2>1
<1>3. CASE v = Cruise
  <2>1. \A l \in Nat : (v * l) \div CmSteps = 2 * l
    BY <1>1, <1>3, DivOfTwice DEF Cruise
  <2> QED BY <2>1
<1> QED BY <1>2, <1>3 DEF Velocities

\* The time to a collision is no later than any step with points inside.
LEMMA CollisionTimeIs ==
  ASSUME NEW hits \in SUBSET (0 .. CmSteps + 1), hits # {}
  PROVE  getCollisionTime(hits) \in Nat /\ \A k \in hits : getCollisionTime(hits) <= k
<1>1. CmSteps \in Nat \ {0}
  BY CollisionMonitorAssumption
<1> DEFINE later == {k \in 1 .. CmSteps + 1 : k \in hits}
<1>2. CASE 0 \in hits
  BY <1>1, <1>2 DEF getCollisionTime
<1>3. CASE 0 \notin hits
  <2>0. \A k \in hits : k \in 1 .. CmSteps + 1 /\ k \in Nat
    BY <1>1, <1>3
  <2>1. later = hits /\ later \in SUBSET Nat /\ later # {}
    BY <2>0, Zenon
  <2>2. \E k \in later : \A l \in later : k <= l
    BY <2>1, NatHasLeast
  <2> DEFINE k == CHOOSE k \in later : \A l \in later : k <= l
  <2>3. k \in later /\ \A l \in later : k <= l
    BY <2>2
  <2>4. getCollisionTime(hits) = k - 1
    BY <1>3, <2>1 DEF getCollisionTime
  <2>5. k \in 1 .. CmSteps + 1
    BY <2>3
  <2> HIDE DEF k
  <2> QED BY <1>1, <2>1, <2>3, <2>4, <2>5
<1> QED BY <1>2, <1>3

\* One turn of the loop never raises the speed, and brings it down to what its polygon asks for.
LEMMA TurnIsSafe ==
  ASSUME NEW v \in Velocities, NEW seen \in SeenSets, NEW a \in Actions,
         NEW p \in PolygonSet, NEW active, NEW shape, NEW enabled,
         NEW acting, acting = IF enabled THEN active \cap shape ELSE {},
         NEW b, b = ProcessPolygon(a, p, v, seen, active, shape, enabled)
  PROVE  /\ b \in Actions /\ b.vel <= a.vel
         /\ p \in seen.inside \cap acting => b.vel <= SafeSpeed(p, v)
         /\ p = "approach" /\ p \in acting => \A k \in seen.hits : b.vel <= (v * k) \div CmSteps
<1>0. a.vel \in Nat /\ (a.type = "stop" => a.vel = 0) /\ seen.inside \subseteq {"limit", "slowdown", "stop"}
      /\ seen.hits \in SUBSET (0 .. CmSteps + 1) /\ CmSteps \in Nat \ {0}
  BY CollisionMonitorAssumption DEF Actions, SeenSets
<1>a. \A q \in {"limit", "slowdown", "stop"} : SafeSpeed(q, v) \in Nat /\ (q = "stop" => SafeSpeed(q, v) = 0)
  BY SafeSpeedIs
<1>b. \A k \in seen.hits : k \in Nat
  BY <1>0
<1>c. \A k \in Nat : (v * k) \div CmSteps \in Nat
  BY ApproachSpeedIs
<1>1. CASE p \notin active \/ ~enabled \/ p \notin shape
  <2>1. b = a /\ p \notin acting
    BY <1>1 DEF ProcessPolygon
  <2> QED BY <1>0, <2>1
<1>2. CASE a.type = "stop"
  <2>1. b = a /\ a.vel = 0
    BY <1>2, <1>0 DEF ProcessPolygon
  <2> QED BY <1>0, <1>a, <1>b, <1>c, <2>1
<1>3. CASE p \in active /\ enabled /\ p \in shape /\ a.type # "stop" /\ p = "approach"
  <2>1. b = processApproach(a, v, seen)
    BY <1>3 DEF ProcessPolygon
  <2> DEFINE time == getCollisionTime(seen.hits)
             safe == (v * time) \div CmSteps
  <2>2. CASE seen.hits = {}
    <3>1. time = -1
      BY <2>2 DEF getCollisionTime
    <3>2. b = a
      BY <2>1, <3>1 DEF processApproach
    <3>3. p \notin seen.inside
      BY <1>0, <1>3
    <3> QED BY <1>0, <2>2, <3>2, <3>3
  <2>3. CASE seen.hits # {}
    <3>1. time \in Nat /\ \A k \in seen.hits : time <= k
      BY <2>3, <1>0, CollisionTimeIs
    <3>2. safe \in Nat /\ \A k \in seen.hits : safe <= (v * k) \div CmSteps
      BY <3>1, <1>b, ApproachSpeedIs
    <3>3. b = IF safe < a.vel THEN [type |-> "approach", vel |-> safe] ELSE a
      BY <2>1, <3>1 DEF processApproach
    <3> HIDE DEF safe, time
    <3>4. b \in Actions /\ b.vel <= a.vel /\ b.vel <= safe
      BY <1>0, <3>2, <3>3 DEF Actions
    <3>5. p \notin seen.inside
      BY <1>0, <1>3
    <3>6. \A k \in seen.hits : b.vel <= (v * k) \div CmSteps
      BY <3>2, <3>4, <1>b, <1>c DEF Actions
    <3> QED BY <3>4, <3>5, <3>6
  <2> QED BY <2>2, <2>3
<1>4. CASE p \in active /\ enabled /\ p \in shape /\ a.type # "stop" /\ p # "approach"
  <2> DEFINE safe == SafeSpeed(p, v)
  <2>1. b = processStopSlowdownLimit(a, p, v, seen)
    BY <1>4 DEF ProcessPolygon
  <2>2. p \in {"limit", "slowdown", "stop"}
    BY <1>4 DEF PolygonSet
  <2>3. safe \in Nat /\ (p = "stop" => safe = 0)
    BY <1>a, <2>2
  <2>4. b = IF p \in seen.inside /\ (p = "stop" \/ safe < a.vel) THEN [type |-> p, vel |-> safe] ELSE a
    BY <2>1 DEF processStopSlowdownLimit
  <2> HIDE DEF safe
  <2>5. b \in Actions /\ b.vel <= a.vel /\ (p \in seen.inside => b.vel <= safe)
    BY <1>0, <2>2, <2>3, <2>4 DEF Actions
  <2> QED BY <1>4, <2>5, Zenon DEF safe
<1> QED BY <1>1, <1>2, <1>3, <1>4

\* The loop brings the speed below everything the polygons ask for.
LEMMA ProcessIsSafe ==
  ASSUME NEW v \in Velocities, NEW seen \in SeenSets, NEW active, NEW shape, NEW enabled,
         NEW acting, acting = IF enabled THEN active \cap shape ELSE {}
  PROVE  /\ ProcessPolygons(v, seen, active, shape, enabled).vel \in Nat
         /\ \A y \in Demands(v, seen, acting) :
              y \in Nat /\ ProcessPolygons(v, seen, active, shape, enabled).vel <= y
<1> DEFINE after(a, p) == ProcessPolygon(a, p, v, seen, active, shape, enabled)
           start == IF seen.source = "invalid" THEN [type |-> "stop", vel |-> 0]
                    ELSE [type |-> "none", vel |-> v]
           a1 == after(start, "approach")
           a2 == after(a1, "limit")
           a3 == after(a2, "slowdown")
           a4 == after(a3, "stop")
<1>0. CmSteps \in Nat \ {0} /\ v \in Nat /\ seen.inside \subseteq {"limit", "slowdown", "stop"}
      /\ seen.hits \in SUBSET (0 .. CmSteps + 1)
  BY CollisionMonitorAssumption DEF Velocities, Cruise, SeenSets
<1>1. start \in Actions /\ start.vel <= v /\ (seen.source = "invalid" => start.vel = 0)
  BY <1>0 DEF Actions
<1>2. a1 \in Actions /\ a1.vel <= start.vel
      /\ ("approach" \in acting => \A k \in seen.hits : a1.vel <= (v * k) \div CmSteps)
  <2>1. "approach" \in PolygonSet
    BY DEF PolygonSet
  <2> HIDE DEF start
  <2> QED BY <1>1, <2>1, TurnIsSafe, Zenon
<1>3. a2 \in Actions /\ a2.vel <= a1.vel /\ ("limit" \in seen.inside \cap acting => a2.vel <= SafeSpeed("limit", v))
  <2>1. "limit" \in PolygonSet
    BY DEF PolygonSet
  <2> HIDE DEF a1
  <2> QED BY <1>2, <2>1, TurnIsSafe, Zenon
<1>4. a3 \in Actions /\ a3.vel <= a2.vel /\ ("slowdown" \in seen.inside \cap acting => a3.vel <= SafeSpeed("slowdown", v))
  <2>1. "slowdown" \in PolygonSet
    BY DEF PolygonSet
  <2> HIDE DEF a2
  <2> QED BY <1>3, <2>1, TurnIsSafe, Zenon
<1>5. a4 \in Actions /\ a4.vel <= a3.vel /\ ("stop" \in seen.inside \cap acting => a4.vel <= SafeSpeed("stop", v))
  <2>1. "stop" \in PolygonSet
    BY DEF PolygonSet
  <2> HIDE DEF a3
  <2> QED BY <1>4, <2>1, TurnIsSafe, Zenon
<1>6. ProcessPolygons(v, seen, active, shape, enabled) = a4
  BY DEF ProcessPolygons, Polygons
<1> HIDE DEF start, a1, a2, a3, a4
<1>7. start.vel \in Nat /\ a1.vel \in Nat /\ a2.vel \in Nat /\ a3.vel \in Nat /\ a4.vel \in Nat
  BY <1>1, <1>2, <1>3, <1>4, <1>5 DEF Actions
<1>8. ASSUME NEW y \in Demands(v, seen, acting)
      PROVE  y \in Nat /\ a4.vel <= y
  <2>1. CASE y = v
    BY <1>0, <1>1, <1>2, <1>3, <1>4, <1>5, <1>7, <2>1
  <2>2. CASE seen.source = "invalid" /\ y = 0
    BY <1>1, <1>2, <1>3, <1>4, <1>5, <1>7, <2>2
  <2>3. ASSUME NEW p \in seen.inside \cap acting, y = SafeSpeed(p, v)
        PROVE  y \in Nat /\ a4.vel <= y
    <3>1. p \in {"limit", "slowdown", "stop"} /\ y \in Nat
      BY <1>0, <2>3, SafeSpeedIs
    <3> QED BY <1>3, <1>4, <1>5, <1>7, <2>3, <3>1
  <2>4. ASSUME NEW k \in seen.hits, "approach" \in acting, y = (v * k) \div CmSteps
        PROVE  y \in Nat /\ a4.vel <= y
    <3>1. k \in Nat
      BY <1>0
    <3>2. y \in Nat
      BY <2>4, <3>1, ApproachSpeedIs
    <3>3. a1.vel <= y
      BY <1>2, <2>4
    <3> QED BY <1>3, <1>4, <1>5, <1>7, <3>2, <3>3
  <2> QED BY <2>1, <2>2, <2>3, <2>4 DEF Demands
<1> QED BY <1>6, <1>7, <1>8

\* The lowest of a set of natural numbers is one of them.
LEMMA LowestIs ==
  ASSUME NEW S \in SUBSET Nat, S # {}
  PROVE  Lowest(S) \in S /\ \A y \in S : Lowest(S) <= y
BY NatHasLeast, Zenon DEF Lowest

\* The members of the monitor and of the detector.  The speed decided on last is no higher than
\* what was allowed, a zero that is decided on while active has been sent, and the detector
\* reports no polygon without points.
MonitorStates ==
  [at : {"unconfigured", "inactive", "active"}, enabled : BOOLEAN, on : BOOLEAN, timed : BOOLEAN,
   kind : {"scan", "range", "pointcloud", "polygon"}, data : {"none", "fresh", "stale"},
   active : SUBSET PolygonSet, shape : SUBSET PolygonSet, prev : Int, age : Int, out : Int,
   detected : SUBSET PolygonSet, allowed : Nat, points : SUBSET PolygonSet]
MonitorInv ==
  /\ st \in MonitorStates
  /\ st.prev <= st.allowed
  /\ st.at # "active" \/ part \in Detectors => st.prev = NoSpeed
  /\ st.at = "active" /\ st.prev = 0 => st.out = 0
  /\ st.detected \subseteq st.points

\* MonitorInv holds when the node is created, and every step keeps it.
LEMMA MonitorInitInv == st \in CollisionMonitorInit => MonitorInv
<1> SUFFICES ASSUME st \in CollisionMonitorInit PROVE MonitorInv
  OBVIOUS
<1>1. PICK c \in MonitorSetups, t \in BOOLEAN :
        st = [at |-> "unconfigured", enabled |-> TRUE, kind |-> c[1], data |-> "none", active |-> c[2],
              on |-> TRUE, timed |-> t, shape |-> {}, prev |-> NoSpeed, age |-> 0, out |-> NoSpeed,
              detected |-> {}, allowed |-> Cruise, points |-> {}]
  BY DEF CollisionMonitorInit
<1>2. c[1] \in {"scan", "range", "pointcloud", "polygon"} /\ c[2] \in SUBSET PolygonSet
  BY DEF MonitorSetups, PolygonSet
<1> DEFINE zero == 0
<1>3. zero \in Int /\ NoSpeed \in Int /\ Cruise \in Nat /\ NoSpeed <= Cruise /\ TRUE \in BOOLEAN
      /\ {} \in SUBSET PolygonSet /\ NoSpeed # 0
  BY CollisionMonitorAssumption DEF NoSpeed, Cruise
<1>4. st = [at |-> "unconfigured", enabled |-> TRUE, kind |-> c[1], data |-> "none", active |-> c[2],
            on |-> TRUE, timed |-> t, shape |-> {}, prev |-> NoSpeed, age |-> zero, out |-> NoSpeed,
            detected |-> {}, allowed |-> Cruise, points |-> {}]
  BY <1>1
<1> HIDE DEF zero
<1>5. st \in MonitorStates
  BY ONLY <1>2, <1>3, <1>4 DEF MonitorStates
<1>6. st.prev = NoSpeed /\ st.allowed = Cruise /\ st.at = "unconfigured" /\ st.detected = {}
  BY <1>1
<1> QED BY <1>3, <1>5, <1>6 DEF MonitorInv

\* What a source answers.
LEMMA SourceAnswers ==
  ASSUME NEW s \in MonitorStates, NEW read \in sourceReads(s)
  PROVE  /\ read.source \in {"points", "invalid", "empty"}
         /\ read.data \in {"none", "fresh", "stale"}
<1>s. /\ s.kind \in {"scan", "range", "pointcloud", "polygon"} /\ s.timed \in BOOLEAN
      /\ s.data \in {"none", "fresh", "stale"}
  BY DEF MonitorStates
<1>1. CASE s.on
  <2>1. PICK a \in getData(s.kind, s.data, s.timed) :
          read = [source |-> IF a = "invalid" /\ ~s.timed THEN "empty" ELSE a,
                  data |-> Kept(s.kind, s.data, a)]
    BY <1>1, Zenon DEF sourceReads
  <2>2. a \in {"points", "invalid", "empty"}
    BY <1>s DEF getData, Scan_getData, Range_getData, PointCloud_getData, PolygonSource_getData, sourceAnswers
  <2>3. Kept(s.kind, s.data, a) \in {"none", "fresh", "stale"}
    BY <1>s DEF Kept
  <2> QED BY <2>1, <2>2, <2>3
<1>2. CASE ~s.on
  <2>1. read = [source |-> "empty", data |-> s.data]
    BY <1>2, Zenon DEF sourceReads
  <2> QED BY <1>s, <2>1
<1> QED BY <1>1, <1>2

\* Every callback and transition of the collision monitor and detector keeps MonitorInv.
LEMMA MonitorNextInv ==
  ASSUME MonitorInv, CollisionMonitorNext
  PROVE  MonitorInv'
<1> USE CollisionMonitorAssumption DEF MonitorInv
<1>0. NoSpeed \in Int /\ NoSpeed < 0
  BY SMTT(30) DEF NoSpeed
<1>p. part' = part
  <2>1. ASSUME NEW v, NEW read, NEW footprint, NEW inside, NEW hit,
               Cm_processes(v, read, footprint, inside, hit)
        PROVE  part' = part
    BY ONLY <2>1 DEF Cm_processes, Become
  <2>2. Cm_process => part' = part
    BY ONLY <2>1 DEF Cm_process
  <2> QED BY ONLY <2>2, CollisionMonitorNext, Zenon DEF CollisionMonitorNext, Cm_on_configure, Cm_on_activate,
       Cm_on_deactivate, Cm_on_cleanup, Cm_dataCallback, polygonCallback, Cm_time,
       toggleCMServiceCallback, Source_dynamicParametersCallback, Cd_on_configure, Cd_on_activate,
       Cd_on_deactivate, Cd_on_cleanup, Cd_process, Become
<1>1. CASE Cm_on_configure \/ Cd_on_configure
  <2>1. PICK s \in {{}, {"limit", "slowdown", "stop"}} :
          st' = [st EXCEPT !.at = "inactive", !.shape = s] /\ st.at = "unconfigured"
    BY <1>1 DEF Cm_on_configure, Cd_on_configure, Become, In
  <2>2. s \in SUBSET PolygonSet
    BY DEF PolygonSet
  <2> QED BY <2>1, <2>2, Zenon DEF MonitorStates
<1>2. CASE Cm_on_activate \/ Cd_on_activate
  BY <1>0, <1>2 DEF Cm_on_activate, Cd_on_activate, Become, In, MonitorStates
<1>3. CASE Cm_on_deactivate
  <2>1. st' = [st EXCEPT !.at = "inactive", !.prev = NoSpeed]
    BY <1>3 DEF Cm_on_deactivate, Become
  <2>2. st' \in MonitorStates /\ st'.at = "inactive" /\ st'.prev = NoSpeed
        /\ st'.allowed = st.allowed /\ st'.detected = st.detected /\ st'.points = st.points
    BY <1>0, <2>1, Zenon DEF MonitorStates
  <2>3. st.allowed \in Nat
    BY DEF MonitorStates
  <2> QED BY <1>0, <2>2, <2>3
<1>4. CASE Cm_on_cleanup \/ Cd_on_cleanup
  <2> DEFINE none == {}
  <2>1. st' = [st EXCEPT !.at = "unconfigured", !.shape = none, !.data = "none"] /\ st.at = "inactive"
        /\ none \in SUBSET PolygonSet
    BY <1>4 DEF Cm_on_cleanup, Cd_on_cleanup, Become, In
  <2> HIDE DEF none
  <2> QED BY <1>p, <2>1, Zenon DEF MonitorStates
<1>5. CASE Cm_dataCallback
  BY <1>5 DEF Cm_dataCallback, Become, MonitorStates
<1>6. CASE polygonCallback
  <2> DEFINE s == {"limit", "slowdown", "stop"} \cup (st.shape \cap {"approach"})
  <2>1. st' = [st EXCEPT !.shape = s] /\ s \in SUBSET PolygonSet
    BY <1>6 DEF polygonCallback, Become, PolygonSet
  <2> HIDE DEF s
  <2> QED BY <1>p, <2>1 DEF MonitorStates
<1>7. CASE Cm_process
  <2>1. PICK v \in {0, Cruise}, read \in sourceReads(st), footprint \in BOOLEAN,
             inside \in SUBSET (PolygonSet \ {"approach"}), hit \in 0 .. CmSteps + 2 :
          Cm_processes(v, read, footprint, inside, hit)
    BY <1>7 DEF Cm_process
  <2> DEFINE source == read.source
             reached == source # "invalid" /\ st.enabled /\ "approach" \in st.active
             shape == IF reached THEN updatePolygon(st.shape, footprint) ELSE st.shape
             in == IF source = "points" THEN inside ELSE {}
             hits == IF source = "points" THEN hit .. CmSteps + 1 ELSE {}
             seen == [source |-> source, inside |-> in, hits |-> hits]
             acting == IF st.enabled THEN st.active \cap shape ELSE {}
             vel == ProcessPolygons(v, seen, st.active, shape, st.enabled).vel
             low == Lowest(Demands(v, seen, acting))
             kept == read.data
             o == IF ZeroIsSilent(st, vel) THEN st.out ELSE vel
             g == IF vel = 0 /\ st.prev # 0 THEN 0 ELSE st.age
             w == [st EXCEPT !.out = o, !.age = g, !.data = kept]
  <2>2. v \in Velocities /\ shape \in SUBSET PolygonSet /\ st.at = "active"
    BY <1>7 DEF Velocities, updatePolygon, MonitorStates, PolygonSet, Cm_process, In
  <2>3. source \in {"points", "invalid", "empty"} /\ kept \in {"none", "fresh", "stale"}
    BY SourceAnswers, Zenon
  <2>4. in \in SUBSET {"limit", "slowdown", "stop"} /\ hits \in SUBSET (0 .. CmSteps + 1)
    BY DEF PolygonSet
  <2>5. seen \in SeenSets
    <3> HIDE DEF in, hits
    <3> QED BY <2>3, <2>4 DEF SeenSets
  <2>6. /\ st' = [publishVelocity(st, vel) EXCEPT !.data = kept, !.shape = shape, !.prev = vel,
                                                  !.allowed = low]
    BY <2>1 DEF Cm_processes, Become
  <2> HIDE DEF source, in, hits, seen, shape, kept
  <2>7. vel \in Nat /\ \A y \in Demands(v, seen, acting) : y \in Nat /\ vel <= y
    <3>1. acting = IF st.enabled THEN st.active \cap shape ELSE {}
      OBVIOUS
    <3> HIDE DEF acting
    <3> QED BY <2>2, <2>5, <3>1, ProcessIsSafe, ZenonT(40)
  <2> HIDE DEF vel
  <2>8. low \in Nat /\ vel <= low
    <3>1. v \in Demands(v, seen, acting)
      BY DEF Demands
    <3>2. Demands(v, seen, acting) \in SUBSET Nat /\ Demands(v, seen, acting) # {}
      BY <2>7, <3>1, Zenon
    <3> QED BY <3>2, <2>7, LowestIs, Zenon
  <2> HIDE DEF low, acting
  <2>9. o \in Int /\ g \in Int /\ (vel = 0 => o = 0)
    BY <2>2, <2>7 DEF ZeroIsSilent, MonitorStates
  <2>10. st' = [w EXCEPT !.shape = shape, !.prev = vel, !.allowed = low]
    <3>1. publishVelocity(st, vel) = [st EXCEPT !.out = o, !.age = g]
      BY DEF publishVelocity
    <3>2. st \in MonitorStates
      OBVIOUS
    <3> HIDE DEF o, g
    <3> QED BY ONLY <2>6, <3>1, <3>2 DEF MonitorStates, w
  <2> HIDE DEF o, g
  <2>11. w \in MonitorStates /\ w.out = o /\ w.at = "active" /\ w.detected = st.detected /\ w.points = st.points
    BY <2>2, <2>3, <2>9, Zenon DEF MonitorStates
  <2> HIDE DEF w
  <2>12. vel \in Int
    BY <2>7
  <2>13. /\ st' \in MonitorStates /\ st'.prev = vel /\ st'.allowed = low /\ st'.out = o
         /\ st'.at = "active" /\ st'.detected = st.detected /\ st'.points = st.points
    BY ONLY <2>2, <2>8, <2>10, <2>11, <2>12, Zenon DEF MonitorStates
  <2>14. part' \notin Detectors
    BY <1>7, <1>p DEF Cm_process, In, Monitors, Detectors
  <2> QED BY <2>8, <2>9, <2>13, <2>14
<1>8. CASE Cm_time \/ toggleCMServiceCallback \/ Source_dynamicParametersCallback
  BY <1>8 DEF Cm_time, toggleCMServiceCallback, Source_dynamicParametersCallback, Become, MonitorStates
<1>9. CASE Cd_on_deactivate
  BY <1>0, <1>9 DEF Cd_on_deactivate, Become, In, MonitorStates
<1>10. CASE Cd_process
  <2>1. PICK read \in sourceReads(st), inside \in SUBSET PolygonSet :
          LET found == IF read.source = "points" THEN inside ELSE {} IN
          st' = [st EXCEPT !.data = read.data,
                           !.detected = found \cap st.active \cap st.shape, !.points = found]
    BY <1>10, Zenon DEF Cd_process, Become
  <2> DEFINE found == IF read.source = "points" THEN inside ELSE {}
             d == found \cap st.active \cap st.shape
             kept == read.data
  <2>0. kept \in {"none", "fresh", "stale"}
    BY SourceAnswers, Zenon
  <2>2. found \in SUBSET PolygonSet /\ d \in SUBSET PolygonSet /\ d \subseteq found
    OBVIOUS
  <2>3. st' = [st EXCEPT !.data = kept, !.detected = d, !.points = found]
    BY <2>1
  <2> HIDE DEF found, d, kept
  <2> QED BY <1>p, <2>0, <2>2, <2>3, Zenon DEF MonitorStates
<1> QED BY <1>1, <1>2, <1>3, <1>4, <1>5, <1>6, <1>7, <1>8, <1>9, <1>10, Zenon DEF CollisionMonitorNext

-----------------------------------------------------------------------------
(* The dock plugin, the dock database and the docking controller *)

Poses == [frame : {"none", "map", "odom"}, place : {"none", "here", "away"}]
PluginStates ==
  [at : {"ready"}, battery : BOOLEAN, external : BOOLEAN, stall : BOOLEAN, filtering : BOOLEAN,
   now : Nat, is_charging : BOOLEAN, is_stalled : BOOLEAN, dock_pose : Poses,
   detected : [stamp : Int, frame : {"none", "map", "odom"}],
   filter : [stamp : Int, frame : {"none", "map", "odom"}, gap : Int],
   asked : {"none", "map", "odom"}, refined : BOOLEAN,
   told : {"none", "docked", "undocked", "charging", "stopped"}]

\* What a refined pose is, at once and until the next call.
PluginInv ==
  /\ st \in PluginStates
  /\ st.refined => st.dock_pose.frame = st.asked
  /\ st.refined /\ st.external => st.now - st.detected.stamp <= DkTimeout
  /\ st.filter.gap <= DkTimeout

\* PluginInv holds when the dock plugin is configured.
LEMMA PluginInitInv == st \in dockConfigure => PluginInv
<1> SUFFICES ASSUME st \in dockConfigure PROVE PluginInv
  OBVIOUS
<1> DEFINE zero == 0
           d == [stamp |-> zero, frame |-> "none"]
           f == [stamp |-> zero, frame |-> "none", gap |-> zero]
           off == FALSE
<1>1. PICK b \in BOOLEAN, e \in BOOLEAN, s \in BOOLEAN, g \in BOOLEAN :
        st = [at |-> "ready", battery |-> b, external |-> e, stall |-> s, filtering |-> g,
              now |-> zero, is_charging |-> off, is_stalled |-> off, dock_pose |-> NoPose,
              detected |-> d, filter |-> f, asked |-> "none", refined |-> off, told |-> "none"]
  BY SMTT(30) DEF dockConfigure
<1>2. zero \in Int /\ zero \in Nat /\ zero <= DkTimeout /\ off \in BOOLEAN /\ NoPose \in Poses
  BY DocksAssumption DEF NoPose, Poses
<1> HIDE DEF zero
<1>3. d \in [stamp : Int, frame : {"none", "map", "odom"}]
      /\ f \in [stamp : Int, frame : {"none", "map", "odom"}, gap : Int] /\ f.gap = zero
  BY <1>2
<1> HIDE DEF d, f, off
<1>4. st \in PluginStates /\ st.refined = off /\ st.filter = f
  BY ONLY <1>1, <1>2, <1>3 DEF PluginStates
<1> QED BY <1>2, <1>3, <1>4 DEF PluginInv, off

\* The filter blends only detections at most the timeout apart.
LEMMA FilterIs ==
  ASSUME NEW f \in [stamp : Int, frame : {"none", "map", "odom"}, gap : Int], f.gap <= DkTimeout,
         NEW stamp \in Int, NEW frame \in Frames
  PROVE  /\ filterUpdate(f, stamp, frame) \in [stamp : Int, frame : {"none", "map", "odom"}, gap : Int]
         /\ filterUpdate(f, stamp, frame).gap <= DkTimeout
         /\ filterUpdate(f, stamp, frame).frame = frame
<1>0. DkTimeout \in Nat /\ frame \in {"none", "map", "odom"}
  BY DocksAssumption DEF Frames
<1> DEFINE zero == 0
           gap == IF stamp - f.stamp > f.gap THEN stamp - f.stamp ELSE f.gap
<1>1. CASE stamp - f.stamp > DkTimeout \/ f.frame # frame
  <2>1. filterUpdate(f, stamp, frame) = [stamp |-> stamp, frame |-> frame, gap |-> zero]
        /\ zero \in Int /\ zero <= DkTimeout
    BY <1>0, <1>1 DEF filterUpdate
  <2> HIDE DEF zero
  <2> QED BY <1>0, <2>1
<1>2. CASE ~(stamp - f.stamp > DkTimeout \/ f.frame # frame)
  <2>1. filterUpdate(f, stamp, frame) = [stamp |-> stamp, frame |-> frame, gap |-> gap]
    BY <1>2 DEF filterUpdate
  <2>2. gap \in Int /\ gap <= DkTimeout
    BY <1>0, <1>2
  <2> HIDE DEF gap
  <2> QED BY <1>0, <2>1, <2>2
<1> QED BY <1>1, <1>2

\* Every call and every message keeps PluginInv.
LEMMA PluginNextInv ==
  ASSUME PluginInv, DockNext
  PROVE  PluginInv'
<1> DEFINE off == FALSE
<1>0. st \in PluginStates /\ DkTimeout \in Nat /\ off \in BOOLEAN
  BY DocksAssumption DEF PluginInv
<1>a. ASSUME NEW s \in PluginStates, s.refined = FALSE, s.filter = st.filter, st' = s PROVE PluginInv'
  BY <1>a DEF PluginInv
<1>1. CASE dockTick
  <2> DEFINE n == st.now + 1
  <2>1. st' = [st EXCEPT !.now = n, !.refined = off, !.told = "none"]
    BY <1>1 DEF dockTick, Become
  <2>2. n \in Nat
    BY <1>0 DEF PluginStates
  <2> HIDE DEF n, off
  <2>3. st' \in PluginStates /\ st'.refined = off /\ st'.filter = st.filter
    BY ONLY <1>0, <2>1, <2>2, Zenon DEF PluginStates
  <2> QED BY <1>a, <2>3, Zenon DEF off
<1>2. CASE batteryState
  <2>1. PICK c \in BOOLEAN : st' = [st EXCEPT !.is_charging = c, !.refined = off, !.told = "none"]
    BY <1>2, Zenon DEF batteryState, Become
  <2> HIDE DEF off
  <2>3. st' \in PluginStates /\ st'.refined = off /\ st'.filter = st.filter
    BY ONLY <1>0, <2>1, c \in BOOLEAN, ZenonT(40) DEF PluginStates
  <2> QED BY <1>a, <2>3, Zenon DEF off
<1>3. CASE detectedDockPose
  <2>1. PICK f \in Frames, delay \in 0 .. 1 :
          st' = [st EXCEPT !.detected = [stamp |-> st.now - delay, frame |-> f],
                           !.refined = off, !.told = "none"]
    BY <1>3, Zenon DEF detectedDockPose, Become
  <2> DEFINE d == [stamp |-> st.now - delay, frame |-> f]
  <2>2. d \in [stamp : Int, frame : {"none", "map", "odom"}]
    BY <1>0 DEF PluginStates, Frames
  <2> HIDE DEF d, off
  <2>3. st' \in PluginStates /\ st'.refined = off /\ st'.filter = st.filter
    BY ONLY <1>0, <2>1, <2>2, Zenon DEF PluginStates, d
  <2> QED BY <1>a, <2>3, Zenon DEF off
<1>4. CASE jointStateCallback
  <2>1. PICK c \in BOOLEAN : st' = [st EXCEPT !.is_stalled = c, !.refined = off, !.told = "none"]
    BY <1>4, Zenon DEF jointStateCallback, Become
  <2> HIDE DEF off
  <2>3. st' \in PluginStates /\ st'.refined = off /\ st'.filter = st.filter
    BY ONLY <1>0, <2>1, c \in BOOLEAN, ZenonT(40) DEF PluginStates
  <2> QED BY <1>a, <2>3, Zenon DEF off
<1>5. CASE getStagingPose
  <2>1. PICK f \in Frames, p \in Places :
          st' = [st EXCEPT !.dock_pose = IF st.external THEN @ ELSE [frame |-> f, place |-> p],
                           !.refined = off, !.told = "none"]
    BY <1>5, Zenon DEF getStagingPose, Become
  <2> DEFINE pose == IF st.external THEN st.dock_pose ELSE [frame |-> f, place |-> p]
  <2>2. pose \in Poses
    BY <1>0 DEF PluginStates, Frames, Places, Poses
  <2>3. st' = [st EXCEPT !.dock_pose = pose, !.refined = off, !.told = "none"]
    BY <2>1
  <2> HIDE DEF pose, off
  <2>4. st' \in PluginStates /\ st'.refined = off /\ st'.filter = st.filter
    BY ONLY <1>0, <2>2, <2>3, Zenon DEF PluginStates
  <2> QED BY <1>a, <2>4, Zenon DEF off
<1>6. CASE getRefinedPose
  <2>1. PICK asked \in Frames, p \in Places, transforms \in BOOLEAN :
          LET late == st.now - st.detected.stamp > DkTimeout
              unplaced == st.detected.frame # asked /\ ~transforms
              f == IF st.filtering THEN filterUpdate(st.filter, st.detected.stamp, asked) ELSE st.filter
          IN  IF ~st.external
              THEN st' = [st EXCEPT !.dock_pose = [frame |-> asked, place |-> p], !.refined = TRUE, !.asked = asked, !.told = "none"]
              ELSE IF late \/ unplaced
              THEN st' = [st EXCEPT !.refined = FALSE, !.asked = asked, !.told = "none"]
              ELSE st' = [st EXCEPT !.filter = f, !.refined = TRUE, !.asked = asked, !.told = "none",
                                    !.dock_pose = [frame |-> IF st.filtering THEN f.frame ELSE asked, place |-> p]]
    BY <1>6, Zenon DEF getRefinedPose, Become
  <2> DEFINE f == IF st.filtering THEN filterUpdate(st.filter, st.detected.stamp, asked) ELSE st.filter
             pose == [frame |-> asked, place |-> p]
             on == TRUE
  <2>2. /\ f \in [stamp : Int, frame : {"none", "map", "odom"}, gap : Int] /\ f.gap <= DkTimeout
        /\ st.filtering => f.frame = asked
    <3>1. st.filter \in [stamp : Int, frame : {"none", "map", "odom"}, gap : Int]
          /\ st.filter.gap <= DkTimeout /\ st.detected.stamp \in Int
      BY <1>0 DEF PluginInv, PluginStates
    <3> QED BY <3>1, FilterIs
  <2>3. pose \in Poses /\ pose.frame = asked /\ asked \in {"none", "map", "odom"} /\ on \in BOOLEAN
    BY DEF Poses, Frames, Places
  <2>4. CASE ~st.external
    <3>1. st' = [st EXCEPT !.dock_pose = pose, !.refined = on, !.asked = asked, !.told = "none"]
      BY <2>1, <2>4
    <3> HIDE DEF pose, on, f
    <3>2. st' \in PluginStates /\ st'.dock_pose = pose /\ st'.asked = asked /\ st'.filter = st.filter
          /\ st'.external = st.external
      BY ONLY <1>0, <2>3, <3>1, Zenon DEF PluginStates
    <3> QED BY <2>3, <2>4, <3>2 DEF PluginInv
  <2>5. CASE st' = [st EXCEPT !.refined = FALSE, !.asked = asked, !.told = "none"]
    <3>1. st' = [st EXCEPT !.refined = off, !.asked = asked, !.told = "none"]
      BY <2>5
    <3> HIDE DEF pose, on, f, off
    <3>2. st' \in PluginStates /\ st'.refined = off /\ st'.filter = st.filter
      BY ONLY <1>0, <2>3, <3>1, Zenon DEF PluginStates
    <3> QED BY <1>a, <3>2, Zenon DEF off
  <2>6. CASE st.external /\ ~(st.now - st.detected.stamp > DkTimeout)
             /\ st' = [st EXCEPT !.filter = f, !.refined = TRUE, !.asked = asked, !.told = "none",
                                 !.dock_pose = [frame |-> IF st.filtering THEN f.frame ELSE asked, place |-> p]]
    <3>1. st' = [st EXCEPT !.filter = f, !.refined = on, !.asked = asked, !.told = "none", !.dock_pose = pose]
      BY <2>2, <2>6, Zenon
    <3> DEFINE w == [st EXCEPT !.filter = f, !.refined = on]
    <3>2. st' = [w EXCEPT !.asked = asked, !.told = "none", !.dock_pose = pose]
      BY <3>1
    <3> HIDE DEF pose, on, f
    <3>3. w \in PluginStates /\ w.filter = f /\ w.external = st.external /\ w.now = st.now /\ w.detected = st.detected
      BY ONLY <1>0, <2>2, <2>3, Zenon DEF PluginStates, w
    <3> HIDE DEF w
    <3>4. st' \in PluginStates /\ st'.dock_pose = pose /\ st'.asked = asked /\ st'.filter = f
          /\ st'.external = st.external /\ st'.now = st.now /\ st'.detected = st.detected
      BY ONLY <2>3, <3>2, <3>3, Zenon DEF PluginStates
    <3>5. st.now \in Int /\ st.detected.stamp \in Int
      BY <1>0 DEF PluginStates
    <3> QED BY <1>0, <2>2, <2>3, <2>6, <3>4, <3>5 DEF PluginInv
  <2> QED BY <2>1, <2>4, <2>5, <2>6
<1>7. CASE isDocked \/ isCharging
  <2>1. PICK t \in {"none", "docked", "undocked", "charging", "stopped"} :
          st' = [st EXCEPT !.told = t, !.refined = off]
    BY <1>7, Zenon DEF isDocked, isCharging, Become
  <2> HIDE DEF off
  <2>3. st' \in PluginStates /\ st'.refined = off /\ st'.filter = st.filter
    BY ONLY <1>0, <2>1, t \in {"none", "docked", "undocked", "charging", "stopped"}, Zenon DEF PluginStates
  <2> QED BY <1>a, <2>3, Zenon DEF off
<1> QED BY <1>1, <1>2, <1>3, <1>4, <1>5, <1>6, <1>7 DEF DockNext

\* The controller: a pose that was checked and collides ends the simulation with a refusal.
ControllerStates ==
  [at : {"simulate", "done"}, docking : BOOLEAN, detection : BOOLEAN, poses : Int, hit : BOOLEAN,
   answer : {"none", "noTransform", "collision", "free"}]
ControllerInv ==
  /\ st \in ControllerStates
  /\ st.at = "simulate" => ~st.hit /\ st.answer = "none"
  /\ st.answer = "free" => ~st.hit
  /\ st.at = "simulate" => st.poses = 1 \/ st.poses < DkSteps
  /\ st.poses <= IF DkSteps < 2 THEN 2 ELSE DkSteps

\* ControllerInv holds when the docking controller is made.
LEMMA ControllerInitInv == st \in controllerInit => ControllerInv
<1> SUFFICES ASSUME st \in controllerInit PROVE ControllerInv
  OBVIOUS
<1> DEFINE one == 1  off == FALSE
<1>1. PICK d \in BOOLEAN, c \in BOOLEAN :
        st = [at |-> "simulate", docking |-> d, detection |-> c, poses |-> one, hit |-> off, answer |-> "none"]
  BY DEF controllerInit
<1>2. one \in Int /\ off \in BOOLEAN
  OBVIOUS
<1> HIDE DEF one, off
<1>3. st \in ControllerStates /\ st.poses = one /\ st.hit = off /\ st.at = "simulate" /\ st.answer = "none"
  BY ONLY <1>1, <1>2 DEF ControllerStates
<1> QED BY <1>3, DocksAssumption DEF ControllerInv, one, off

\* Every step of the docking controller keeps ControllerInv.
LEMMA ControllerNextInv ==
  ASSUME ControllerInv, DockControllerNext
  PROVE  ControllerInv'
<1> USE DocksAssumption
<1> DEFINE one == 1  off == FALSE  on == TRUE  n == st.poses + 1
<1>0. st \in ControllerStates /\ one \in Int /\ off \in BOOLEAN /\ on \in BOOLEAN /\ st.poses \in Int /\ n \in Int
  BY DEF ControllerInv, ControllerStates
<1>1. CASE computeVelocityCommand
  <2>1. st' = [st EXCEPT !.at = "done", !.answer = "noTransform"] /\ st.poses = 1
    BY <1>1 DEF computeVelocityCommand, Become
  <2>2. st' \in ControllerStates /\ st'.at = "done" /\ st'.answer = "noTransform" /\ st'.poses = st.poses
    BY ONLY <1>0, <2>1, Zenon DEF ControllerStates
  <2> QED BY <2>1, <2>2 DEF ControllerInv
<1>2. CASE isTrajectoryCollisionFree
  <2>0. st.at = "simulate" /\ ~st.hit /\ (st.poses = 1 \/ st.poses < DkSteps)
    BY <1>2 DEF isTrajectoryCollisionFree, ControllerInv
  <2>1. CASE st' = [st EXCEPT !.at = "done", !.poses = n, !.hit = on, !.answer = "collision"]
    <3> HIDE DEF n, on
    <3>1. st' \in ControllerStates /\ st'.at = "done" /\ st'.answer = "collision" /\ st'.poses = n
      BY ONLY <1>0, <2>1, Zenon DEF ControllerStates
    <3> QED BY <1>0, <2>0, <3>1 DEF ControllerInv, n
  <2>2. CASE st' = [st EXCEPT !.poses = n] /\ n < DkSteps
    <3> HIDE DEF n
    <3>1. st' \in ControllerStates /\ st'.at = st.at /\ st'.answer = st.answer /\ st'.poses = n /\ st'.hit = st.hit
      BY ONLY <1>0, <2>2 DEF ControllerStates
    <3> QED BY <1>0, <2>0, <2>2, <3>1 DEF ControllerInv
  <2>3. CASE st' = [st EXCEPT !.at = "done", !.poses = n, !.answer = "free"]
    <3> HIDE DEF n
    <3>1. st' \in ControllerStates /\ st'.at = "done" /\ st'.answer = "free" /\ st'.poses = n /\ st'.hit = st.hit
      BY ONLY <1>0, <2>3, Zenon DEF ControllerStates
    <3> QED BY <1>0, <2>0, <3>1 DEF ControllerInv, n
  <2> QED BY <1>2, <2>1, <2>2, <2>3 DEF isTrajectoryCollisionFree, Become
<1>3. CASE controllerDrives
  <2>1. st' = [st EXCEPT !.at = "simulate", !.poses = one, !.hit = off, !.answer = "none"]
    BY <1>3 DEF controllerDrives, Become
  <2> HIDE DEF one, off
  <2>2. st' \in ControllerStates /\ st'.at = "simulate" /\ st'.answer = "none" /\ st'.poses = one /\ st'.hit = off
    BY ONLY <1>0, <2>1, Zenon DEF ControllerStates
  <2> QED BY <2>2 DEF ControllerInv, one, off
<1>4. CASE dockControllerParameters
  <2>1. PICK d \in BOOLEAN : st' = [st EXCEPT !.docking = d]
    BY <1>4 DEF dockControllerParameters, Become
  <2>2. st' \in ControllerStates /\ st'.at = st.at /\ st'.answer = st.answer /\ st'.poses = st.poses /\ st'.hit = st.hit
    BY ONLY <1>0, <2>1, d \in BOOLEAN DEF ControllerStates
  <2> QED BY <2>2 DEF ControllerInv
<1> QED BY <1>1, <1>2, <1>3, <1>4 DEF DockControllerNext

-----------------------------------------------------------------------------
\* The database: the dock in use is in the table and has a plugin.
DatabaseInv ==
  /\ st = [at |-> st.at, plugins |-> st.plugins, docks |-> st.docks, locked |-> st.locked,
           dock |-> st.dock, told |-> st.told]
  /\ st.locked \in BOOLEAN
  /\ st.at = "new" => ~st.locked
  /\ st.locked =>
       /\ st.dock.name \in DOMAIN st.docks /\ st.docks[st.dock.name] = st.dock.type
       /\ findDockPlugin(st.plugins, st.dock.type) # {}

\* DatabaseInv holds when the dock database is made.
LEMMA DatabaseInitInv == st \in databaseInit => DatabaseInv
<1> SUFFICES ASSUME st \in databaseInit PROVE DatabaseInv
  OBVIOUS
<1> DEFINE p == {}  e == [d \in {} |-> ""]  k == [name |-> "none", type |-> ""]
<1>1. st = [at |-> "new", plugins |-> p, docks |-> e, locked |-> FALSE, dock |-> k, told |-> "none"]
  BY Zenon DEF databaseInit
<1> HIDE DEF p, e, k
<1> QED BY <1>1 DEF DatabaseInv

\* Every step of the dock database keeps DatabaseInv.
LEMMA DatabaseNextInv ==
  ASSUME DatabaseInv, DatabaseNext
  PROVE  DatabaseInv'
<1> USE DEF DatabaseInv
<1>1. CASE databaseInitialize
  <2>1. st.locked = FALSE
    BY <1>1 DEF databaseInitialize
  <2>2. st'.locked = FALSE /\ st' = [at |-> st'.at, plugins |-> st'.plugins, docks |-> st'.docks, locked |-> st'.locked,
           dock |-> st'.dock, told |-> st'.told]
    BY <1>1, <2>1, Zenon DEF databaseInitialize, Become
  <2> QED BY <2>2, Zenon
<1>2. CASE reloadDbCb
  <2>1. CASE st' = [st EXCEPT !.told = "refused"]
    BY <2>1
  <2>2. ASSUME NEW d, ~st.locked, st' = [st EXCEPT !.docks = d, !.told = "reloaded"] PROVE DatabaseInv'
    BY <2>2, <1>2, Zenon DEF reloadDbCb
  <2> QED BY <1>2, <2>1, <2>2, Zenon DEF reloadDbCb, Become
<1>3. CASE findDock
  <2>1. CASE st' = [st EXCEPT !.told = "notFound"]
    BY <2>1
  <2>2. ASSUME NEW d, d \in DOMAIN st.docks /\ findDockPlugin(st.plugins, st.docks[d]) # {},
               st' = [st EXCEPT !.locked = TRUE, !.dock = [name |-> d, type |-> st.docks[d]], !.told = "none"]
        PROVE  DatabaseInv'
    <3> DEFINE k == [name |-> d, type |-> st.docks[d]]
    <3>1. k.name = d /\ k.type = st.docks[d] /\ st' = [st EXCEPT !.locked = TRUE, !.dock = k, !.told = "none"]
      BY <2>2
    <3> HIDE DEF k
    <3>2. st.at # "new"
      BY <1>3 DEF findDock
    <3>3. /\ st'.at = st.at /\ st'.locked = TRUE /\ st'.dock = k /\ st'.docks = st.docks /\ st'.plugins = st.plugins
          /\ st' = [at |-> st'.at, plugins |-> st'.plugins, docks |-> st'.docks, locked |-> st'.locked,
                    dock |-> st'.dock, told |-> st'.told]
      BY <3>1, Zenon
    <3> QED BY <2>2, <3>1, <3>2, <3>3
  <2> QED BY <1>3, <2>1, <2>2, Zenon DEF findDock, Become
<1>4. CASE dockActionEnds
  <2>1. st'.locked = FALSE /\ st' = [at |-> st'.at, plugins |-> st'.plugins, docks |-> st'.docks, locked |-> st'.locked,
           dock |-> st'.dock, told |-> st'.told]
    BY <1>4, Zenon DEF dockActionEnds, Become
  <2> QED BY <2>1, Zenon
<1> QED BY <1>1, <1>2, <1>3, <1>4 DEF DatabaseNext

Transforms == Int \X Int \X (0..3)
Twists == Int \X Int \X Int

\* A turn by quarters gives whole coordinates, and depends on the angle modulo a full turn only.
LEMMA TurnedIs ==
  ASSUME NEW q, NEW x, NEW y,
         q \in Int, x \in Int, y \in Int
  PROVE  /\ Turned(q, x, y) \in Int \X Int
         /\ q % 4 = 0 => Turned(q, x, y)[1] = x /\ Turned(q, x, y)[2] = y
         /\ q % 4 = 1 => Turned(q, x, y)[1] = -y /\ Turned(q, x, y)[2] = x
         /\ q % 4 = 2 => Turned(q, x, y)[1] = -x /\ Turned(q, x, y)[2] = -y
         /\ q % 4 = 3 => Turned(q, x, y)[1] = y /\ Turned(q, x, y)[2] = -x
<1>1. -x \in Int /\ -y \in Int /\ q % 4 \in 0..3
  OBVIOUS
<1>2. CASE q % 4 = 0
  BY <1>1, <1>2 DEF Turned
<1>3. CASE q % 4 = 1
  BY <1>1, <1>3 DEF Turned
<1>4. CASE q % 4 = 2
  BY <1>1, <1>4 DEF Turned
<1>5. CASE q % 4 = 3
  BY <1>1, <1>5 DEF Turned
<1> QED BY <1>1, <1>2, <1>3, <1>4, <1>5, SMTT(30)

\* The four quarter turns.
LEMMA QuarterTurn ==
  ASSUME NEW q, NEW x, NEW y,
         q \in 0..3, x \in Int, y \in Int
  PROVE  /\ q = 0 => Turned(q, x, y)[1] = x /\ Turned(q, x, y)[2] = y
         /\ q = 1 => Turned(q, x, y)[1] = -y /\ Turned(q, x, y)[2] = x
         /\ q = 2 => Turned(q, x, y)[1] = -x /\ Turned(q, x, y)[2] = -y
         /\ q = 3 => Turned(q, x, y)[1] = y /\ Turned(q, x, y)[2] = -x
<1>1. q \in Int /\ q % 4 = q
  OBVIOUS
<1> QED BY <1>1, TurnedIs

\* The composition of two transforms, coordinate by coordinate.
LEMMA ComposedIs ==
  ASSUME NEW a \in Twists, NEW b \in Twists
  PROVE  /\ Composed(a, b) \in Transforms
         /\ Composed(a, b)[1] = a[1] + Turned(a[3], b[1], b[2])[1]
         /\ Composed(a, b)[2] = a[2] + Turned(a[3], b[1], b[2])[2]
         /\ Composed(a, b)[3] = (a[3] + b[3]) % 4
<1>1. a[1] \in Int /\ a[2] \in Int /\ a[3] \in Int /\ b[1] \in Int /\ b[2] \in Int /\ b[3] \in Int
  BY DEF Twists
<1> DEFINE t == Turned(a[3], b[1], b[2])
<1>2. t \in Int \X Int
  BY <1>1, TurnedIs
<1> HIDE DEF t
<1>3. t[1] \in Int /\ t[2] \in Int
  BY <1>2
<1>4. (a[3] + b[3]) % 4 \in 0..3
  BY <1>1
<1>5. Composed(a, b) = <<a[1] + t[1], a[2] + t[2], (a[3] + b[3]) % 4>>
  BY DEF Composed, t
<1> DEFINE x == a[1] + t[1]  y == a[2] + t[2]  z == (a[3] + b[3]) % 4
<1>6. x \in Int /\ y \in Int /\ z \in 0..3
  BY <1>1, <1>3, <1>4
<1> HIDE DEF x, y, z
<1>7. Composed(a, b) = <<x, y, z>>
  BY <1>5 DEF x, y, z
<1>8. Composed(a, b) \in Transforms /\ Composed(a, b)[1] = x /\ Composed(a, b)[2] = y /\ Composed(a, b)[3] = z
  BY ONLY <1>6, <1>7 DEF Transforms
<1> QED BY <1>8 DEF x, y, z, t

\* Transforms are twists, and equal if their coordinates are.
LEMMA TransformsAre ==
  /\ Transforms \subseteq Twists
  /\ \A p, q : p \in Transforms /\ q \in Transforms /\ p[1] = q[1] /\ p[2] = q[2] /\ p[3] = q[3] => p = q
<1>1. 0..3 \subseteq Int
  OBVIOUS
<1> DEFINE T == 0..3
<1> HIDE DEF T
<1>2. T \subseteq Int
  BY <1>1 DEF T
<1>3. (Int \X Int \X T) \subseteq (Int \X Int \X Int)
  BY ONLY <1>2, Zenon
<1>4. \A p, q : p \in Int \X Int \X T /\ q \in Int \X Int \X T /\ p[1] = q[1] /\ p[2] = q[2] /\ p[3] = q[3] => p = q
  OBVIOUS
<1> QED BY <1>3, <1>4 DEF Transforms, Twists, T

\* Composition of transforms is associative.
LEMMA ComposedAssociates ==
  ASSUME NEW a \in Transforms, NEW b \in Transforms, NEW c \in Twists
  PROVE  Composed(Composed(a, b), c) = Composed(a, Composed(b, c))
<1> DEFINE ab == Composed(a, b)  bc == Composed(b, c)
           a1 == a[1]  a2 == a[2]  p == a[3]  b1 == b[1]  b2 == b[2]  q == b[3]  c1 == c[1]  c2 == c[2]  r == c[3]
<1>1. a \in Twists /\ b \in Twists
  BY TransformsAre
<1>2. ab \in Transforms /\ bc \in Transforms /\ ab \in Twists /\ bc \in Twists
  BY <1>1, ComposedIs, TransformsAre
<1>3. a1 \in Int /\ a2 \in Int /\ p \in 0..3 /\ b1 \in Int /\ b2 \in Int /\ q \in 0..3
      /\ c1 \in Int /\ c2 \in Int /\ r \in Int
  BY DEF Transforms, Twists
<1>6. /\ ab[1] = a1 + Turned(p, b1, b2)[1] /\ ab[2] = a2 + Turned(p, b1, b2)[2] /\ ab[3] = (p + q) % 4
      /\ bc[1] = b1 + Turned(q, c1, c2)[1] /\ bc[2] = b2 + Turned(q, c1, c2)[2] /\ bc[3] = (q + r) % 4
  BY <1>1, ComposedIs
<1> HIDE DEF ab, bc
<1>7. Composed(ab, c) \in Transforms /\ Composed(a, bc) \in Transforms
  BY <1>1, <1>2, ComposedIs
<1>8. /\ Composed(ab, c)[1] = ab[1] + Turned(ab[3], c1, c2)[1]
      /\ Composed(ab, c)[2] = ab[2] + Turned(ab[3], c1, c2)[2]
      /\ Composed(ab, c)[3] = (ab[3] + r) % 4
      /\ Composed(a, bc)[1] = a1 + Turned(p, bc[1], bc[2])[1]
      /\ Composed(a, bc)[2] = a2 + Turned(p, bc[1], bc[2])[2]
      /\ Composed(a, bc)[3] = (p + bc[3]) % 4
  BY <1>1, <1>2, ComposedIs, SMTT(30)
<1> HIDE DEF a1, a2, p, b1, b2, q, c1, c2, r
<1> DEFINE t1 == Turned(q, c1, c2)[1]  t2 == Turned(q, c1, c2)[2]  g1 == bc[1]  g2 == bc[2]  k == ab[3]
           e1 == Turned(p, b1, b2)[1]  e2 == Turned(p, b1, b2)[2]
           f1 == Turned(k, c1, c2)[1]  f2 == Turned(k, c1, c2)[2]
<1>9. /\ t1 \in Int /\ t2 \in Int /\ e1 \in Int /\ e2 \in Int /\ f1 \in Int /\ f2 \in Int
      /\ g1 = b1 + t1 /\ g2 = b2 + t2 /\ k = (p + q) % 4
  <2>1. p \in Int /\ q \in Int /\ k \in Int
    <3>1. k = (p + q) % 4
      BY <1>6
    <3> HIDE DEF k
    <3> QED BY <1>3, <3>1
  <2> HIDE DEF k
  <2>2. Turned(q, c1, c2) \in Int \X Int /\ Turned(p, b1, b2) \in Int \X Int /\ Turned(k, c1, c2) \in Int \X Int
    BY <1>3, <2>1, TurnedIs
  <2>3. t1 \in Int /\ t2 \in Int /\ e1 \in Int /\ e2 \in Int /\ f1 \in Int /\ f2 \in Int
    BY ONLY <2>2
  <2> QED BY <2>3, <1>6 DEF k
<1> DEFINE h1 == Turned(p, g1, g2)[1]  h2 == Turned(p, g1, g2)[2]
<1>10. h1 = e1 + f1 /\ h2 = e2 + f2
  <2>1. g1 \in Int /\ g2 \in Int /\ k \in 0..3
    <3> HIDE DEF t1, t2, e1, e2, f1, f2, g1, g2, k
    <3> QED BY <1>3, <1>9
  <2> HIDE DEF g1, g2, k
  <2>2. /\ q = 0 => t1 = c1 /\ t2 = c2
        /\ q = 1 => t1 = -c2 /\ t2 = c1
        /\ q = 2 => t1 = -c1 /\ t2 = -c2
        /\ q = 3 => t1 = c2 /\ t2 = -c1
    BY ONLY <1>3, QuarterTurn, SMTT(30)
  <2>3. /\ p = 0 => e1 = b1 /\ e2 = b2
        /\ p = 1 => e1 = -b2 /\ e2 = b1
        /\ p = 2 => e1 = -b1 /\ e2 = -b2
        /\ p = 3 => e1 = b2 /\ e2 = -b1
    BY ONLY <1>3, QuarterTurn
  <2>4. /\ k = 0 => f1 = c1 /\ f2 = c2
        /\ k = 1 => f1 = -c2 /\ f2 = c1
        /\ k = 2 => f1 = -c1 /\ f2 = -c2
        /\ k = 3 => f1 = c2 /\ f2 = -c1
    BY ONLY <1>3, <2>1, QuarterTurn, SMTT(30)
  <2>5. /\ p = 0 => h1 = g1 /\ h2 = g2
        /\ p = 1 => h1 = -g2 /\ h2 = g1
        /\ p = 2 => h1 = -g1 /\ h2 = -g2
        /\ p = 3 => h1 = g2 /\ h2 = -g1
    BY ONLY <1>3, <2>1, QuarterTurn
  <2> HIDE DEF t1, t2, e1, e2, f1, f2, h1, h2
  <2>6. /\ (p = 0 /\ q = 0) \/ (p = 1 /\ q = 3) \/ (p = 2 /\ q = 2) \/ (p = 3 /\ q = 1) <=> k = 0
        /\ (p = 0 /\ q = 1) \/ (p = 1 /\ q = 0) \/ (p = 2 /\ q = 3) \/ (p = 3 /\ q = 2) <=> k = 1
        /\ (p = 0 /\ q = 2) \/ (p = 1 /\ q = 1) \/ (p = 2 /\ q = 0) \/ (p = 3 /\ q = 3) <=> k = 2
        /\ (p = 0 /\ q = 3) \/ (p = 1 /\ q = 2) \/ (p = 2 /\ q = 1) \/ (p = 3 /\ q = 0) <=> k = 3
    BY ONLY <1>3, <1>9, SMTT(30)
  <2> QED BY ONLY <1>3, <1>9, <2>1, <2>2, <2>3, <2>4, <2>5, <2>6, SMTT(30)
<1>11. /\ Composed(ab, c)[1] = (a1 + e1) + f1 /\ Composed(ab, c)[2] = (a2 + e2) + f2
       /\ Composed(a, bc)[1] = a1 + (e1 + f1) /\ Composed(a, bc)[2] = a2 + (e2 + f2)
       /\ e1 \in Int /\ e2 \in Int /\ f1 \in Int /\ f2 \in Int
  BY ONLY <1>6, <1>8, <1>9, <1>10, Zenon
<1> HIDE DEF e1, e2, f1, f2
<1>12. Composed(ab, c)[1] = Composed(a, bc)[1] /\ Composed(ab, c)[2] = Composed(a, bc)[2]
  BY ONLY <1>3, <1>11
<1>13. Composed(ab, c)[3] = Composed(a, bc)[3]
  <2>1. (((p + q) % 4) + r) % 4 = (p + ((q + r) % 4)) % 4
    BY <1>3, SMTT(30)
  <2> DEFINE l == bc[3]  i == Composed(ab, c)[3]  j == Composed(a, bc)[3]
  <2>2. k = (p + q) % 4 /\ l = (q + r) % 4 /\ i = (k + r) % 4 /\ j = (p + l) % 4
    BY <1>6, <1>8
  <2> HIDE DEF k, l, i, j
  <2>3. i = j
    BY ONLY <1>3, <2>2
  <2> QED BY <2>3 DEF i, j
<1>14. Composed(ab, c) = Composed(a, bc)
  BY <1>7, <1>12, <1>13, TransformsAre
<1> QED BY <1>14 DEF ab, bc

\* The transform that does nothing is neutral.
LEMMA StillIsUnit ==
  /\ Still \in Transforms /\ Still \in Twists
  /\ \A a \in Transforms : Composed(a, Still) = a
<1> DEFINE zero == 0
<1>1. zero \in Int /\ zero \in 0..3
  OBVIOUS
<1> HIDE DEF zero
<1>2. <<zero, zero, zero>> \in Transforms /\ <<zero, zero, zero>> \in Twists
  BY ONLY <1>1 DEF Transforms, Twists
<1>3. Still \in Transforms /\ Still \in Twists /\ Still[1] = 0 /\ Still[2] = 0 /\ Still[3] = 0
  BY <1>2 DEF Still, zero
<1>4. ASSUME NEW a \in Transforms PROVE Composed(a, Still) = a
  <2>1. a \in Twists /\ a[1] \in Int /\ a[2] \in Int /\ a[3] \in 0..3
    BY TransformsAre DEF Transforms
  <2>2. /\ Composed(a, Still) \in Transforms
        /\ Composed(a, Still)[1] = a[1] + Turned(a[3], Still[1], Still[2])[1]
        /\ Composed(a, Still)[2] = a[2] + Turned(a[3], Still[1], Still[2])[2]
        /\ Composed(a, Still)[3] = (a[3] + Still[3]) % 4
    BY <1>3, <2>1, ComposedIs
  <2>3. Turned(a[3], Still[1], Still[2])[1] = 0 /\ Turned(a[3], Still[1], Still[2])[2] = 0
    <3> DEFINE u == Still[1]  v == Still[2]  q == a[3]
    <3>1. u \in Int /\ v \in Int /\ u = 0 /\ v = 0 /\ q \in 0..3
      BY <1>3, <2>1
    <3> HIDE DEF u, v, q
    <3>2. /\ q = 0 => Turned(q, u, v)[1] = u /\ Turned(q, u, v)[2] = v
          /\ q = 1 => Turned(q, u, v)[1] = -v /\ Turned(q, u, v)[2] = u
          /\ q = 2 => Turned(q, u, v)[1] = -u /\ Turned(q, u, v)[2] = -v
          /\ q = 3 => Turned(q, u, v)[1] = v /\ Turned(q, u, v)[2] = -u
      BY ONLY <3>1, QuarterTurn
    <3>3. Turned(q, u, v)[1] = 0 /\ Turned(q, u, v)[2] = 0
      BY ONLY <3>1, <3>2, SMTT(30)
    <3> QED BY <3>3 DEF u, v, q
  <2>4. Composed(a, Still)[1] = a[1] /\ Composed(a, Still)[2] = a[2] /\ Composed(a, Still)[3] = a[3]
    BY <1>3, <2>1, <2>2, <2>3
  <2> QED BY <2>2, <2>4, TransformsAre
<1> QED BY <1>3, <1>4

\* Inverted gives an inverse.
LEMMA InvertedIs ==
  ASSUME NEW a \in Transforms
  PROVE  Inverted(a) \in Transforms /\ Composed(Inverted(a), a) = Still
<1> DEFINE x == a[1]  y == a[2]  q == a[3]  n == (-q) % 4  m == -q  u == -x  v == -y  t == Turned(m, u, v)
<1>1. x \in Int /\ y \in Int /\ q \in 0..3
  BY DEF Transforms
<1>2. m \in Int /\ u \in Int /\ v \in Int /\ n \in 0..3
  <2> HIDE DEF x, y, q
  <2> QED BY <1>1
<1>3. Inverted(a) = <<t[1], t[2], n>>
  BY DEF Inverted
<1>4. t \in Int \X Int
  <2> HIDE DEF m, u, v
  <2> QED BY <1>2, TurnedIs
<1>5. /\ n = 0 => t[1] = u /\ t[2] = v
      /\ n = 1 => t[1] = -v /\ t[2] = u
      /\ n = 2 => t[1] = -u /\ t[2] = -v
      /\ n = 3 => t[1] = v /\ t[2] = -u
  <2>1. n = m % 4
    OBVIOUS
  <2> HIDE DEF n, m, u, v
  <2> QED BY ONLY <1>2, <2>1, TurnedIs
<1> DEFINE i == Inverted(a)
<1>6. i \in Transforms /\ i[1] = t[1] /\ i[2] = t[2] /\ i[3] = n /\ t[1] \in Int /\ t[2] \in Int
  <2>1. t[1] \in Int /\ t[2] \in Int
    <3> HIDE DEF t
    <3> QED BY <1>4
  <2> DEFINE t1 == t[1]  t2 == t[2]
  <2>2. t1 \in Int /\ t2 \in Int /\ i = <<t1, t2, n>>
    BY <2>1, <1>3
  <2> HIDE DEF i, n, t1, t2
  <2>3. i \in Transforms /\ i[1] = t1 /\ i[2] = t2 /\ i[3] = n
    BY ONLY <1>2, <2>2 DEF Transforms
  <2> QED BY <2>1, <2>3 DEF t1, t2
<1>7. i \in Twists /\ a \in Twists
  BY <1>6, TransformsAre
<1> HIDE DEF i
<1>8. /\ Composed(i, a) \in Transforms
      /\ Composed(i, a)[1] = i[1] + Turned(i[3], x, y)[1]
      /\ Composed(i, a)[2] = i[2] + Turned(i[3], x, y)[2]
      /\ Composed(i, a)[3] = (i[3] + q) % 4
  BY <1>7, ComposedIs, SMTT(30)
<1>9. /\ n = 0 => Turned(n, x, y)[1] = x /\ Turned(n, x, y)[2] = y
      /\ n = 1 => Turned(n, x, y)[1] = -y /\ Turned(n, x, y)[2] = x
      /\ n = 2 => Turned(n, x, y)[1] = -x /\ Turned(n, x, y)[2] = -y
      /\ n = 3 => Turned(n, x, y)[1] = y /\ Turned(n, x, y)[2] = -x
  <2> HIDE DEF n, x, y
  <2> QED BY ONLY <1>1, <1>2, QuarterTurn
<1>10. (n + q) % 4 = 0
  <2> HIDE DEF q
  <2> QED BY <1>1, SMTT(30)
<1> HIDE DEF t, n
<1>11. Composed(i, a)[1] = 0 /\ Composed(i, a)[2] = 0 /\ Composed(i, a)[3] = 0
  BY <1>1, <1>2, <1>5, <1>6, <1>8, <1>9, <1>10, SMTT(30)
<1>12. Still[1] = 0 /\ Still[2] = 0 /\ Still[3] = 0
  BY DEF Still
<1>13. Composed(i, a) = Still
  BY <1>8, <1>11, <1>12, StillIsUnit, TransformsAre
<1> QED BY <1>6, <1>13 DEF i

SimulatorStates ==
  [at : {"runs"}, time : Nat, posed : BOOLEAN, map_to_odom : Transforms, odom_to_base : Transforms,
   cmd : Twists, cmdTime : Int, should : Transforms, moved : BOOLEAN]
SimulatorInv ==
  /\ st \in SimulatorStates
  /\ st.posed => Composed(st.map_to_odom, st.odom_to_base) = st.should
  /\ st.moved => st.time - st.cmdTime <= 2

\* SimulatorInv holds when the simulator starts.
LEMMA SimulatorInitInv == st = simulatorInit => SimulatorInv
<1> SUFFICES ASSUME st = simulatorInit PROVE SimulatorInv
  OBVIOUS
<1> DEFINE zero == 0  off == FALSE  old == -3
<1>1. st = [at |-> "runs", time |-> zero, posed |-> off, map_to_odom |-> Still, odom_to_base |-> Still,
            cmd |-> Still, cmdTime |-> old, should |-> Still, moved |-> off]
  BY DEF simulatorInit
<1>2. zero \in Nat /\ off \in BOOLEAN /\ old \in Int /\ off = FALSE
  OBVIOUS
<1> HIDE DEF zero, off, old
<1>3. st \in SimulatorStates /\ st.posed = off /\ st.moved = off
  BY ONLY <1>1, <1>2, StillIsUnit DEF SimulatorStates
<1> QED BY <1>2, <1>3 DEF SimulatorInv

\* Every callback of the simulator keeps SimulatorInv.
LEMMA SimulatorNextInv ==
  ASSUME SimulatorInv, initialPoseCallback \/ cmdVelCallback \/ timerCallback
  PROVE  SimulatorInv'
<1> DEFINE m == st.map_to_odom  o == st.odom_to_base  s == st.should
<1>0. /\ st \in SimulatorStates /\ m \in Transforms /\ o \in Transforms /\ s \in Transforms /\ st.cmd \in Twists
      /\ st.time \in Nat /\ st.cmdTime \in Int /\ st.posed \in BOOLEAN /\ st.moved \in BOOLEAN
      /\ st.posed => Composed(m, o) = s
      /\ st.moved => st.time - st.cmdTime <= 2
  BY DEF SimulatorInv, SimulatorStates
<1>1. CASE initialPoseCallback
  <2> DEFINE on == TRUE  off == FALSE
  <2>0. on \in BOOLEAN /\ off \in BOOLEAN /\ off = FALSE
    BY SMTT(30)
  <2>1. PICK p \in SimPoses :
          st' = [st EXCEPT !.posed = on, !.should = p, !.moved = off,
                           !.map_to_odom = IF ~st.posed THEN p ELSE Composed(p, Inverted(st.odom_to_base)),
                           !.odom_to_base = IF ~st.posed THEN Still ELSE @]
    BY <1>1, Zenon DEF initialPoseCallback, Become
  <2>2. p \in Transforms /\ p \in Twists
    BY TransformsAre, SimulatorAssumption, SMTT(30) DEF Transforms
  <2> DEFINE m1 == IF ~st.posed THEN p ELSE Composed(p, Inverted(o))
             o1 == IF ~st.posed THEN Still ELSE o
  <2>3. Inverted(o) \in Transforms /\ Inverted(o) \in Twists /\ o \in Twists
    BY <1>0, InvertedIs, TransformsAre, SMTT(30)
  <2>4. Composed(p, Inverted(o)) \in Transforms
    BY <2>2, <2>3, ComposedIs, SMTT(30)
  <2>5. m1 \in Transforms /\ o1 \in Transforms
    BY <1>0, <2>2, <2>4, StillIsUnit
  <2>6. Composed(m1, o1) = p
    <3>1. CASE ~st.posed
      <4>1. m1 = p /\ o1 = Still
        BY <3>1, SMTT(30)
      <4> QED BY <4>1, <2>2, StillIsUnit
    <3>2. CASE st.posed
      <4>1. m1 = Composed(p, Inverted(o)) /\ o1 = o
        BY <3>2
      <4>2. Composed(Composed(p, Inverted(o)), o) = Composed(p, Composed(Inverted(o), o))
        BY <1>0, <2>2, <2>3, ComposedAssociates
      <4> QED BY <4>1, <4>2, <2>2, <1>0, InvertedIs, StillIsUnit
    <3> QED BY <3>1, <3>2
  <2>7. st' = [st EXCEPT !.posed = on, !.should = p, !.moved = off, !.map_to_odom = m1, !.odom_to_base = o1]
    BY <2>1
  <2> HIDE DEF m1, o1, on, off
  <2> DEFINE w == [st EXCEPT !.posed = on, !.should = p, !.moved = off]
  <2>8. w \in SimulatorStates /\ w.should = p /\ w.moved = off
    BY ONLY <1>0, <2>0, <2>2, Zenon DEF SimulatorStates
  <2>9. st' = [w EXCEPT !.map_to_odom = m1, !.odom_to_base = o1]
    BY <2>7, <1>0 DEF SimulatorStates
  <2> HIDE DEF w
  <2>10. /\ st' \in SimulatorStates /\ st'.map_to_odom = m1 /\ st'.odom_to_base = o1
         /\ st'.should = p /\ st'.moved = off
    BY ONLY <2>5, <2>8, <2>9, Zenon DEF SimulatorStates
  <2> QED BY <2>0, <2>6, <2>10 DEF SimulatorInv
<1>2. CASE cmdVelCallback
  <2> DEFINE off == FALSE
  <2>0. off \in BOOLEAN /\ off = FALSE
    BY SMTT(30)
  <2>1. PICK v \in SimSpeeds : st' = [st EXCEPT !.cmd = v, !.cmdTime = st.time, !.moved = off]
    BY <1>2, Zenon DEF cmdVelCallback, Become
  <2>2. v \in Twists /\ st.time \in Int
    BY <1>0, SimulatorAssumption DEF Twists
  <2> HIDE DEF off
  <2>3. /\ st' \in SimulatorStates /\ st'.map_to_odom = m /\ st'.odom_to_base = o
        /\ st'.should = s /\ st'.moved = off /\ st'.posed = st.posed
    BY ONLY <1>0, <2>0, <2>1, <2>2, Zenon DEF SimulatorStates
  <2> QED BY <1>0, <2>0, <2>3 DEF SimulatorInv
<1>3. CASE timerCallback
  <2> DEFINE fresh == st.cmd # Still /\ st.time + 1 - st.cmdTime <= 2
             o1 == IF fresh THEN Composed(o, st.cmd) ELSE o
             s1 == IF fresh THEN Composed(s, st.cmd) ELSE s
             c1 == IF fresh THEN st.cmd ELSE Still
             t1 == st.time + 1
             v1 == o1 # o
  <2>1. st.posed /\ st' = [st EXCEPT !.time = t1, !.cmd = c1, !.odom_to_base = o1, !.moved = v1, !.should = s1]
    BY <1>3 DEF timerCallback, Become
  <2>2. Composed(o, st.cmd) \in Transforms /\ Composed(s, st.cmd) \in Transforms
    BY <1>0, ComposedIs, TransformsAre, Zenon
  <2>3. o1 \in Transforms /\ s1 \in Transforms /\ c1 \in Twists /\ v1 \in BOOLEAN /\ t1 \in Nat
    BY <1>0, <2>2, StillIsUnit, SMTT(30)
  <2>4. Composed(m, o1) = s1
    <3>1. CASE fresh
      <4>1. Composed(Composed(m, o), st.cmd) = Composed(m, Composed(o, st.cmd))
        BY <1>0, ComposedAssociates
      <4>2. o1 = Composed(o, st.cmd) /\ s1 = Composed(s, st.cmd)
        BY <3>1
      <4> QED BY <4>1, <4>2, <2>1, <1>0
    <3>2. CASE ~fresh
      <4>1. o1 = o /\ s1 = s
        BY <3>2
      <4> QED BY <4>1, <2>1, <1>0
    <3> QED BY <3>1, <3>2
  <2>5. v1 => t1 - st.cmdTime <= 2
    <3>1. v1 => fresh
      OBVIOUS
    <3> QED BY <3>1, <1>0
  <2> HIDE DEF o1, s1, c1, t1, v1
  <2> DEFINE w == [st EXCEPT !.time = t1, !.cmd = c1, !.odom_to_base = o1]
  <2>6. w \in SimulatorStates /\ w.time = t1 /\ w.odom_to_base = o1 /\ w.map_to_odom = m /\ w.cmdTime = st.cmdTime
    BY ONLY <1>0, <2>3, Zenon DEF SimulatorStates
  <2>7. st' = [w EXCEPT !.moved = v1, !.should = s1]
    BY <2>1, <1>0 DEF SimulatorStates
  <2> HIDE DEF w
  <2>8. /\ st' \in SimulatorStates /\ st'.time = t1 /\ st'.odom_to_base = o1 /\ st'.map_to_odom = m
        /\ st'.cmdTime = st.cmdTime /\ st'.moved = v1 /\ st'.should = s1
    BY ONLY <2>3, <2>6, <2>7, Zenon DEF SimulatorStates
  <2> QED BY <2>4, <2>5, <2>8 DEF SimulatorInv
<1> QED BY <1>1, <1>2, <1>3

-----------------------------------------------------------------------------
(* The parts that move the robot *)

\* A part starts as its own kind does, takes the steps of its own kind, and has its invariant.
RobotInit ==
  /\ part \in VelocitySmoothers => st \in VelocitySmootherInit
  /\ part \in Monitors \cup Detectors => st \in CollisionMonitorInit
  /\ part \in {"dock", "dockDatabase", "dockController"} => DocksInit
  /\ part \in {"simulator"} => st = simulatorInit
RobotNext ==
  /\ part' = part
  /\ part \in VelocitySmoothers => VelocitySmootherNext \/ st' = st
  /\ part \in Monitors \cup Detectors => CollisionMonitorNext \/ st' = st
  /\ part \in {"dock", "dockDatabase", "dockController"} => DocksNext \/ st' = st
  /\ part \in {"simulator"} => SimulatorNext \/ st' = st
RobotInv ==
  /\ part \in VelocitySmoothers => SmootherInv
  /\ part \in Monitors \cup Detectors => MonitorInv
  /\ part = "dock" => PluginInv
  /\ part = "dockDatabase" => DatabaseInv
  /\ part = "dockController" => ControllerInv
  /\ part = "simulator" => SimulatorInv

\* Every such part starts with its invariant.
LEMMA RobotInitInv == RobotInit => RobotInv
<1> SUFFICES ASSUME RobotInit PROVE RobotInv
  OBVIOUS
<1>1. part \in VelocitySmoothers => SmootherInv
  BY SmootherInitInv, Zenon DEF RobotInit
<1>2. part \in Monitors \cup Detectors => MonitorInv
  BY MonitorInitInv, Zenon DEF RobotInit
<1>3. part \in {"dock", "dockDatabase", "dockController"} => DocksInit
  BY Zenon DEF RobotInit
<1>4. part = "dock" => PluginInv
  BY <1>3, PluginInitInv, Zenon DEF DocksInit
<1>5. part = "dockDatabase" => DatabaseInv
  BY <1>3, DatabaseInitInv, Zenon DEF DocksInit
<1>6. part = "dockController" => ControllerInv
  BY <1>3, ControllerInitInv, Zenon DEF DocksInit
<1>7. part = "simulator" => SimulatorInv
  BY SimulatorInitInv, Zenon DEF RobotInit
<1> QED BY <1>1, <1>2, <1>4, <1>5, <1>6, <1>7, Zenon DEF RobotInv

\* Every step of such a part keeps its invariant.
LEMMA RobotNextInv ==
  ASSUME RobotInv, RobotNext
  PROVE  RobotInv'
<1>0. part' = part
  BY Zenon DEF RobotNext
<1>1. part \in VelocitySmoothers => SmootherInv'
  <2>1. ASSUME SmootherInv, st' = st PROVE SmootherInv'
    BY <2>1, Zenon DEF SmootherInv
  <2> QED BY <2>1, SmootherNextInv, Zenon DEF RobotNext, RobotInv
<1>2. part \in Monitors \cup Detectors => MonitorInv'
  <2>1. ASSUME MonitorInv, st' = st PROVE MonitorInv'
    BY <2>1, <1>0, Zenon DEF MonitorInv
  <2> QED BY <2>1, MonitorNextInv, Zenon DEF RobotNext, RobotInv
<1>3. part \in {"dock", "dockDatabase", "dockController"} => DockNext \/ DatabaseNext \/ DockControllerNext \/ st' = st
  BY Zenon DEF RobotNext, DocksNext
<1>4. part = "dock" => PluginInv'
  <2>1. ASSUME PluginInv, st' = st PROVE PluginInv'
    BY <2>1, Zenon DEF PluginInv
  <2>2. part = "dock" => DockNext \/ st' = st
    BY <1>3, Zenon DEF DatabaseNext, DockControllerNext
  <2> QED BY <2>1, <2>2, PluginNextInv, Zenon DEF RobotInv
<1>5. part = "dockDatabase" => DatabaseInv'
  <2>1. ASSUME DatabaseInv, st' = st PROVE DatabaseInv'
    BY <2>1, Zenon DEF DatabaseInv
  <2>2. part = "dockDatabase" => DatabaseNext \/ st' = st
    BY <1>3, Zenon DEF DockNext, DockControllerNext
  <2> QED BY <2>1, <2>2, DatabaseNextInv, Zenon DEF RobotInv
<1>6. part = "dockController" => ControllerInv'
  <2>1. ASSUME ControllerInv, st' = st PROVE ControllerInv'
    BY <2>1, Zenon DEF ControllerInv
  <2>2. part = "dockController" => DockControllerNext \/ st' = st
    BY <1>3, Zenon DEF DockNext, DatabaseNext
  <2> QED BY <2>1, <2>2, ControllerNextInv, Zenon DEF RobotInv
<1>7. part = "simulator" => SimulatorInv'
  <2>1. ASSUME SimulatorInv, st' = st PROVE SimulatorInv'
    BY <2>1, Zenon DEF SimulatorInv
  <2>2. part = "simulator" => SimulatorNext \/ st' = st
    BY Zenon DEF RobotNext
  <2> QED BY <2>1, <2>2, SimulatorNextInv, Zenon DEF RobotInv, SimulatorNext
<1> QED BY <1>0, <1>1, <1>2, <1>4, <1>5, <1>6, <1>7, Zenon DEF RobotInv

\* What the invariants of the moving parts give.
LEMMA MotionFromInv ==
  ASSUME RobotInv
  PROVE  /\ SmootherSilentAtRest /\ SpeedIsSafest /\ MonitorSilentAtRest /\ DetectionIsCurrent
         /\ RefinedPoseIsRecent /\ DriveIsChecked /\ SimulatorStandsWhereTold
<1>1. SmootherSilentAtRest
  BY DEF RobotInv, SmootherInv, SmootherSilentAtRest
<1>2. SpeedIsSafest /\ MonitorSilentAtRest /\ DetectionIsCurrent
  BY DEF RobotInv, MonitorInv, SpeedIsSafest, MonitorSilentAtRest, DetectionIsCurrent
<1>3. RefinedPoseIsRecent
  BY DEF RobotInv, PluginInv, RefinedPoseIsRecent
<1>4. DriveIsChecked
  BY DEF RobotInv, ControllerInv, DriveIsChecked
<1>5. SimulatorStandsWhereTold
  BY DEF RobotInv, SimulatorInv, SimulatorStandsWhereTold
<1> QED BY <1>1, <1>2, <1>3, <1>4, <1>5
=============================================================================
