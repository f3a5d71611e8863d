----------------------------- MODULE GridSearch -----------------------------
(***************************************************************************)
(* The planners that search the cells or poses of a costmap: NavFn, Theta* *)
(* and the Smac planners with their A*, their tables and the hash table of *)
(* their nodes.                                                            *)
(***************************************************************************)
EXTENDS Component, FiniteSetsExt, SequencesExt, Integers, Sequences, FiniteSets

-----------------------------------------------------------------------------
(***************************************************************************)
(* The navigation function of nav2_navfn_planner: NavFn spreads a potential *)
(* from the robot over the map, NavfnPlanner::makePlan looks for the best  *)
(* reachable pose near the goal and follows the potential back.  A cell is *)
(* an index of the row-major map; a potential is an integer, of which ten  *)
(* make the code's unit.  A pose is a pair of integers, of which two make  *)
(* the side of a cell.  The path follows cells: the interpolated gradient  *)
(* is used only where all nine potentials of a block are known, which no   *)
(* map of NavFnInit has.                                                   *)
(***************************************************************************)

CONSTANTS
  NavSize,     \* cells along each side of the map
  NavCost,     \* the cost of the ROS costmap in the cells that are dear
  NavBuffer,   \* a PRIORITYBUFSIZE that a search may reach
  NavEnds      \* the pairs of a start and a goal

COST_OBS == 254
COST_NEUTRAL == 50
POT_HIGH == 1000000
NavCells == 0 .. NavSize * NavSize - 1
NavX(n) == n % NavSize
NavY(n) == n \div NavSize
Border(n) == NavX(n) \in {0, NavSize - 1} \/ NavY(n) \in {0, NavSize - 1}

\* setCostmap: a cost of the ROS costmap as a cost of NavFn.
setCostmap(v, allow_unknown) ==
  IF v < 253 THEN Least(COST_NEUTRAL + (8 * v) \div 10, COST_OBS - 1)
  ELSE IF v = 255 /\ allow_unknown THEN COST_OBS - 1 ELSE COST_OBS

\* push_cur, push_next, push_over: a cell that no longer fits into its block is dropped.
push(f, list, n) ==
  IF n \notin NavCells \/ f.pending[n] \/ f.cost[n] >= COST_OBS THEN f
  ELSE IF Len(f[list]) >= f.buffer THEN [f EXCEPT !.full = TRUE]
  ELSE [f EXCEPT ![list] = Append(@, n), !.pending[n] = TRUE]

\* setupNavFn, with setNavArr and initCost: the border is an obstacle, the neighbours of the goal are queued.
initCost(f, k) ==
  LET right == push([f EXCEPT !.pot[k] = 0], "cur", k + 1)
      left == push(right, "cur", k - 1)
      up == push(left, "cur", k - NavSize) IN
  push(up, "cur", k + NavSize)
setupNavFn(map, allow_unknown, goal, buffer) ==
  initCost(
    [cost |-> [n \in NavCells |->
                 IF Border(n) THEN COST_OBS ELSE setCostmap(map[n], allow_unknown)],
     pot |-> [n \in NavCells |-> POT_HIGH], pending |-> [n \in NavCells |-> FALSE],
     cur |-> <<>>, next |-> <<>>, over |-> <<>>, curT |-> 10 * COST_OBS, cycle |-> 0,
     buffer |-> buffer, full |-> FALSE],
    goal)

\* The interpolated potential of a cell between its best vertical and its best horizontal neighbour.
Potential(ta, dc, hf) ==
  IF dc >= 10 * hf THEN ta + 10 * hf
  ELSE ta + (-(2301 * ((dc * dc) \div (10 * hf))) + 5307 * dc + 70400 * hf) \div 10000

\* updateCell, and updateCellAstar, which adds the distance to the start to choose the block.
updateCell(f, n, ahead) ==
  LET l == f.pot[n - 1]
      r == f.pot[n + 1]
      u == f.pot[n - NavSize]
      d == f.pot[n + NavSize]
      tc == Least(l, r)
      ta == Least(u, d)
      pot == Potential(Least(ta, tc), Abs(tc - ta), f.cost[n])
      reached == pot + ahead[n]
      list == IF reached < f.curT THEN "next" ELSE "over"
      pushIf(g, m, was) ==
        IF was > reached + (7071 * f.cost[m]) \div 1000 THEN push(g, list, m) ELSE g
      f1 == pushIf([f EXCEPT !.pot[n] = pot], n - 1, l)
      f2 == pushIf(f1, n + 1, r)
      f3 == pushIf(f2, n - NavSize, u) IN
  IF f.cost[n] < COST_OBS /\ pot < f.pot[n] THEN pushIf(f3, n + NavSize, d) ELSE f

RECURSIVE UpdateAll(_, _, _)
UpdateAll(f, todo, ahead) ==
  IF todo = <<>> THEN f ELSE UpdateAll(updateCell(f, Head(todo), ahead), Tail(todo), ahead)

\* The next block: the cells just queued or, when there are none, those beyond the threshold.
Swapped(f) ==
  LET g == [f EXCEPT !.cur = f.next, !.next = <<>>, !.cycle = @ + 1] IN
  IF g.cur = <<>> THEN [g EXCEPT !.cur = g.over, !.over = <<>>, !.curT = @ + 20 * COST_NEUTRAL] ELSE g

\* propNavFnDijkstra and propNavFnAstar
RECURSIVE propNavFn(_, _, _, _)
propNavFn(f, start, cycles, ahead) ==
  IF f.cycle >= cycles \/ (f.cur = <<>> /\ f.next = <<>>) \/ (f.cycle > 0 /\ f.pot[start] < POT_HIGH)
  THEN f
  ELSE LET free == [f EXCEPT !.pending = [n \in NavCells |->
                                            f.pending[n] /\ \A i \in DOMAIN f.cur : f.cur[i] # n]] IN
       propNavFn(Swapped(UpdateAll(free, f.cur, ahead)), start, cycles, ahead)

\* calcNavFnDijkstra, calcNavFnAstar: straight distances in cells, ten times a whole number below.
Straight == [n \in 0 .. 2 * NavSize * NavSize |->
               CHOOSE r \in 0 .. 20 * NavSize : r * r <= 100 * n /\ (r + 1) * (r + 1) > 100 * n]
hypot(a, b) ==
  Straight[(NavX(a) - NavX(b)) * (NavX(a) - NavX(b)) + (NavY(a) - NavY(b)) * (NavY(a) - NavY(b))]
calcNavFn(map, allow_unknown, goal, start, use_astar, buffer) ==
  LET f == setupNavFn(map, allow_unknown, goal, buffer)
      cycles == Greatest((NavSize * NavSize) \div 20, 2 * NavSize)
      ahead == [n \in NavCells |-> IF use_astar THEN COST_NEUTRAL * hypot(n, start) ELSE 0] IN
  propNavFn(IF use_astar THEN [f EXCEPT !.curT = @ + COST_NEUTRAL * hypot(goal, start)] ELSE f,
            start, cycles, ahead)

\* The neighbour with the least potential, which is compared as a whole number.
Descend(f, c) ==
  LET around == <<c - NavSize - 1, c - NavSize, c - NavSize + 1, c - 1, c + 1,
                  c + NavSize - 1, c + NavSize, c + NavSize + 1>>
      Whole(p) == (p \div 10) * 10
      best[i \in 0 .. 8] ==
        IF i = 0 THEN <<c, Whole(f.pot[c])>>
        ELSE IF f.pot[around[i]] < best[i - 1][2] THEN <<around[i], Whole(f.pot[around[i]])>>
        ELSE best[i - 1] IN
  best[8][1]

\* calcPath from st: <<>> when it fails, on the border, at an unknown potential or after n points.
RECURSIVE calcPath(_, _, _, _)
calcPath(f, st_, goal, n) ==
  IF n = 0 THEN <<>>
  ELSE IF f.pot[st_] < 10 * COST_NEUTRAL THEN <<goal>>
  ELSE IF st_ < NavSize \/ st_ > NavSize * NavSize - NavSize THEN <<>>
  ELSE LET to == Descend(f, st_)
           rest == IF f.pot[to] >= POT_HIGH THEN <<>> ELSE calcPath(f, to, goal, n - 1) IN
       IF rest = <<>> THEN <<>> ELSE <<st_>> \o rest

-----------------------------------------------------------------------------
(* NavfnPlanner *)

\* worldToMap rounds to the nearest corner; a pose at 0 or above, as all of NavEnds.
NavWorldToMap(p) ==
  IF p[1] < 0 \/ p[2] < 0 THEN -1
  ELSE LET mx == (p[1] + 1) \div 2
           my == (p[2] + 1) \div 2 IN
       IF mx < NavSize /\ my < NavSize THEN my * NavSize + mx ELSE -1
getPointPotential(f, p) == IF NavWorldToMap(p) = -1 THEN POT_HIGH ELSE f.pot[NavWorldToMap(p)]
squared_distance(p, q) == (p[1] - q[1]) * (p[1] - q[1]) + (p[2] - q[2]) * (p[2] - q[2])

\* The poses tried around a goal that has no potential: rows from below, a cell apart.
Tried(goal, tolerance) ==
  LET n == 2 * (tolerance \div 2) + 1 IN
  [i \in 1 .. n * n |->
     <<goal[1] - tolerance + 2 * ((i - 1) % n), goal[2] - tolerance + 2 * ((i - 1) \div n)>>]
\* Mistake: the last reachable pose wins, whatever its distance.
BestPoseLast(f, goal, tolerance) ==
  LET tried == Tried(goal, tolerance)
      known == {i \in DOMAIN tried : getPointPotential(f, tried[i]) < POT_HIGH} IN
  IF getPointPotential(f, goal) < POT_HIGH THEN {goal} ELSE IF known = {} THEN {} ELSE {tried[Max(known)]}
BestPose(f, goal, tolerance) ==
  LET tried == Tried(goal, tolerance)
      known == {i \in DOMAIN tried : getPointPotential(f, tried[i]) < POT_HIGH}
      best == {i \in known : \A j \in known : LET di == squared_distance(tried[i], goal)
                                                  dj == squared_distance(tried[j], goal) IN
                                              di < dj \/ (di = dj /\ i <= j)} IN
  IF getPointPotential(f, goal) < POT_HIGH THEN {goal} ELSE {tried[i] : i \in best}

\* getPlanFromPotential and smoothApproachToGoal: the corners in world coordinates, then the pose itself.
Corner(n) == <<2 * NavX(n), 2 * NavY(n)>>
smoothApproachToGoal(goal, poses) ==
  LET k == Len(poses) IN
  IF k >= 2 /\ (\/ squared_distance(poses[k], poses[k - 1]) > squared_distance(goal, poses[k - 1])
                \/ poses[k] = goal)
  THEN [poses EXCEPT ![k] = goal] ELSE Append(poses, goal)
getPlanFromPotential(f, pose, robot) ==
  LET back == calcPath(f, NavWorldToMap(pose), robot, 4 * NavSize) IN
  [i \in DOMAIN back |-> Corner(back[Len(back) + 1 - i])]

\* createPlan and makePlan: the robot's cell is cleared, and the search runs from the robot.
\* full says that a block of the search had no room; cancelChecker ends it with an exception.
NavCostmapCell(p) == (p[2] \div 2) * NavSize + p[1] \div 2
makePlan(in) ==
  LET robot == NavWorldToMap(in.start)
      cleared == [in.map EXCEPT ![robot] = 0]
      f == calcNavFn(cleared, in.unknown, robot, NavWorldToMap(in.goal), in.astar, in.buffer)
      best == BestPose(f, in.goal, in.tolerance)
      plan == IF best = {} THEN <<>> ELSE getPlanFromPotential(f, CHOOSE p \in best : TRUE, robot) IN
  [error |-> IF plan = <<>> THEN "NoValidPath" ELSE "none", full |-> f.full,
   path |-> IF plan = <<>> THEN <<>> ELSE smoothApproachToGoal(CHOOSE p \in best : TRUE, plan)]
navfnCreatePlan(in) ==
  IF in.tolerance = 0 /\ in.map[NavCostmapCell(in.goal)] = 254
  THEN [error |-> "GoalOccupied", full |-> FALSE, path |-> <<>>]
  ELSE IF in.start = in.goal THEN [error |-> "none", full |-> FALSE, path |-> <<in.start>>]
  ELSE IF in.cancel THEN [error |-> "Cancelled", full |-> FALSE, path |-> <<>>]
  ELSE makePlan(in)

-----------------------------------------------------------------------------
\* The maps: free, lethal, dear or unknown cells inside the border, with a lethal cell that stays.
Interior == {n \in NavCells : ~Border(n)}
NavMap(O, D, U) ==
  [n \in NavCells |-> IF n \in O THEN 254 ELSE IF n \in D THEN NavCost ELSE IF n \in U THEN 255 ELSE 0]
NavFnInit ==
  \E O \in SUBSET Interior, DU \in {<<{}, {}>>, <<{7, 12}, {}>>, <<{}, {13}>>}, ends \in NavEnds :
    /\ O \ {NavWorldToMap(ends[1])} # {}
    /\ Call("navfn", [map : {NavMap(O, DU[1], DU[2])}, start : {ends[1]}, goal : {ends[2]},
                      tolerance : {0, 2}, unknown : IF DU[2] = {} THEN {TRUE} ELSE BOOLEAN,
                      astar : BOOLEAN,
                      buffer : {NavSize * NavSize} \cup (IF DU[1] = {} THEN {NavBuffer} ELSE {}),
                      cancel : IF DU[1] = {} THEN BOOLEAN ELSE {FALSE}])
NavFnNext == Returns("navfn", navfnCreatePlan(st.in))

-----------------------------------------------------------------------------
\* The cells a robot may drive to one by one from its own.
NavPassable(n) ==
  /\ n \in Interior
  /\ n = NavWorldToMap(st.in.start) \/ setCostmap(st.in.map[n], st.in.unknown) < COST_OBS
RECURSIVE NavReach(_)
NavReach(S) ==
  LET more == S \cup {n \in Interior : NavPassable(n) /\ {n - 1, n + 1, n - NavSize, n + NavSize} \cap S # {}} IN
  IF more = S THEN S ELSE NavReach(more)

(* A plan starts at the robot's cell, goes from cell to neighbouring cell   *)
(* over cells the robot may enter, and ends at the pose that was asked for *)
(* or, within the tolerance, at one that no reachable pose beats, unless a *)
(* full block kept the search from that one.                               *)
NavfnPlanIsDrivable ==
  Done("navfn") /\ Len(st.out.path) > 1 =>
    LET path == st.out.path
        reach == NavReach({NavWorldToMap(st.in.start)})
        last == path[Len(path)]
        k == Len(path) - 1 IN
    /\ path[1] = Corner(NavWorldToMap(st.in.start)) \/ Len(path) = 2
    /\ \A i \in 1 .. k : NavWorldToMap(path[i]) \in reach
    /\ \A i \in 1 .. k : Abs(path[i][1] - path[i + 1][1]) <= 2 /\ Abs(path[i][2] - path[i + 1][2]) <= 2
    /\ NavWorldToMap(last) \in reach
    /\ last # st.in.goal /\ ~st.out.full =>
         \A i \in DOMAIN Tried(st.in.goal, st.in.tolerance) :
           LET p == Tried(st.in.goal, st.in.tolerance)[i] IN
           NavWorldToMap(p) \in reach => squared_distance(p, st.in.goal) >= squared_distance(last, st.in.goal)

(* No plan is refused when the goal's own cell can be reached: the number  *)
(* of waves NavFn allows itself is enough for a map of this size.  A block  *)
(* that was full is excepted: the cells it had no room for are lost.       *)
NavfnFindsRoute ==
  Done("navfn") /\ st.out.error = "NoValidPath" /\ ~st.out.full =>
    NavWorldToMap(st.in.goal) \notin NavReach({NavWorldToMap(st.in.start)})

-----------------------------------------------------------------------------
(***************************************************************************)
(* nav2_theta_star_planner: the search of ThetaStar over a map of safe and *)
(* unsafe cells, one step per node taken from the queue.  queue_ is a heap *)
(* of pointers: once the cost of a queued node has changed in place (mixed)*)
(* any queued node may be its top.  A thousand units are a cell's side.    *)
(***************************************************************************)

CONSTANTS
  TsWidth, TsHeight,   \* cells of the map
  TsEnds,              \* the pairs of a start and a goal
  TsCorners            \* values of how_many_corners: 4 or 8

TsCells == (0 .. TsWidth - 1) \X (0 .. TsHeight - 1)
INF_COST == 1000000
moves == <<<<0, 1>>, <<0, -1>>, <<1, 0>>, <<-1, 0>>, <<1, -1>>, <<-1, 1>>, <<1, 1>>, <<-1, -1>>>>

\* isSafe.  The row below the map is not memory of the map; the cell left of a row is the last of the row before.
TsSafe(c) ==
  IF c[2] < 0 \/ c = <<-1, 0>> THEN st.in.beyond
  ELSE (IF c[1] < 0 THEN <<TsWidth - 1, c[2] - 1>> ELSE c) \in st.in.safe
\* A free cell counts as 26 of 252: 1000 * (26 / 252)^2
TraversalCost == 11
TsRoot == [n \in 0 .. TsWidth * TsWidth + TsHeight * TsHeight |->
             CHOOSE r \in 0 .. 1000 * (TsWidth + TsHeight) : r * r <= 1000000 * n /\ (r + 1) * (r + 1) > 1000000 * n]
getEuclideanCost(a, b) ==
  TsRoot[(a[1] - b[1]) * (a[1] - b[1]) + (a[2] - b[2]) * (a[2] - b[2])]
withinLimits(c) == c \in TsCells
TsNowhere == [g |-> INF_COST, f |-> INF_COST, parent |-> <<-1, -1>>]

\* losCheck, walking the corners of cells: [clear, cost], where cost counts the safe cells it asked for.
losCheck(from, to) ==
  LET dx == Abs(to[1] - from[1])
      dy == Abs(to[2] - from[2])
      sx == IF to[1] > from[1] THEN 1 ELSE -1
      sy == IF to[2] > from[2] THEN 1 ELSE -1
      flat == dx >= dy
      long == IF flat THEN dx ELSE dy
      short == IF flat THEN dy ELSE dx
      \* a cell, k steps along the longer and m along the shorter side, on the side of the line
      Beside(k, m) ==
        IF flat THEN <<from[1] + k * sx + (sx - 1) \div 2, from[2] + m * sy + (sy - 1) \div 2>>
        ELSE <<from[1] + m * sx + (sx - 1) \div 2, from[2] + k * sy + (sy - 1) \div 2>>
      Ask(w, c) == IF TsSafe(c) THEN [w EXCEPT !.cost = @ + TraversalCost] ELSE [w EXCEPT !.clear = FALSE]
      Along(w, k) ==
        LET one == IF flat THEN <<from[1] + k * sx + (sx - 1) \div 2, from[2]>>
                   ELSE <<from[1], from[2] + k * sy + (sy - 1) \div 2>>
            two == IF flat THEN <<one[1], one[2] - 1>> ELSE <<one[1] - 1, one[2]>> IN
        IF TsSafe(one) \/ TsSafe(two) THEN [w EXCEPT !.cost = @ + TraversalCost] ELSE [w EXCEPT !.clear = FALSE]
      walk[k \in 0 .. long] ==
        IF k = 0 THEN [clear |-> TRUE, cost |-> 0, m |-> 0, f |-> 0]
        ELSE LET w == walk[k - 1]
                 f == w.f + short
                 turn == f >= long
                 w1 == IF turn THEN [Ask(w, Beside(k - 1, w.m)) EXCEPT !.m = @ + 1, !.f = f - long]
                       ELSE [w EXCEPT !.f = f]
                 w2 == IF w1.f # 0 THEN Ask(w1, Beside(k - 1, w1.m)) ELSE w1 IN
             IF ~w.clear THEN w ELSE IF short = 0 THEN Along(w2, k - 1) ELSE w2 IN
  [clear |-> walk[long].clear, cost |-> walk[long].cost]

\* resetParent: the parent's parent, when it is in sight and nearer.
resetParent(nodes, c) ==
  LET grand == nodes[nodes[c].parent].parent
      los == losCheck(c, grand)
      g == nodes[grand].g + getEuclideanCost(c, grand) + los.cost IN
  IF los.clear /\ g < nodes[c].g
  THEN [nodes EXCEPT ![c] = [g |-> g, f |-> g + getEuclideanCost(c, st.in.goal), parent |-> grand]]
  ELSE nodes

\* setNeighbors: a safe neighbour that gets cheaper gets c as its parent, and is queued unless it is.
setNeighbors(s, c) ==
  LET Reach(r, move) ==
        LET m == <<c[1] + move[1], c[2] + move[2]>>
            g == s.nodes[c].g + getEuclideanCost(c, m) + TraversalCost
            f == g + getEuclideanCost(m, st.in.goal) IN
        IF withinLimits(m) /\ TsSafe(m) /\ r.nodes[m].f > f
        THEN [r EXCEPT !.nodes[m] = [g |-> g, f |-> f, parent |-> c],
                       !.queue = @ \cup {m}, !.mixed = @ \/ m \in r.queue]
        ELSE r IN
  FoldLeft(Reach, s, SubSeq(moves, 1, st.in.corners))

RECURSIVE backtrace(_, _)
backtrace(nodes, c) == IF nodes[c].parent = c THEN <<c>> ELSE Append(backtrace(nodes, nodes[c].parent), c)

\* getPlan, with isUnsafeToPlan, up to the loop of generatePath: the start is current, and queued too.
Ts_getPlan ==
  /\ In({"theta_star"}, "call")
  /\ part' = part
  /\ st' = IF ~TsSafe(st.in.start) \/ ~TsSafe(st.in.goal)
           THEN [at |-> "done", in |-> st.in, out |-> <<>>, error |-> "obstacle"]
           ELSE LET root == [g |-> TraversalCost, parent |-> st.in.start,
                             f |-> TraversalCost + getEuclideanCost(st.in.start, st.in.goal)] IN
                [at |-> "search", in |-> st.in, curr |-> st.in.start, queue |-> {st.in.start}, mixed |-> FALSE,
                 nodes |-> [c \in TsCells |-> IF c = st.in.start THEN root ELSE TsNowhere]]

\* One turn of the loop; the loop ends when the queue is empty, before it looks at the node just taken,
\* or by an exception when the checker, asked every terminal_checking_interval_ turns, says so.
Ts_generatePath ==
  /\ In({"theta_star"}, "search")
  /\ part' = part
  /\ \/ st' = [at |-> "done", in |-> st.in, out |-> <<>>, error |-> "cancelled"]
     \/ /\ st.curr = st.in.goal
        /\ st' = [at |-> "done", in |-> st.in, out |-> backtrace(st.nodes, st.curr), error |-> "none"]
     \/ LET s == setNeighbors([st EXCEPT !.nodes = resetParent(@, st.curr)], st.curr) IN
        \E top \in s.queue :
          /\ st.curr # st.in.goal
          /\ s.mixed \/ \A c \in s.queue : s.nodes[top].f <= s.nodes[c].f
          /\ st' = IF s.queue = {top} THEN [at |-> "done", in |-> st.in, out |-> <<>>, error |-> "none found"]
                   ELSE [s EXCEPT !.queue = @ \ {top}, !.curr = top]

ThetaStarInit ==
  Call("theta_star", {[safe |-> S, beyond |-> b, start |-> e[1], goal |-> e[2], corners |-> n] :
                        S \in SUBSET TsCells, b \in BOOLEAN, e \in TsEnds, n \in TsCorners})
ThetaStarNext == Ts_getPlan \/ Ts_generatePath

TsFound == Done("theta_star") /\ st.out # <<>>
TsNext(c, n) == {d \in st.in.safe : \E i \in 1 .. n : d = <<c[1] + moves[i][1], c[2] + moves[i][2]>>}
RECURSIVE TsReach(_, _)
TsReach(S, n) == LET T == S \cup UNION {TsNext(c, n) : c \in S} IN IF T = S THEN S ELSE TsReach(T, n)

(* A path of the Theta* planner leads from the start to the goal, turns only in safe cells, never in  *)
(* the same one twice, and joins cells that safe cells connect (generatePath, setNeighbors,           *)
(* resetParent, backtrace), whatever the reads beside the map in losCheck give.                       *)
ThetaPathIsSound ==
  TsFound =>
    /\ st.out[1] = st.in.start /\ st.out[Len(st.out)] = st.in.goal
    /\ \A i \in 1 .. Len(st.out) : st.out[i] \in st.in.safe
    /\ \A i, j \in 1 .. Len(st.out) : st.out[i] = st.out[j] => i = j
    /\ st.in.goal \in TsReach({st.in.start}, 8)

(* "true if a path is found, false if no path is found in between the start and goal pose"            *)
(* (theta_star.hpp:90): generatePath gives up only when no safe cells lead from the start to the goal. *)
\* It does not hold: README, Disagreements.
ThetaFindsRoute ==
  Done("theta_star") /\ st.out = <<>> => st.error \in {"obstacle", "cancelled"} \/ st.in.goal \notin TsReach({st.in.start}, st.in.corners)

-----------------------------------------------------------------------------
(***************************************************************************)
(* nav2_smac_planner: AStarAlgorithm over Node2D on a small grid, one step *)
(* per node taken from the queue, and the obstacle heuristic of the other  *)
(* node types.  A thousand units are the side of a cell.                   *)
(***************************************************************************)

CONSTANTS
  SmWidth, SmHeight,  \* cells of the grid, the interior of the map for the obstacle heuristic
  SmCostly,           \* cells of half the highest traversable cost
  SmEnds,             \* the pairs of start and goal of the 2D search
  SmTolerances,       \* values of tolerance, in units
  SmQueries           \* the pairs of cells the obstacle heuristic is asked for, one after the other

SmGrid == (0 .. SmWidth - 1) \X (0 .. SmHeight - 1)
SmRoot == [n \in 0 .. SmWidth * SmWidth + SmHeight * SmHeight |->
             CHOOSE r \in 0 .. 1000 * (SmWidth + SmHeight) : r * r <= 1000000 * n /\ (r + 1) * (r + 1) > 1000000 * n]
SmFar(a, b) == SmRoot[(a[1] - b[1]) * (a[1] - b[1]) + (a[2] - b[2]) * (a[2] - b[2])]
SmMax == 1000000
SmNobody == <<-1, -1>>

\* Node2D::getTraversalCost, with a cost_travel_multiplier of two.
traversal2D(a, b) ==
  (IF a[1] # b[1] /\ a[2] # b[2] THEN 1415 ELSE 1000) * (IF b \in SmCostly THEN 2 ELSE 1)
\* _neighbors_grid_offsets are offsets of an index: a neighbour across the edge of a row is dropped.
neighbors2D(c, free) ==
  {d \in free \ {c} : Abs(d[1] - c[1]) <= 1 /\ Abs(d[2] - c[2]) <= 1}

\* The end of a search: the path by the parents of node n, or no path when n has none.
RECURSIVE backtracePath(_, _)
backtracePath(parent, n) == IF parent[n] = SmNobody THEN <<n>> ELSE Append(backtracePath(parent, parent[n]), n)
SmEnd(s, n) ==
  [at |-> "done", in |-> s.in, out |-> IF s.parent[n] = SmNobody THEN <<>> ELSE backtracePath(s.parent, n),
   g |-> s.g[n], iterations |-> s.iterations, best |-> s.best, stopped |-> FALSE]
SmFail(s) ==
  [at |-> "done", in |-> s.in, out |-> <<>>, g |-> SmMax, iterations |-> s.iterations, best |-> s.best,
   stopped |-> FALSE]
\* Asked every _terminal_checking_interval iterations: the planner is cancelled, an exception, or
\* _max_planning_time is over.  What was found within the tolerance is not used.
SmStop(s) ==
  [at |-> "done", in |-> s.in, out |-> <<>>, g |-> SmMax, iterations |-> 0, best |-> <<SmMax, SmNobody>>,
   stopped |-> TRUE]

\* createPath up to its loop: areInputsValid, and the start is queued at cost zero.
Sm_createPath ==
  /\ In({"smac_2d"}, "call")
  /\ part' = part
  /\ LET s == [at |-> "search", in |-> st.in, queue |-> {<<0, st.in.start>>}, visited |-> {},
               g |-> [c \in SmGrid |-> IF c = st.in.start THEN 0 ELSE SmMax],
               parent |-> [c \in SmGrid |-> SmNobody], best |-> <<SmMax, SmNobody>>,
               iterations |-> 0, approach |-> 0] IN
     st' = IF st.in.tolerance = 0 /\ st.in.goal \notin st.in.free THEN SmFail(s) ELSE s

\* Step 4: a neighbour that gets cheaper gets a new parent and is queued once more.
expand(s, c) ==
  LET Add(d, r) ==
        LET g == s.g[c] + traversal2D(c, d)
            h == SmFar(d, s.in.goal) IN
        IF g >= r.g[d] THEN r
        ELSE [r EXCEPT !.g[d] = g, !.parent[d] = c, !.queue = @ \cup {<<g + h, d>>},
                       !.best = IF h < @[1] THEN <<h, d>> ELSE @] IN
  FoldSet(Add, s, neighbors2D(c, s.in.free) \ s.visited)

\* One turn of the loop; nodes of the same cost leave the queue in any order.
Sm_search2D ==
  /\ In({"smac_2d"}, "search")
  /\ part' = part
  /\ IF st.iterations = st.in.max \/ st.queue = {}
     THEN st' = IF st.best[1] < st.in.tolerance THEN SmEnd(st, st.best[2]) ELSE SmFail(st)
     ELSE \/ st' = SmStop(st)
          \/ \E q \in st.queue :
            /\ \A r \in st.queue : q[1] <= r[1]
            /\ LET c == q[2]
                   s == [st EXCEPT !.queue = @ \ {q}, !.visited = @ \cup {c}, !.iterations = @ + 1,
                                   !.approach = IF st.best[1] < st.in.tolerance THEN @ + 1 ELSE @] IN
               st' = CASE c \in st.visited -> [st EXCEPT !.queue = @ \ {q}]
                       [] c \notin st.visited /\ c = st.in.goal -> SmEnd(s, c)
                       [] c \notin st.visited /\ c # st.in.goal /\ s.approach >= st.in.approaches
                            -> SmEnd(s, st.best[2])
                       [] OTHER -> expand(s, c)

\* Shortest distances by entering costs, from a over the cells of free: the reference.
RECURSIVE Relaxed(_, _)
Relaxed(d, free) ==
  LET e == [c \in DOMAIN d |->
              IF c \notin free THEN d[c]
              ELSE LET near == {d[b] + traversal2D(b, c) : b \in neighbors2D(c, DOMAIN d)} IN
                   CHOOSE m \in near \cup {d[c]} : \A n \in near \cup {d[c]} : m <= n] IN
  IF e = d THEN d ELSE Relaxed(e, free)
SmDistance(a, free) == Relaxed([c \in SmGrid |-> IF c = a THEN 0 ELSE SmMax], free)

(***************************************************************************)
(* The obstacle heuristic: a search from the goal that stops at the cell   *)
(* asked for and goes on where it stopped when another one is asked for.   *)
(* A cell of the lookup table is unseen (0), open (negative) or closed.    *)
(***************************************************************************)
resetObstacleHeuristic(goal) ==
  [cost |-> [c \in SmGrid |-> IF c = goal THEN 0 ELSE SmMax], closed |-> {}, queue |-> {goal}]

RECURSIVE obstacleSearch(_, _, _)
obstacleSearch(o, to, free) ==
  IF o.queue = {} THEN o
  ELSE LET c == CHOOSE n \in o.queue : \A m \in o.queue : o.cost[n] + SmFar(n, to) <= o.cost[m] + SmFar(m, to)
           Add(d, r) == IF d \notin o.closed /\ o.cost[c] + traversal2D(c, d) < r.cost[d]
                        THEN [r EXCEPT !.cost[d] = o.cost[c] + traversal2D(c, d), !.queue = @ \cup {d}] ELSE r
           s == FoldSet(Add, [o EXCEPT !.queue = @ \ {c}, !.closed = @ \cup {c}], neighbors2D(c, free)) IN
       IF c = to THEN s ELSE obstacleSearch(s, to, free)
\* getObstacleHeuristic: a closed cell is answered from the table, an unreachable one with zero.
getObstacleHeuristic(o, to, free) ==
  LET s == IF to \in o.closed THEN o ELSE obstacleSearch(o, to, free) IN
  [table |-> s, value |-> IF s.cost[to] = SmMax THEN 0 ELSE s.cost[to]]
askedTwice(goal, first, second, free) ==
  LET a == getObstacleHeuristic(resetObstacleHeuristic(goal), first, free)
      b == getObstacleHeuristic(a.table, second, free) IN
  <<a.value, b.value>>

SmacSearchInit ==
  \/ Call("smac_2d", {[free |-> F \cup {e[1]}, start |-> e[1], goal |-> e[2], tolerance |-> t, max |-> m,
                       approaches |-> a] : F \in SUBSET SmGrid, e \in SmEnds, t \in SmTolerances,
                                            m \in {3, SmWidth * SmHeight + 1}, a \in {2, 20}})
  \/ Call("smac_obstacle", {[free |-> F, goal |-> e[2], first |-> q[1], second |-> q[2]] :
                              F \in SUBSET SmGrid, e \in SmEnds, q \in SmQueries})
SmacSearchNext ==
  \/ Sm_createPath
  \/ Sm_search2D
  \/ Returns("smac_obstacle", askedTwice(st.in.goal, st.in.first, st.in.second, st.in.free))

(* A path of the 2D A* planner joins neighbouring free cells from the start.  When it ends at the     *)
(* goal within the approach limit no path is cheaper; otherwise it ends within the tolerance; and     *)
(* without a path, with iterations left and neither cancelled nor out of time, no free cells lead to  *)
(* the goal (a_star.cpp, node_2d.cpp).                                                                *)
SmacPathIsBest ==
  Done("smac_2d") =>
    LET far == SmDistance(st.in.start, st.in.free) IN
    IF st.out = <<>>
    THEN \/ st.iterations = st.in.max \/ st.stopped
         \/ st.in.tolerance = 0 /\ st.in.goal \notin st.in.free
         \/ st.in.start = st.in.goal
         \/ far[st.in.goal] = SmMax
    ELSE LET end == st.out[Len(st.out)] IN
         /\ st.out[1] = st.in.start
         /\ \A i \in 1 .. Len(st.out) - 1 : st.out[i + 1] \in neighbors2D(st.out[i], st.in.free)
         /\ end = st.in.goal => st.g = far[end] \/ st.best[1] < st.in.tolerance
         /\ end # st.in.goal => SmFar(end, st.in.goal) < st.in.tolerance

(* The obstacle heuristic of a cell is the cost of the cheapest way to it from the goal, or zero when *)
(* there is none, whichever cell was asked for before it (NodeHybrid::getObstacleHeuristic).          *)
ObstacleHeuristicExact ==
  Done("smac_obstacle") =>
    LET far == SmDistance(st.in.goal, st.in.free)
        Right(c, v) == v = IF far[c] = SmMax THEN 0 ELSE far[c] IN
    Right(st.in.first, st.out[1]) /\ Right(st.in.second, st.out[2])

-----------------------------------------------------------------------------
(***************************************************************************)
(* nav2_smac_planner: AStarAlgorithm over NodeHybrid (and NodeLattice) on  *)
(* a graph of four nodes, 1 the start and 4 the goal.  A node stands for a *)
(* cell and heading and keeps the exact pose it was reached with: here the *)
(* node it was projected from, 0 before it has one and -1 when an analytic *)
(* expansion gave it.  Then the tables the search uses: motions, distance  *)
(* lookup, collision checker, downsampled costmap.                         *)
(***************************************************************************)

CONSTANTS
  HyArcs,      \* the pairs of nodes that a motion may join
  HyBins,      \* num_angle_quantization
  HyLookup,    \* lookup_table_size in cells, odd
  HyCosts      \* costs of a cell of the costmap

HyNodes == 1 .. 4
HyDetached == 5 .. 6
HyMax == 100
\* A consistent heuristic for arcs that cost one or three.
HyHeuristic == <<2, 1, 1, 0>>

RECURSIVE HyChain(_, _)
HyChain(parent, n) == IF parent[n] = 0 THEN <<n>> ELSE Append(HyChain(parent, parent[n]), n)
\* backtracePath; a node without a parent has no path.
HyEnd(s, n, how) ==
  [at |-> "done", in |-> s.in, how |-> how,
   out |-> IF s.parent[n] = 0 THEN <<>>
           ELSE [i \in DOMAIN HyChain(s.parent, n) |-> <<HyChain(s.parent, n)[i], s.pose[HyChain(s.parent, n)[i]]>>]]

\* createPath up to its loop.
Hy_createPath ==
  /\ In({"smac_hybrid"}, "call")
  /\ part' = part
  /\ st' = [at |-> "search", in |-> st.in, queue |-> {<<0, 1, 0>>}, visited |-> {},
            g |-> [n \in HyNodes |-> IF n = 1 THEN 0 ELSE HyMax], verdict |-> [n \in HyNodes |-> "none"],
            parent |-> [n \in HyNodes \cup HyDetached |-> 0], pose |-> [n \in HyNodes \cup HyDetached |-> 0],
            best |-> <<HyMax, 0>>]

\* isNodeValid: the verdict on the first pose a node is tried with is the verdict on the node.
isNodeValid(verdict, n, arc) ==
  IF verdict[n] # "none" THEN verdict ELSE [verdict EXCEPT ![n] = IF st.in.arc[arc] = "blocked" THEN "bad" ELSE "good"]
\* getNeighbors: poses change at once, also of nodes that keep their parent afterwards.
getNeighbors(s, c) ==
  LET to == {n \in HyNodes \ s.visited : <<c, n>> \in HyArcs /\ s.in.arc[<<c, n>>] # "none"}
      verdict == [n \in HyNodes |-> IF n \in to THEN isNodeValid(s.verdict, n, <<c, n>>)[n] ELSE s.verdict[n]]
      good == {n \in to : verdict[n] = "good"} IN
  [of |-> good,
   s |-> [s EXCEPT !.verdict = verdict, !.pose = [n \in DOMAIN @ |-> IF n \in good THEN c ELSE @[n]]]]
HyCost(s, c, n) == IF s.in.arc[<<c, n>>] = "dear" THEN 3 ELSE 1
expandHybrid(s, c) ==
  LET near == getNeighbors(s, c)
      Add(n, r) ==
        LET g == s.g[c] + HyCost(s, c, n) IN
        IF g >= r.g[n] THEN r
        ELSE [r EXCEPT !.g[n] = g, !.parent[n] = c, !.queue = @ \cup {<<g + HyHeuristic[n], n, r.pose[n]>>},
                       !.best = IF HyHeuristic[n] < @[1] THEN <<HyHeuristic[n], n>> ELSE @] IN
  FoldSet(Add, near.s, near.of)

\* setAnalyticPath: a node that was visited before is replaced by a detached copy.
setAnalyticPath(s, from, via) ==
  LET Link(r, n) ==
        LET m == IF n \in r.visited THEN Len(r.left) + 4 ELSE n IN
        [parent |-> [r.parent EXCEPT ![m] = r.prev], pose |-> [r.pose EXCEPT ![m] = -1],
         visited |-> r.visited \cup {m}, prev |-> m, left |-> IF m = n THEN r.left ELSE Append(r.left, m)]
      all == FoldLeft(Link, [parent |-> s.parent, pose |-> s.pose, visited |-> s.visited, prev |-> from, left |-> <<0>>], via) IN
  [s EXCEPT !.parent = [all.parent EXCEPT ![4] = all.prev], !.pose = [all.pose EXCEPT ![4] = -1], !.visited = all.visited \cup {4}]

\* One turn of the loop of createPath, which may be stopped as the 2D search is.  An analytic expansion may
\* start at the node or at one of its ancestors and pass other nodes; one that fails leaves the verdicts of the
\* nodes it tried.
HyExpand(q) ==
  LET c == q[2]
      s == [st EXCEPT !.queue = @ \ {q}, !.visited = @ \cup {c}, !.pose[c] = q[3]] IN
  IF c \in st.visited THEN st' = [st EXCEPT !.queue = @ \ {q}]
  ELSE \/ /\ c # 4
          /\ \E from \in ToSet(HyChain(s.parent, c)), via \in {<<>>, <<2>>, <<3>>, <<2, 3>>, <<3, 2>>} :
               /\ via # <<>> => via[1] # from
               /\ st' = HyEnd(setAnalyticPath(s, from, via), 4, "analytic")
       \/ \E tried \in SUBSET {n \in HyNodes \ s.visited : s.verdict[n] = "none"}, v \in {"good", "bad"} :
            LET t == [s EXCEPT !.verdict = [n \in HyNodes |-> IF n \in tried THEN v ELSE @[n]]] IN
            st' = IF c = 4 THEN HyEnd(t, 4, "goal")
                  ELSE IF t.best[1] < t.in.tolerance THEN HyEnd(t, t.best[2], "near")
                  ELSE expandHybrid(t, c)
Hy_search ==
  /\ In({"smac_hybrid"}, "search")
  /\ part' = part
  /\ IF st.queue = {} THEN st' = IF st.best[1] < st.in.tolerance THEN HyEnd(st, st.best[2], "near") ELSE HyEnd(st, 1, "none")
     ELSE \/ st' = HyEnd(st, 1, "stopped")
          \/ \E q \in st.queue :
               /\ \A r \in st.queue : q[1] <= r[1]
               /\ HyExpand(q)

(***************************************************************************)
(* The motion table: a motion is <<direction, side, bins it turns>>.       *)
(***************************************************************************)
Turns(increments, interpolate) == {increments} \cup (IF interpolate THEN 1 .. increments - 1 ELSE {})
initDubin(increments, interpolate) ==
  {<<1, 0, 0>>} \cup UNION {{<<1, i, i>>, <<1, -i, -i>>} : i \in Turns(increments, interpolate)}
initReedsShepp(increments, interpolate) ==
  initDubin(increments, interpolate) \cup
  {<<-1, 0, 0>>} \cup UNION {{<<-1, i, -i>>, <<-1, -i, i>>} : i \in Turns(increments, interpolate)}
Wrapped(h) == IF h < 0 THEN h + HyBins ELSE IF h >= HyBins THEN h - HyBins ELSE h
\* getProjections: the headings reached from heading h, by motion.
getProjections(motions, h) == [m \in motions |-> Wrapped(h + m[3])]
\* The bin of an angle given in halves of a bin; round() goes away from zero.
getClosestAngularBin(halves) == LET bin == (halves + 1) \div 2 IN IF bin < HyBins THEN bin ELSE 0

\* precomputeDistanceHeuristic: what is stored at which index, with x outermost and the heading innermost.
lookupTable ==
  LET half == HyLookup \div 2
      rows == half + 1 IN
  [i \in 0 .. HyLookup * rows * HyBins - 1 |->
     <<i \div (rows * HyBins) - half, (i \div HyBins) % rows, i % HyBins>>]
\* getDistanceHeuristic: the index read for a pose relative to the goal, -1 outside of the window.
getDistanceHeuristic(x, y, theta) ==
  LET half == HyLookup \div 2 IN
  IF Abs(x) >= half \/ Abs(y) >= half THEN -1
  ELSE (x + half) * (half + 1) * HyBins + Abs(y) * HyBins + (IF y < 0 THEN HyBins - theta ELSE theta)

\* FootprintCollisionChecker::footprintCost, over the costs of the cells of two edges.
edgesCost(edges) == IF edges[1] = 254 THEN 254 ELSE Greatest(edges[1], edges[2])
\* GridCollisionChecker::inCollision for a pose within the map.
inCollision(center, edges, radius, possible, unknown) ==
  IF radius THEN IF center = 255 /\ unknown THEN FALSE ELSE center >= 253
  ELSE CASE possible > 0 /\ center < possible -> FALSE
         [] ~(possible > 0 /\ center < possible) /\ ((center = 255 /\ ~unknown) \/ center \in {253, 254}) -> TRUE
         [] OTHER -> IF edgesCost(edges) = 255 /\ unknown THEN FALSE ELSE edgesCost(edges) >= 254

\* CostmapDownsampler::downsample of a row of cells by a factor.
setCostOfCell(row, factor, lowest, i) ==
  LET S == {row[k] : k \in {k \in DOMAIN row : k \div factor = i}} IN
  IF lowest THEN CHOOSE c \in S : \A d \in S : c <= d ELSE CHOOSE c \in S : \A d \in S : c >= d
downsample(row, factor, lowest) ==
  LET size == (Cardinality(DOMAIN row) + factor - 1) \div factor IN
  [i \in 0 .. size - 1 |-> setCostOfCell(row, factor, lowest, i)]

SmacHybridInit ==
  \/ Call("smac_hybrid", {[arc |-> a, tolerance |-> t] : a \in [HyArcs -> {"none", "cheap", "dear", "blocked"}], t \in {0, 2}})
  \/ Call("smac_motions", {[reverse |-> r, increments |-> i, interpolate |-> p, heading |-> h] :
                             r \in BOOLEAN, i \in 1 .. 3, p \in BOOLEAN, h \in 0 .. HyBins - 1})
  \/ Call("smac_bin", 0 .. 2 * HyBins - 1)
  \/ Call("smac_lookup", {<<x, y, t>> : x \in -HyLookup .. HyLookup, y \in -HyLookup .. HyLookup, t \in 0 .. HyBins - 1})
  \/ Call("smac_checker", {[center |-> c, edges |-> <<e, f>>, radius |-> r, possible |-> p, unknown |-> u] :
                             c \in HyCosts, e \in HyCosts, f \in HyCosts, r \in BOOLEAN, p \in {-1, 50}, u \in BOOLEAN})
  \/ Call("smac_downsample", UNION {{[row |-> w, factor |-> f, lowest |-> l] : w \in [0 .. n -> HyCosts], f \in 1 .. 3, l \in BOOLEAN} :
                                      n \in 0 .. 3})
SmacHybridNext ==
  \/ Hy_createPath
  \/ Hy_search
  \/ Returns("smac_motions",
             getProjections((IF st.in.reverse THEN initReedsShepp(st.in.increments, st.in.interpolate)
                             ELSE initDubin(st.in.increments, st.in.interpolate)), st.in.heading))
  \/ Returns("smac_bin", getClosestAngularBin(st.in))
  \/ Returns("smac_lookup", getDistanceHeuristic(st.in[1], st.in[2], st.in[3]))
  \/ Returns("smac_checker", inCollision(st.in.center, st.in.edges, st.in.radius, st.in.possible, st.in.unknown))
  \/ Returns("smac_downsample", downsample(st.in.row, st.in.factor, st.in.lowest))

(* A path of the hybrid and lattice planners leads from the start to the goal without coming back to  *)
(* a node, and each of its poses was projected from the pose before it or belongs to the analytic     *)
(* expansion that ends it.  Only a path that ends within the tolerance may end with a pose of another *)
(* motion (createPath, getNeighbors, NodeBasic::processSearchNode, setAnalyticPath).                  *)
SmacPathIsContinuous ==
  Done("smac_hybrid") /\ st.out # <<>> =>
    /\ st.out[1][1] = 1
    /\ st.how # "near" => st.out[Len(st.out)][1] = 4
    /\ \A i, j \in 1 .. Len(st.out) : st.out[i][1] = st.out[j][1] => i = j
    /\ \A i \in 2 .. Len(st.out) :
         \/ st.out[i][2] = st.out[i - 1][1]
         \/ st.how = "near" /\ i = Len(st.out)
         \/ st.how = "analytic" /\ \A j \in i .. Len(st.out) : st.out[j][2] = -1

(* The tables of the planners agree with what they stand for: every motion leads to a heading of the  *)
(* table, and with reversing another motion undoes it; an angle gets its nearest bin; a pose near the *)
(* goal reads the distance stored for it, mirrored, unless it lies on the other side with the heading *)
(* of the goal; a pose whose cells are all known is refused exactly when its centre or outline is     *)
(* occupied; a downsampled cell has the extreme of the costs it stands for.                           *)
SmacTablesAgree ==
  /\ Done("smac_motions") =>
       \A m \in DOMAIN st.out :
         /\ st.out[m] \in 0 .. HyBins - 1
         /\ st.in.reverse => \E n \in DOMAIN st.out : n[1] = -m[1] /\ Wrapped(st.out[m] + n[3]) = st.in.heading
  /\ Done("smac_bin") =>
       LET d == Abs(2 * st.out - st.in) IN st.out \in 0 .. HyBins - 1 /\ Least(d, 2 * HyBins - d) <= 1
  /\ Done("smac_lookup") /\ st.out # -1 =>
       /\ st.out \in DOMAIN lookupTable
       /\ \/ lookupTable[st.out] = <<st.in[1], Abs(st.in[2]), IF st.in[2] < 0 THEN (HyBins - st.in[3]) % HyBins ELSE st.in[3]>>
          \/ st.in[2] < 0 /\ st.in[3] = 0
  /\ Done("smac_checker") /\ 255 \notin {st.in.center, st.in.edges[1], st.in.edges[2]} =>
       (st.out <=> IF st.in.radius THEN st.in.center >= 253
                   ELSE ~(st.in.possible > st.in.center) /\ (st.in.center >= 253 \/ 254 \in {st.in.edges[1], st.in.edges[2]}))
  /\ Done("smac_downsample") =>
       \A k \in DOMAIN st.in.row :
         /\ k \div st.in.factor \in DOMAIN st.out
         /\ IF st.in.lowest THEN st.out[k \div st.in.factor] <= st.in.row[k] ELSE st.out[k \div st.in.factor] >= st.in.row[k]
         /\ \E j \in DOMAIN st.in.row : j \div st.in.factor = k \div st.in.factor /\ st.in.row[j] = st.out[k \div st.in.factor]

-----------------------------------------------------------------------------
(***************************************************************************)
(* The hash table of the graph of the Smac planners, robin_hood::          *)
(* unordered_node_map, and the pool its nodes come from.                   *)
(*                                                                         *)
(* Slot i of the table holds a key and one byte of info: the distance from *)
(* the slot the key hashes to, in units of inc, plus some bits of the      *)
(* hash; 0 is an empty slot, and a byte 1 behind the last slot stops every *)
(* search.  The sizes of the code (8 slots, 5 bits of info, bytes up to    *)
(* 255) are constants here, so that the limits are near.  content is what  *)
(* the table should hold.                                                  *)
(***************************************************************************)

CONSTANTS
  RhInitial,    \* InitialNumElements
  RhInfoInc,    \* InitialInfoInc, a power of two
  RhInfoMax,    \* 0xFF
  RhLargest,    \* slots of the largest table a user lets it grow to
  RhHashes,     \* hash functions: a hash for every key and every multiplier
  RhElements    \* elements in the table at most

ASSUME RobinHoodAssumption ==
  /\ {RhInitial, RhInfoInc, RhInfoMax, RhLargest, RhElements} \subseteq Nat \ {0}
  /\ RhInfoInc <= RhInfoMax

RhKeys == UNION {{k[1] : k \in DOMAIN h} : h \in RhHashes}
FirstFrom(i, P(_)) == CHOOSE j \in i .. i + 4 * RhLargest : P(j) /\ \A k \in i .. j - 1 : ~P(k)

-----------------------------------------------------------------------------
(* The table. *)

calcMaxNumElementsAllowed(n) == (n * 80) \div 100
calcNumElementsWithBuffer(n) ==
  LET allowed == calcMaxNumElementsAllowed(n) IN n + IF allowed < RhInfoMax THEN allowed ELSE RhInfoMax
NoKey == 0
\* init: mMask is 0, and mInfo points to it.
noTable(hash) ==
  [size |-> 1, info |-> [i \in {0} |-> 0], keys |-> [i \in {0} |-> NoKey], num |-> 0, max |-> 0,
   inc |-> RhInfoInc, shift |-> 1, mult |-> 0, hash |-> hash, error |-> FALSE]
\* initData: n empty slots with their buffer, and the sentinel.
initData(t, n) ==
  LET slots == calcNumElementsWithBuffer(n) IN
  [t EXCEPT !.size = n, !.num = 0, !.max = calcMaxNumElementsAllowed(n), !.inc = RhInfoInc, !.shift = 1,
            !.info = [i \in 0 .. slots |-> IF i = slots THEN 1 ELSE 0],
            !.keys = [i \in 0 .. slots - 1 |-> NoKey]]
Info(t, i) == IF i \in DOMAIN t.info THEN t.info[i] ELSE 0

\* keyToIdx: the slot, and the info of a key that sits there (shift is 2 ^ mInfoHashShift).
keyToIdx(t, k) ==
  LET h == t.hash[<<k, t.mult>>] IN
  [idx |-> (h \div RhInfoInc) % t.size, info |-> t.inc + (h % RhInfoInc) \div t.shift]
\* next, j - idx times.
InfoAt(t, at, j) == at.info + (j - at.idx) * t.inc

\* shiftUp: the entries from insertion_idx on move up one slot, into the free slot startIdx.
shiftUp(t, startIdx, insertion_idx) ==
  LET moved == insertion_idx + 1 .. startIdx
      info == [i \in DOMAIN t.info |-> IF i \in moved THEN (t.info[i - 1] + t.inc) % (RhInfoMax + 1) ELSE t.info[i]] IN
  [t EXCEPT !.info = info, !.keys = [i \in DOMAIN t.keys |-> IF i \in moved THEN t.keys[i - 1] ELSE t.keys[i]],
            !.max = IF \E i \in moved : info[i] + t.inc > RhInfoMax THEN 0 ELSE @]
\* shiftDown: the entries behind idx that are not in their own slot move down.
shiftDown(t, idx) ==
  LET end == FirstFrom(idx, LAMBDA j : Info(t, j + 1) < 2 * t.inc) IN
  [t EXCEPT !.info = [i \in DOMAIN t.info |->
                        IF i = end THEN 0 ELSE IF i \in idx .. end - 1 THEN t.info[i + 1] - t.inc ELSE t.info[i]],
            !.keys = [i \in DOMAIN t.keys |->
                        IF i = end THEN NoKey ELSE IF i \in idx .. end - 1 THEN t.keys[i + 1] ELSE t.keys[i]],
            !.num = @ - 1]

\* Mistake: the search ends where an entry is as far from its slot as the key would be.
findIdxShort(t, k) ==
  LET at == keyToIdx(t, k)
      is(j) == Info(t, j) = InfoAt(t, at, j) /\ t.keys[j] = k
      stop == FirstFrom(at.idx, LAMBDA j : is(j) \/ (j > at.idx /\ InfoAt(t, at, j) >= Info(t, j))) IN
  IF is(stop) THEN stop ELSE -1
\* findIdx: two slots a turn, while the info is not above the slot's; -1 for end().
findIdx(t, k) ==
  LET at == keyToIdx(t, k)
      is(j) == Info(t, j) = InfoAt(t, at, j) /\ t.keys[j] = k
      stop == FirstFrom(at.idx, LAMBDA j : is(j) \/ ((j - at.idx) % 2 = 0 /\ j > at.idx /\ InfoAt(t, at, j) > Info(t, j))) IN
  IF is(stop) THEN stop ELSE -1
\* The same search in erase(key), slot by slot.
eraseIdx(t, k) ==
  LET at == keyToIdx(t, k)
      is(j) == Info(t, j) = InfoAt(t, at, j) /\ t.keys[j] = k
      stop == FirstFrom(at.idx, LAMBDA j : is(j) \/ (j > at.idx /\ InfoAt(t, at, j) > Info(t, j))) IN
  IF is(stop) THEN stop ELSE -1

\* The end of both insertions: shift, write the info, count.
Placed(t, k, at, slot) ==
  LET free == FirstFrom(slot, LAMBDA j : Info(t, j) = 0)
      info == InfoAt(t, at, slot)
      flagged == [t EXCEPT !.max = IF info + t.inc > RhInfoMax THEN 0 ELSE @]
      moved == IF free # slot THEN shiftUp(flagged, free, slot) ELSE flagged IN
  [moved EXCEPT !.info[slot] = info % (RhInfoMax + 1), !.keys[slot] = k, !.num = @ + 1]

\* try_increase_info: one bit of the hash is given up for twice the distance.
try_increase_info(t) ==
  LET slots == calcNumElementsWithBuffer(t.size) IN
  [t EXCEPT !.inc = @ \div 2, !.shift = @ * 2, !.max = calcMaxNumElementsAllowed(t.size),
            !.info = [i \in DOMAIN t.info |-> IF i = slots THEN 1 ELSE t.info[i] \div 2]]
\* insert_move: into a table that has room and not this key.
insert_move(t, k) ==
  LET u == IF t.max = 0 /\ t.inc > 2 THEN try_increase_info(t) ELSE t
      at == keyToIdx(u, k)
      slot == FirstFrom(at.idx, LAMBDA j : InfoAt(u, at, j) > Info(u, j)) IN
  IF t.error \/ (t.max = 0 /\ t.inc <= 2) THEN [t EXCEPT !.error = TRUE] ELSE Placed(u, k, at, slot)
\* rehashPowerOfTwo: the old entries in the order of their slots.
rehashPowerOfTwo(t, n) ==
  LET entries == SelectSeq([i \in 1 .. Cardinality(DOMAIN t.keys) |-> t.keys[i - 1]], LAMBDA k : k # NoKey)
      filled[i \in 0 .. Len(entries)] ==
        IF i = 0 THEN initData(t, n) ELSE insert_move(filled[i - 1], entries[i]) IN
  filled[Len(entries)]
\* increase_size: the first slots; then finer info, another multiplier, or twice the slots.
increase_size(t) ==
  IF t.size = 1 THEN initData(t, RhInitial)
  ELSE IF t.num < calcMaxNumElementsAllowed(t.size) /\ t.inc > 2 THEN try_increase_info(t)
  ELSE IF t.num * 2 < calcMaxNumElementsAllowed(t.size)
       THEN rehashPowerOfTwo([t EXCEPT !.mult = 1 - @], t.size)
  ELSE rehashPowerOfTwo(t, 2 * t.size)

\* insertKeyPrepareEmptySpot: until the key is found or has a slot.
RECURSIVE insertKeyPrepareEmptySpot(_, _, _)
insertKeyPrepareEmptySpot(t, k, tries) ==
  LET at == keyToIdx(t, k)
      notLess == FirstFrom(at.idx, LAMBDA j : InfoAt(t, at, j) >= Info(t, j))
      slot == FirstFrom(notLess, LAMBDA j : InfoAt(t, at, j) # Info(t, j) \/ t.keys[j] = k) IN
  IF Info(t, slot) = InfoAt(t, at, slot) THEN [t |-> t, new |-> FALSE]
  ELSE IF t.error \/ tries = 0 THEN [t |-> [t EXCEPT !.error = TRUE], new |-> FALSE]
  ELSE IF t.num >= t.max THEN insertKeyPrepareEmptySpot(increase_size(t), k, tries - 1)
  ELSE [t |-> Placed(t, k, at, slot), new |-> TRUE]
Tries == 8   \* 256 in the code

\* reserve, rehash and compact: the smallest size that holds max(c, num).
FittingSize(t, c) ==
  LET want == IF c > t.num THEN c ELSE t.num
      sizes == {RhInitial * m : m \in {1, 2, 4, 8}} IN
  CHOOSE n \in sizes : /\ calcMaxNumElementsAllowed(n) >= want
                       /\ \A m \in sizes : calcMaxNumElementsAllowed(m) >= want => n <= m
reserve(t, c, force) ==
  LET n == FittingSize(t, c) IN IF force \/ n > t.size THEN rehashPowerOfTwo(t, n) ELSE t
compact(t) ==
  LET n == FittingSize(t, 0) IN IF n < t.size THEN rehashPowerOfTwo(t, n) ELSE t
\* clear: the slots are kept, and so is mMaxNumElementsAllowed.
clear(t) ==
  IF t.num = 0 THEN t
  ELSE [initData(t, t.size) EXCEPT !.max = t.max]

Rh == In({"robinHood"}, "table") /\ ~st.t.error
Rh_become(t, content) == Become([st EXCEPT !.t = t, !.content = content])
\* emplace, insert, try_emplace, operator[]: an element that is there is left alone.
emplace ==
  /\ Rh /\ st.t.num < RhElements
  /\ \E k \in RhKeys :
       LET r == insertKeyPrepareEmptySpot(st.t, k, Tries) IN
       /\ r.t.size <= RhLargest
       /\ Rh_become(r.t, IF r.t.error THEN st.content ELSE st.content \cup {k})
erase ==
  /\ Rh
  /\ \E k \in RhKeys :
       LET i == eraseIdx(st.t, k) IN
       Rh_become(IF i = -1 THEN st.t ELSE shiftDown(st.t, i), st.content \ {k})
Rh_reserve ==
  /\ Rh
  /\ \E c \in {0, RhElements}, force \in BOOLEAN : Rh_become(reserve(st.t, c, force), st.content)
Rh_compact == Rh /\ st.t.size > 1 /\ Rh_become(compact(st.t), st.content)
Rh_clear == Rh /\ Rh_become(clear(st.t), {})

\* begin() and operator++: from one slot that is not empty to the next, to the sentinel.
Iterated(t) == {t.keys[i] : i \in {j \in DOMAIN t.keys : t.info[j] # 0}}

-----------------------------------------------------------------------------
(* The pool: free slots <<chunk, i>> in the order they are handed out.      *)

CONSTANT PoolChunks   \* chunks the pool gets at most

poolInit == [at |-> "pool", free |-> <<>>, chunks |-> <<>>, live |-> {}]
\* calcNumElementsToAlloc: twice as many for every chunk there is, up to a limit (16384).
calcNumElementsToAlloc(s) == CASE Len(s.chunks) = 0 -> 1 [] Len(s.chunks) = 1 -> 2 [] OTHER -> 4
\* add: the slots of the chunk are linked in front of the list.
add(s, n) ==
  LET c == Len(s.chunks) + 1 IN
  [s EXCEPT !.chunks = Append(@, n), !.free = [i \in 1 .. n |-> <<c, i>>] \o @]
allocate ==
  /\ In({"nodePool"}, "pool")
  /\ st.free = <<>> => Len(st.chunks) < PoolChunks
  /\ LET s == IF st.free = <<>> THEN add(st, calcNumElementsToAlloc(st)) ELSE st IN
     Become([s EXCEPT !.free = Tail(@), !.live = @ \cup {Head(s.free)}])
deallocate ==
  /\ In({"nodePool"}, "pool")
  /\ \E o \in st.live : Become([st EXCEPT !.free = <<o>> \o @, !.live = @ \ {o}])
\* addOrFree: an old table becomes a chunk, unless it is too small for one slot.
addOrFree ==
  /\ In({"nodePool"}, "pool") /\ Len(st.chunks) < PoolChunks
  /\ \E n \in 0 .. 2 : Become(IF n = 0 THEN st ELSE add(st, n))

RobinHoodInit ==
  \/ part = "robinHood" /\ \E h \in RhHashes : st = [at |-> "table", t |-> noTable(h), content |-> {}]
  \/ part = "nodePool" /\ st = poolInit
RobinHoodNext ==
  emplace \/ erase \/ Rh_reserve \/ Rh_compact \/ Rh_clear \/ allocate \/ deallocate \/ addOrFree

-----------------------------------------------------------------------------
\* The table finds exactly the keys that were inserted and not erased, and walks over each of them
\* once, through shifts, halved infos, new multipliers and growth; no byte of info overflows, and a
\* node is never handed out twice.
TableIsSet ==
  /\ part = "robinHood" /\ ~st.t.error =>
       /\ \A k \in RhKeys : (findIdx(st.t, k) # -1) = (k \in st.content)
       /\ st.t.num = Cardinality(st.content)
       /\ Iterated(st.t) = st.content
       /\ Cardinality({i \in DOMAIN st.t.keys : st.t.info[i] # 0}) = st.t.num
  /\ part = "nodePool" =>
       /\ \A i, j \in DOMAIN st.free : st.free[i] = st.free[j] => i = j
       /\ \A i \in DOMAIN st.free : st.free[i] \notin st.live
\* A key of the table sits no further from the slot it hashes to than its byte of info says.
InfoIsDistance ==
  part = "robinHood" /\ ~st.t.error =>
    \A i \in DOMAIN st.t.keys : st.t.info[i] # 0 =>
      LET at == keyToIdx(st.t, st.t.keys[i]) IN st.t.info[i] = InfoAt(st.t, at, i) /\ i >= at.idx
=============================================================================
