--------------------------- MODULE MCTopomapPlanner ---------------------------
(***************************************************************************)
(* TLC instances of TopomapPlanner: five nodes on a line.  Transition      *)
(* nodes 1..3, START = 4 and GOAL = 5 have integer positions, straight-    *)
(* line costs are distances, and a real path is as long as the straight    *)
(* line, has a detour or is blocked.                                       *)
(***************************************************************************)
EXTENDS TopomapPlanner

CONSTANTS Positions, Detours

MCVertices == 1..5
MCStart == 4
MCGoal == 5
MCLinks == {{1, 2}, {1, 3}, {2, 3}}
FromStart == {{4, 1}, {4, 2}}
ToGoal == {{5, 1}, {5, 3}}

Dist(p, e) == LET u == MinEnd(e) v == Other(e, MinEnd(e)) IN
                IF p[u] < p[v] THEN p[v] - p[u] ELSE p[u] - p[v]

QueryEdges == MCLinks \cup FromStart \cup ToGoal
Bent == {{4, 1}, {5, 3}}

\* p: positions; d: detours; blocked: edges without a path; c: cost stored on {2, 3}, a
\* stair that comes with a path.  A query may see all exits of the rooms of START and
\* GOAL, or one of each.
Building(p, d, blocked, c) ==
  LET real == [e \in Edges |->
                 IF e \notin QueryEdges \ blocked THEN Inf
                 ELSE Dist(p, e) + IF e \in Bent THEN d[e] ELSE 0]
  IN [links |-> MCLinks, virtual |-> {FromStart \cup ToGoal, {{4, 1}, {5, 3}}}, disabled |-> {},
      est |-> [e \in Edges |-> Dist(p, e)],
      toGoal |-> [v \in Vertices |-> IF v = Goal THEN 0 ELSE Dist(p, {v, Goal})],
      real |-> real, short |-> {e \in Edges : real[e] = 0}, stairs |-> {{2, 3}},
      stored |-> [e \in Edges |-> IF e = {2, 3} THEN c ELSE Unplanned]]

\* Every placement of the transition nodes (START at 1, GOAL at 0) with every choice of
\* detours.  The stair may cost less than the straight line, as the generator's may:
\* only then is a vertex improved after its own edges were expanded, and a whole
\* subtree updated.
LineBuildings ==
  {Building([v \in Vertices |-> IF v = Start THEN 1 ELSE IF v = Goal THEN 0 ELSE p[v]],
            d, blocked, c) :
     p \in [1..3 -> Positions], d \in [Bent -> Detours],
     blocked \in {{}, {{1, 2}, {1, 3}}}, c \in Detours}

=============================================================================
