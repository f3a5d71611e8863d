--------------------------- MODULE PlannerPlugins ---------------------------
(***************************************************************************)
(* The planner and smoother plugins: what they keep between calls, and     *)
(* what a call makes of a path.                                            *)
(***************************************************************************)
EXTENDS Component, Integers, FiniteSets, Sequences

-----------------------------------------------------------------------------
(***************************************************************************)
(* The planner plugins as objects of the planner server: lifecycle,        *)
(* parameters that change while they plan, costmaps that change their      *)
(* size.  The three Smac planners keep copies of what they derive from     *)
(* their parameters, and share one static table of motions between all     *)
(* instances; Theta* and NavFn keep arrays of the size of the costmap.     *)
(*                                                                         *)
(*   node      values of the parameters, as the node knows them            *)
(*   v         the members read from them                                  *)
(*   search    _a_star: what it was built with, and the size it knows      *)
(*   table     motion_table: what it was computed for                      *)
(*   bins      of _collision_checker;  sampler  _costmap_downsampler       *)
(*   res, map  resolution and size of the costmap                          *)
(*   used      what the last plan was made with                            *)
(***************************************************************************)

CONSTANTS
  PlSizes,    \* sizes of the costmap in cells
  PlResizes   \* those under the Smac planners

SmacPlugins == {"smac_2d_plugin", "smac_hybrid_plugin", "smac_lattice_plugin"}
ThetaPlugins == {"theta_star_plugin"}
NavfnPlugins == {"navfn_plugin"}
PlNone == [none |-> TRUE]
PlUnused == [factor |-> 0, given |-> 0, bins |-> 0, checker |-> 0, table |-> 0, cells |-> 0, fits |-> TRUE]

\* The values of the parameters that are told apart.  "file" is the lattice file, whose number of
\* headings takes the place of the angle bins; "other" stands for the rest of the search parameters.
PlDomain == [down : BOOLEAN, factor : {1, 2}, bins : {8, 16}, other : {0}]
PlNames ==
  CASE part = "smac_2d_plugin" -> {"down", "factor", "other"}
    [] part = "smac_hybrid_plugin" -> {"down", "factor", "bins", "other"}
    [] part = "smac_lattice_plugin" -> {"bins", "other"}
PlDefault == [down |-> FALSE, factor |-> 1, bins |-> 8, other |-> 0]

\* The values after configure and after a change: no factor without downsampling (hybrid).
withFactor(v) == IF part = "smac_hybrid_plugin" /\ ~v.down THEN [v EXCEPT !.factor = 1] ELSE v
\* AStarAlgorithm with its constructor and initialize: the size is not known yet.
newSearch(s, v) == [factor |-> v.factor, res |-> s.res, bins |-> v.bins, size |-> 0]
downsampler(s, v) == s.sampler \/ (part # "smac_lattice_plugin" /\ v.down /\ v.factor > 1)

smac2dConfigured(s) ==
  [s EXCEPT !.at = "inactive", !.v = s.node, !.search = newSearch(s, s.node), !.bins = 8,
            !.sampler = downsampler(s, s.node)]
smacHybridConfigured(s) ==
  LET v == withFactor(s.node) IN
  [s EXCEPT !.at = "inactive", !.v = v, !.search = newSearch(s, v), !.bins = v.bins,
            !.sampler = downsampler(s, v)]
\* The checker of the lattice planner has 72 bins whatever the file says.
smacLatticeConfigured(s) ==
  [s EXCEPT !.at = "inactive", !.v = s.node, !.search = newSearch(s, s.node), !.bins = 72]
Pl_configure ==
  /\ In(SmacPlugins, "unconfigured")
  /\ Become(CASE part = "smac_2d_plugin" -> smac2dConfigured(st)
              [] part = "smac_hybrid_plugin" -> smacHybridConfigured(st)
              [] part = "smac_lattice_plugin" -> smacLatticeConfigured(st))
Pl_activate ==
  /\ In(SmacPlugins, "inactive")
  /\ Become([st EXCEPT !.at = "active", !.remote = @ \/ part = "smac_hybrid_plugin"])
Pl_deactivate == In(SmacPlugins, "active") /\ Become([st EXCEPT !.at = "inactive"])
\* cleanup: the static table survives.
Pl_cleanup ==
  /\ In(SmacPlugins, "inactive")
  /\ Become([st EXCEPT !.at = "unconfigured", !.search = PlNone, !.sampler = FALSE, !.v = PlDefault, !.bins = 0,
                       !.off = FALSE])

\* createPlan holds _mutex and the mutex of the costmap.
BetweenPlans(plugins) == part \in plugins /\ st.at # "planned"

\* dynamicParametersCallback: changed are the names in the request.
smac2dParameters(s, v, changed) ==
  [s EXCEPT !.v = v,
            !.search = IF "other" \in changed THEN newSearch(s, v) ELSE @,
            !.sampler = IF changed \cap {"down", "factor"} # {} THEN downsampler(s, v) ELSE @]
\* Switching the downsampling off sets the factor to one and leaves the search as it is.
smacHybridParameters(s, w, changed) ==
  LET v == withFactor(w)
      rebuilt == changed \cap {"factor", "bins", "other", "resolution"} # {} IN
  [s EXCEPT !.v = v,
            !.search = IF rebuilt THEN newSearch(s, v) ELSE @,
            !.sampler = IF changed \cap {"down", "factor", "resolution"} # {} THEN downsampler(s, v) ELSE @,
            !.bins = IF changed \cap {"bins", "resolution"} # {} THEN v.bins ELSE @,
            !.off = ~rebuilt /\ (@ \/ s.v.factor # v.factor)]
smacLatticeParameters(s, v, changed) == [s EXCEPT !.v = v, !.search = newSearch(s, v)]
Pl_setParameters ==
  /\ BetweenPlans(SmacPlugins)
  /\ \E changed \in SUBSET PlNames \ {{}}, to \in PlDomain :
       /\ \A n \in DOMAIN to \ changed : to[n] = st.v[n]
       /\ LET s == [st EXCEPT !.node = [n \in DOMAIN to |-> IF n \in changed THEN to[n] ELSE @[n]]] IN
          Become(IF st.at # "active" THEN s
                 ELSE CASE part = "smac_2d_plugin" -> smac2dParameters(s, to, changed)
                        [] part = "smac_hybrid_plugin" -> smacHybridParameters(s, to, changed)
                        [] part = "smac_lattice_plugin" -> smacLatticeParameters(s, to, changed))
\* The resolution of the costmap changes, and the hybrid planner hears of it; its subscription
\* outlives deactivate.  The others are not told.
Pl_resolution ==
  /\ BetweenPlans(SmacPlugins)
  /\ Become([st EXCEPT !.res = 3 - @, !.told = FALSE])
Pl_resolution_remote_cb ==
  /\ BetweenPlans(SmacPlugins)
  /\ st.remote /\ ~st.told
  /\ Become(IF st.at = "unconfigured" THEN [st EXCEPT !.told = TRUE]
            ELSE [smacHybridParameters(st, st.v, {"resolution"}) EXCEPT !.told = TRUE])
\* Another instance of the same planner, with parameters of its own, plans in the same server.
Pl_otherInstance ==
  /\ BetweenPlans({"smac_hybrid_plugin", "smac_lattice_plugin"})
  /\ Become([st EXCEPT !.table = [bins |-> 32, cells |-> 5], !.shared = TRUE])
Pl_mapResized ==
  /\ BetweenPlans(SmacPlugins)
  /\ \E n \in PlResizes : Become([st EXCEPT !.map = n])

\* createPlan up to the search: the costmap it is given, setCollisionChecker with initMotionModel
\* when the size is another one.
givenFactor(s) == IF s.sampler THEN s.v.factor ELSE 1
setCollisionChecker(s) ==
  LET size == s.map * 10 + givenFactor(s) IN
  IF s.search.size = size THEN s
  ELSE [s EXCEPT !.search.size = size, !.shared = FALSE,
                 !.table = [bins |-> s.search.bins, cells |-> s.search.factor * s.search.res]]
Pl_createPlan ==
  /\ In(SmacPlugins, "active")
  /\ LET s == setCollisionChecker(st) IN
     Become([s EXCEPT !.used = [factor |-> s.search.factor, given |-> givenFactor(s), bins |-> s.search.bins,
                                checker |-> s.bins, table |-> s.table.bins, cells |-> s.table.cells,
                                fits |-> s.search.size = s.map * 10 + givenFactor(s)],
                       !.at = "planned"])
Pl_planned == In(SmacPlugins, "planned") /\ Become([st EXCEPT !.at = "active", !.used = PlUnused])

-----------------------------------------------------------------------------
(* Theta*: length of node_position_, entries that may be set, capacity of nodes_data_. *)

\* initializePosn and resetContainers.
initializePosn(s, inc) == [s EXCEPT !.set = IF @ <= s.size THEN 0 ELSE @, !.length = @ + inc]
resetContainers(s) ==
  LET t == IF s.size # s.map /\ s.length < s.map
           THEN [initializePosn(s, s.map - s.size) EXCEPT !.capacity = IF @ < s.map THEN s.map ELSE @]
           ELSE initializePosn(s, 0) IN
  [t EXCEPT !.size = s.map]
\* createPlan: clearStart uses the start of the plan before; then the search, with up to as many
\* nodes as cells.
Th_createPlan ==
  /\ In(ThetaPlugins, "active")
  /\ \E start \in {0, st.map - 1}, nodes \in {1, st.map} :
       LET s == resetContainers([st EXCEPT !.src = start]) IN
       Become([s EXCEPT !.at = "planned", !.clean = s.set = 0, !.stray = st.src >= st.map,
                        !.set = s.map, !.moved = nodes > s.capacity,
                        !.capacity = IF nodes > @ THEN nodes ELSE @])
Th_planned == In(ThetaPlugins, "planned") /\ Become([st EXCEPT !.at = "active"])
Th_mapResized == In(ThetaPlugins, "active") /\ \E n \in PlSizes : Become([st EXCEPT !.map = n])
Th_configure ==
  /\ In(ThetaPlugins, "unconfigured")
  /\ Become([st EXCEPT !.at = "inactive", !.size = 0, !.length = 0, !.set = 0, !.capacity = 0, !.src = 0])
Th_activate == In(ThetaPlugins, "inactive") /\ Become([st EXCEPT !.at = "active"])
Th_deactivate == In(ThetaPlugins, "active") /\ Become([st EXCEPT !.at = "inactive"])
Th_cleanup == In(ThetaPlugins, "inactive") /\ Become([st EXCEPT !.at = "unconfigured"])

(* NavFn: the start is converted before the costmap is locked and copied, the goal after it. *)
Nv_configure == In(NavfnPlugins, "unconfigured") /\ Become([st EXCEPT !.at = "inactive", !.size = st.map])
Nv_activate == In(NavfnPlugins, "inactive") /\ Become([st EXCEPT !.at = "active"])
Nv_deactivate == In(NavfnPlugins, "active") /\ Become([st EXCEPT !.at = "inactive"])
Nv_cleanup == In(NavfnPlugins, "inactive") /\ Become([st EXCEPT !.at = "unconfigured"])
isPlannerOutOfDate == st.size # st.map
Nv_createPlan ==
  /\ In(NavfnPlugins, "active")
  /\ \E start \in {0, st.map - 1} :
       Become([st EXCEPT !.at = "start", !.src = start, !.size = IF isPlannerOutOfDate THEN st.map ELSE @,
                         !.resized = FALSE])
Nv_setCostmap == In(NavfnPlugins, "start") /\ Become([st EXCEPT !.at = "copied", !.size = st.map])
Nv_makePlan ==
  /\ In(NavfnPlugins, "copied")
  /\ \E goal \in {0, st.map - 1} : Become([st EXCEPT !.at = "search", !.dst = goal])
Nv_planned == In(NavfnPlugins, "search") /\ Become([st EXCEPT !.at = "active", !.src = 0, !.dst = 0])
Nv_mapResized ==
  /\ part \in NavfnPlugins
  /\ \E n \in PlSizes \ {st.map} : Become([st EXCEPT !.map = n, !.resized = TRUE])

-----------------------------------------------------------------------------
PlannerPluginsInit ==
  CASE part \in SmacPlugins ->
         [at : {"unconfigured"}, node : {PlDefault}, v : {PlDefault}, search : {PlNone},
          table : {[bins |-> 0, cells |-> 0]}, bins : {0}, sampler : {FALSE}, res : {1}, map : PlResizes,
          used : {PlUnused}, off : {FALSE}, remote : {FALSE}, told : {TRUE}, shared : {FALSE}]
    [] part \in ThetaPlugins ->
         [at : {"unconfigured"}, size : {0}, length : {0}, set : {0}, capacity : {0}, src : {0}, map : PlSizes,
          clean : {TRUE}, stray : {FALSE}, moved : {FALSE}]
    [] part \in NavfnPlugins ->
         [at : {"unconfigured"}, size : {0}, src : {0}, dst : {0}, map : PlSizes, resized : {FALSE}]
PlannerPluginsNext ==
  \/ Pl_configure \/ Pl_activate \/ Pl_deactivate \/ Pl_cleanup \/ Pl_setParameters \/ Pl_resolution
  \/ Pl_resolution_remote_cb \/ Pl_otherInstance \/ Pl_mapResized \/ Pl_createPlan \/ Pl_planned
  \/ Th_configure \/ Th_activate \/ Th_deactivate \/ Th_cleanup \/ Th_createPlan \/ Th_planned \/ Th_mapResized
  \/ Nv_configure \/ Nv_activate \/ Nv_deactivate \/ Nv_cleanup \/ Nv_createPlan \/ Nv_setCostmap
  \/ Nv_makePlan \/ Nv_planned \/ Nv_mapResized

\* A Smac planner plans on the grid its search was made for, with the bins of its collision checker
\* and with its own table of motions, whatever was changed before: but for a hybrid planner whose
\* downsampling was switched off (its search keeps the coarse cells), and for a table that another
\* instance has overwritten.
SmacPlansOnItsGrid ==
  part \in SmacPlugins /\ st.at = "planned" =>
    /\ st.used.fits
    /\ part = "smac_hybrid_plugin" =>
         /\ st.used.factor = st.used.given \/ st.off
         /\ st.used.checker = st.used.bins
    /\ st.used.table = st.used.bins \/ st.shared

\* smac_planner/README.md: "minimum turning radius in m of path / vehicle".  The radius in cells
\* is that of the cells the search runs on.
\* It does not hold: README, Disagreements.
TurningRadiusKept ==
  part = "smac_hybrid_plugin" /\ st.at = "planned" /\ st.told => st.used.cells = st.used.given * st.res

\* The pointers of the last search are gone from node_position_ before the next one, and it is long
\* enough for the map, through any sequence of map sizes; and the nodes of a search stay where the
\* pointers of queue_ and node_position_ expect them, as nodes_data_ does not grow beyond its capacity.
ThetaContainersFit ==
  part \in ThetaPlugins =>
    /\ st.at = "planned" => st.clean /\ st.length >= st.map
    /\ ~st.moved

\* NavFn searches from and to cells of its arrays, unless the costmap was resized meanwhile.
NavfnEndsInArrays ==
  part \in NavfnPlugins /\ st.at = "search" /\ ~st.resized => st.src < st.size /\ st.dst < st.size

-----------------------------------------------------------------------------
(***************************************************************************)
(* The path smoothers: the simple and Savitzky-Golay plugins of            *)
(* navbim_smoother and of nav2_smoother, and the smoother of the Smac      *)
(* planners.                                                               *)
(*                                                                         *)
(* Where a weighted sum puts a pose is chosen freely; a pose is abstracted *)
(* to what the costmap says at its place: "given" (still the pose of the   *)
(* caller), "free", "unknown", "lethal" (253 or 254) or "outside".         *)
(***************************************************************************)

CONSTANTS
  PsPoses,        \* poses of a segment that is long enough to be smoothed
  PsIterations,   \* max_its: the pass with this number is not made
  PsRefinements   \* refinement_num

ASSUME PathSmoothingAssumption ==
  PsPoses \in Nat \ (0 .. 2) /\ PsIterations \in Nat \ {0} /\ PsRefinements \in Nat

Gradual == {"navbimSimple", "nav2Simple", "smacSmoother"}  \* descend until the change is small
Windowed == {"navbimSavitzky", "nav2Savitzky"}             \* one filter pass per refinement
Smoothers == Gradual \cup Windowed

Seen == {"free", "unknown", "lethal", "outside"}
Inner == 2 .. PsPoses - 1
Given(n) == [i \in 1 .. n |-> "given"]

\* The caller's path: directional segments, short ones of two poses.
PathSmoothingInit ==
  [at : {"smooth"}, path : {<<Given(PsPoses)>>, <<Given(2), Given(PsPoses)>>,
                            <<Given(PsPoses), Given(PsPoses)>>},
   i : {1}, ok : {TRUE}, last : {<<>>}, its : {0}, depth : {0}]

Segment == st.path[st.i]
\* The poses go back into the path, whatever became of the segment.
Copied(poses, ok) ==
  [st EXCEPT !.at = "smooth", !.path[st.i] = poses, !.i = @ + 1, !.ok = @ /\ ok, !.last = <<>>,
             !.its = 0, !.depth = 0]
Throws == [st EXCEPT !.at = "thrown", !.last = <<>>]

-----------------------------------------------------------------------------
(* smooth(): the loop over the segments.                                   *)

tooShort ==
  /\ In(Smoothers, "smooth")
  /\ st.i <= Len(st.path) /\ Len(Segment) < PsPoses
  /\ Become([st EXCEPT !.i = @ + 1])

smoothDone ==
  /\ In(Smoothers, "smooth")
  /\ st.i > Len(st.path)
  /\ Become([st EXCEPT !.at = "done"])

Enter(S) ==
  /\ In(S, "smooth")
  /\ st.i <= Len(st.path) /\ Len(Segment) = PsPoses

navbimSimpleSmooth == Enter({"navbimSimple"}) /\ Become([st EXCEPT !.at = "pass", !.last = Segment])
nav2SimpleSmooth == Enter({"nav2Simple"}) /\ Become([st EXCEPT !.at = "pass", !.last = Segment])
smacSmooth == Enter({"smacSmoother"}) /\ Become([st EXCEPT !.at = "pass", !.last = Segment])

\* After a segment has failed the && skips the filter of the later ones.
navbimSavitzkySmooth ==
  /\ Enter({"navbimSavitzky"})
  /\ Become(Throws)
     \/ Become(IF st.ok THEN [st EXCEPT !.at = "filter", !.last = Segment]
                        ELSE Copied(Segment, FALSE))
nav2SavitzkySmooth ==
  /\ Enter({"nav2Savitzky"})
  /\ Become(Throws) \/ Become([st EXCEPT !.at = "filter", !.last = Segment])

\* Without a costmap navbim's smoothers refuse the path.
navbimSimpleNoCostmap == In({"navbimSimple"}, "smooth") /\ st.i = 1 /\ Become(Throws)
navbimSavitzkyNoCostmap == In({"navbimSavitzky"}, "smooth") /\ st.i = 1 /\ Become(Throws)

-----------------------------------------------------------------------------
(* smoothImpl() of the gradual smoothers: one pass over the inner poses.   *)

Moved(to) == [j \in 1 .. PsPoses |-> IF j \in Inner THEN to[j] ELSE st.last[j]]
LastPass == st.its + 1 >= PsIterations
Refines == st.depth < PsRefinements

\* A pass that is kept: the change is still large, it is refined, or it ends.
KeptPass(new, end) ==
  \/ Become([st EXCEPT !.its = @ + 1, !.last = new])
  \/ IF Refines THEN Become([st EXCEPT !.its = 0, !.depth = @ + 1, !.last = new])
                ELSE Become(end)

\* A pose on an obstacle or off the map stays where it was; when more than
\* half of them stay the last pass is undone.  A failed refinement fails
\* every level above it, which leaves the caller's segment as it was.
NavbimKept(to) ==
  [j \in 1 .. PsPoses |-> IF j \in Inner /\ to[j] \notin {"lethal", "outside"}
                          THEN to[j] ELSE st.last[j]]
Skipped(to) == {j \in Inner : to[j] \in {"lethal", "outside"}}
NavbimFails == Copied(IF st.depth = 0 THEN st.last ELSE Segment, FALSE)
navbimSmoothImpl ==
  /\ In({"navbimSimple"}, "pass")
  /\ \/ LastPass /\ Become(NavbimFails)
     \/ ~LastPass /\ Become(Throws)
     \/ /\ ~LastPass
        /\ \E to \in [Inner -> Seen] :
             IF Cardinality(Skipped(to)) > (PsPoses - 2) \div 2
             THEN Become(NavbimFails)
             ELSE KeptPass(NavbimKept(to), Copied(NavbimKept(to), TRUE))

\* The answer of worldToMap is not read: off the map the cost is that of
\* some other cell.  One pose on an obstacle undoes the pass; the result of
\* a refinement is used whether it succeeded or not.
Collides(to) == \E j \in Inner : to[j] = "lethal"
MayCollide(to) == Collides(to) \/ \E j \in Inner : to[j] = "outside"
nav2SmoothImpl ==
  /\ In({"nav2Simple"}, "pass")
  /\ \/ LastPass /\ Become(Copied(st.last, TRUE))
     \/ ~LastPass /\ Become(Throws)
     \/ /\ ~LastPass
        /\ \E to \in [Inner -> Seen] :
             \/ MayCollide(to) /\ Become(Copied(st.last, TRUE))
             \/ ~Collides(to) /\ KeptPass(Moved(to), Copied(Moved(to), TRUE))

\* The segment of a smoothed Smac path is bent back to the poses it has to
\* start and end with, along the shortest curve that is not in collision;
\* here a cell that is unknown counts as a collision.  Only the outermost
\* level's failure is reported, and it leaves the ends as they are.
SmacEnds(poses, ok) ==
  IF ok THEN [st EXCEPT !.at = "startBoundary", !.last = poses]
  ELSE Copied(poses, FALSE)
smacSmoothImpl ==
  /\ In({"smacSmoother"}, "pass")
  /\ \/ Become(SmacEnds(st.last, st.depth > 0))  \* max_its, or max_time
     \/ /\ ~LastPass
        /\ \E to \in [Inner -> Seen] :
             \/ MayCollide(to) /\ Become(SmacEnds(st.last, st.depth > 0))
             \/ ~Collides(to) /\ KeptPass(Moved(to), SmacEnds(Moved(to), TRUE))

\* The curves that findBoundaryExpansion may give: their first or last n
\* poses, but for the ends, take the place of the segment's.
Curves(n) == [1 .. n -> {"free", "outside"}]
Replaced(side, n) == IF side = "start" THEN 2 .. n - 1 ELSE n + 1 .. PsPoses - 1
findShortestBoundaryExpansionIdx(side) ==
  {st.last} \cup {[j \in 1 .. PsPoses |-> IF j \in Replaced(side, n) THEN c[j] ELSE st.last[j]]
                  : n \in 1 .. PsPoses, c \in Curves(PsPoses)}
enforceStartBoundaryConditions ==
  /\ In({"smacSmoother"}, "startBoundary")
  /\ \E poses \in findShortestBoundaryExpansionIdx("start") :
       Become([st EXCEPT !.at = "endBoundary", !.last = poses])
enforceEndBoundaryConditions ==
  /\ In({"smacSmoother"}, "endBoundary")
  /\ \E poses \in findShortestBoundaryExpansionIdx("end") :
       Become(Copied(poses, TRUE))

-----------------------------------------------------------------------------
(* smoothImpl() of the Savitzky-Golay smoothers: one application of the    *)
(* filter to every inner pose, and PsRefinements more.                     *)

\* One filtered pose in collision gives the caller's segment back.
navbimFilter ==
  /\ In({"navbimSavitzky"}, "filter")
  /\ \E to \in [Inner -> Seen] :
       IF Collides(to) THEN Become(Copied(Segment, FALSE))
       ELSE IF Refines THEN Become([st EXCEPT !.depth = @ + 1, !.last = Moved(to)])
       ELSE Become(Copied(Moved(to), TRUE))

nav2Filter ==
  /\ In({"nav2Savitzky"}, "filter")
  /\ \E to \in [Inner -> Seen] :
       IF Refines THEN Become([st EXCEPT !.depth = @ + 1, !.last = Moved(to)])
       ELSE Become(Copied(Moved(to), TRUE))

SmoothersNext ==
  \/ tooShort \/ smoothDone
  \/ navbimSimpleSmooth \/ nav2SimpleSmooth \/ smacSmooth \/ navbimSavitzkySmooth
  \/ nav2SavitzkySmooth \/ navbimSimpleNoCostmap \/ navbimSavitzkyNoCostmap
  \/ navbimSmoothImpl \/ nav2SmoothImpl \/ smacSmoothImpl
  \/ enforceStartBoundaryConditions \/ enforceEndBoundaryConditions
  \/ navbimFilter \/ nav2Filter

-----------------------------------------------------------------------------
(* Poses that a smoother moved, in a path that it gave back.               *)
Back == IF In(Smoothers, "done") \/ In(Smoothers, "thrown") THEN st.path ELSE <<>>

\* A smoother that reads the costmap never moves a pose onto an obstacle, also
\* not when it gives up, runs out of time after some segments, or fails in a
\* refinement; navbim's simple smoother does not move one off the map either.
\* A segment that failed in navbim's Savitzky-Golay filter, or in a refinement,
\* comes back as it was given.
SmoothedPathIsDrivable ==
  \A i \in DOMAIN Back : \A j \in DOMAIN Back[i] :
    /\ part # "nav2Savitzky" => Back[i][j] # "lethal"
    /\ part = "navbimSimple" => Back[i][j] # "outside"
    /\ j \in {1, Len(Back[i])} => Back[i][j] = "given"
    /\ Len(Back[i]) = 2 => Back[i][j] = "given"
=============================================================================
