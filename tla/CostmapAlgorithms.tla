------------------------- MODULE CostmapAlgorithms --------------------------
(***************************************************************************)
(* The algorithms on the cells of a costmap, in nav2_costmap_2d and in the *)
(* Python twin of nav2_simple_commander.                                   *)
(***************************************************************************)
EXTENDS Component, SequencesExt, FiniteSetsExt

-----------------------------------------------------------------------------
(***************************************************************************)
(* The cells of nav2_costmap_2d: the lines, polygons and windows of        *)
(* Costmap2D, nav2_util::LineIterator and FootprintCollisionChecker.  A    *)
(* cell is <<x, y>>; a world coordinate is an integer, of which GeoScale   *)
(* make the side of a cell, with the origin of the map at 0.               *)
(***************************************************************************)

CONSTANTS
  GeoSize,     \* cells along each side of the map
  GeoScale     \* world units along the side of a cell

GeoCells == (0 .. GeoSize - 1) \X (0 .. GeoSize - 1)
OffMap == <<-1, -1>>
LETHAL == 254
UNKNOWN_COST == 255

-----------------------------------------------------------------------------
(* Lines. *)

\* bresenham2D: the steps along the shorter side when i steps along the longer one are made.
bresenham2D(abs_da, abs_db, end) ==
  LET walk[i \in 0 .. end] ==
        IF i = 0 THEN [b |-> 0, error |-> abs_da \div 2]
        ELSE LET last == walk[i - 1]
                 e == last.error + abs_db IN
             IF e >= abs_da THEN [b |-> last.b + 1, error |-> e - abs_da]
             ELSE [b |-> last.b, error |-> e] IN
  [i \in 1 .. end + 1 |-> walk[i - 1].b]

\* The largest k <= n with k <= n * length / dist, for the square of dist: (unsigned int)(scale * n).
Scaled(n, length, dist2) ==
  IF length * length >= dist2 THEN n
  ELSE CHOOSE k \in 0 .. n : /\ k * k * dist2 <= n * n * length * length
                             /\ (k + 1) * (k + 1) * dist2 > n * n * length * length
\* (unsigned int)(x + d / dist * length)
Advanced(x, d, length, dist2) ==
  IF d >= 0 THEN x + Scaled(d, length, dist2)
  ELSE LET k == Scaled(-d, length, dist2) IN
       IF k * k * dist2 = d * d * length * length THEN x - k ELSE x - k - 1

\* Costmap2D::raytraceLine, as the sequence of cells it visits.
raytraceLine(from, to, max_length, min_length) ==
  LET fx == to[1] - from[1]
      fy == to[2] - from[2]
      dist2 == fx * fx + fy * fy
      x0 == IF dist2 > 0 THEN Advanced(from[1], fx, min_length, dist2) ELSE from[1]
      y0 == IF dist2 > 0 THEN Advanced(from[2], fy, min_length, dist2) ELSE from[2]
      dx == to[1] - x0
      dy == to[2] - y0
      long == Greatest(Abs(dx), Abs(dy))
      short == Least(Abs(dx), Abs(dy))
      end == Least(IF dist2 = 0 THEN long ELSE Scaled(long, max_length, dist2), long)
      b == bresenham2D(long, short, end) IN
  IF dist2 < min_length * min_length THEN <<>>
  ELSE [i \in 1 .. end + 1 |->
          IF Abs(dx) >= Abs(dy) THEN <<x0 + (i - 1) * Sign(dx), y0 + b[i] * Sign(dy)>>
          ELSE <<x0 + b[i] * Sign(dx), y0 + (i - 1) * Sign(dy)>>]
Unlimited == 1000

\* nav2_util::LineIterator: its cells while isValid().
LineIterator(from, to) ==
  LET dx == Abs(to[1] - from[1])
      dy == Abs(to[2] - from[2])
      sx == IF to[1] >= from[1] THEN 1 ELSE -1
      sy == IF to[2] >= from[2] THEN 1 ELSE -1
      den == Greatest(dx, dy)
      at[k \in 0 .. den] ==
        IF k = 0 THEN [x |-> from[1], y |-> from[2], num |-> den \div 2]
        ELSE LET last == at[k - 1]
                 n == last.num + Least(dx, dy)
                 minor == n >= den IN
             [x |-> IF dx >= dy \/ minor THEN last.x + sx ELSE last.x,
              y |-> IF dx < dy \/ minor THEN last.y + sy ELSE last.y,
              num |-> IF minor THEN n - den ELSE n] IN
  [i \in 1 .. den + 1 |-> <<at[i - 1].x, at[i - 1].y>>]

-----------------------------------------------------------------------------
(* Polygons. *)

\* Costmap2D::polygonOutlineCells, in the order of its lines.
polygonOutlineCells(p) ==
  FlattenSeq([i \in DOMAIN p |->
    raytraceLine(p[i], p[IF i = Len(p) THEN 1 ELSE i + 1], Unlimited, 0)])

\* Costmap2D::convexFillCells: column by column between the lowest and the highest outline cell.
convexFillCells(p) ==
  LET outline == ToSet(polygonOutlineCells(p))
      column(x) == {c[2] : c \in {o \in outline : o[1] = x}} IN
  IF Len(p) < 3 THEN {}
  ELSE {c \in GeoCells : \E a, b \in column(c[1]) : a <= c[2] /\ c[2] <= b}
\* setConvexPolygonCost: nothing is set when a vertex is off the map.
setConvexPolygonCost(p) == IF OffMap \in ToSet(p) THEN {} ELSE convexFillCells(p)

\* FootprintCollisionChecker::lineCost: the first lethal cell ends it.
lineCost(costs, a, b) ==
  LET line == LineIterator(a, b)
      seen == {costs[line[i]] : i \in DOMAIN line} IN
  IF LETHAL \in seen THEN LETHAL ELSE CHOOSE c \in seen : \A d \in seen : c >= d
\* footprintCost: the edges in order, the closing edge last.
footprintCost(costs, p) ==
  LET cost[i \in 0 .. Len(p) - 1] ==
        IF i = 0 THEN 0
        ELSE LET last == cost[i - 1] IN
             IF last = LETHAL THEN LETHAL
             ELSE IF OffMap \in {p[i], p[i + 1]} THEN LETHAL
             ELSE Greatest(lineCost(costs, p[i], p[i + 1]), last)
      open == cost[Len(p) - 1] IN
  IF open = LETHAL THEN LETHAL ELSE Greatest(lineCost(costs, p[1], p[Len(p)]), open)

-----------------------------------------------------------------------------
(* Windows. *)

\* updateOrigin: the cells of both windows are moved, the others get the default (0).
updateOrigin(costs, wx, wy) ==
  LET ox == Truncated(wx, GeoScale)
      oy == Truncated(wy, GeoScale)
      low(o) == Least(Greatest(o, 0), GeoSize)
      high(o) == Least(Greatest(o + GeoSize, 0), GeoSize)
      copied(x, o) == x + o >= low(o) /\ x + o < high(o) IN
  [origin |-> <<ox * GeoScale, oy * GeoScale>>,
   costs |-> [c \in GeoCells |-> IF copied(c[1], ox) /\ copied(c[2], oy)
                                 THEN costs[<<c[1] + ox, c[2] + oy>>] ELSE 0]]

\* worldToMap, mapToWorld (the middle of the cell, in half units) and worldToMapEnforceBounds,
\* for one axis.
worldToMap(w) == IF w < 0 \/ w \div GeoScale >= GeoSize THEN -1 ELSE w \div GeoScale
mapToWorld(m) == ((2 * m + 1) * GeoScale) \div 2
worldToMapNoBounds(w) == Truncated(w, GeoScale)
worldToMapEnforceBounds(w) ==
  IF w < 0 THEN 0 ELSE IF w > GeoScale * GeoSize THEN GeoSize - 1 ELSE w \div GeoScale

-----------------------------------------------------------------------------
GeoCorners == (GeoCells \X GeoCells \X GeoCells)
GeoCostmaps ==
  {[c \in GeoCells |-> IF c = a THEN k ELSE IF c = b THEN l ELSE 1] :
     a \in GeoCells, b \in {<<1, 1>>, <<0, 1>>}, k \in {100, LETHAL, UNKNOWN_COST}, l \in {LETHAL, UNKNOWN_COST}}
GeoFootprints ==
  {<<<<0, 0>>, <<2, 0>>, <<2, 2>>, <<0, 2>>>>, <<<<0, 1>>, <<1, 2>>, <<2, 1>>>>, <<<<1, 1>>, OffMap, <<0, 0>>>>,
   <<<<0, 0>>, <<2, 1>>>>}
CostmapGeometryInit ==
  \/ part = "raytraceLine" /\ st \in {Called(<<a, b, l[1], l[2]>>) :
       a \in GeoCells, b \in GeoCells, l \in {<<1, 0>>, <<2, 1>>, <<3, 2>>, <<3, 0>>, <<Unlimited, 0>>, <<Unlimited, 2>>}}
  \/ part = "LineIterator" /\ st \in {Called(x) : x \in GeoCells \X GeoCells}
  \/ part = "convexFillCells" /\ st \in {Called(x) : x \in GeoCorners}
  \/ part = "footprintCost" /\ st \in {Called(x) : x \in GeoCostmaps \X GeoFootprints}
  \/ part = "updateOrigin"
     /\ st \in {Called(x) : x \in (-GeoScale * GeoSize .. GeoScale * GeoSize) \X {-GeoScale - 1, 0, GeoScale + 1}}
  \/ part = "worldToMap" /\ st \in {Called(x) : x \in -GeoScale .. GeoScale * (GeoSize + 1)}

NumberedCells == [c \in GeoCells |-> 1 + c[1] + GeoSize * c[2]]

CostmapGeometryNext ==
  \/ Returns("raytraceLine", raytraceLine(st.in[1], st.in[2], st.in[3], st.in[4]))
  \/ Returns("LineIterator", LineIterator(st.in[1], st.in[2]))
  \/ Returns("convexFillCells", setConvexPolygonCost(st.in))
  \/ Returns("footprintCost", footprintCost(st.in[1], st.in[2]))
  \/ Returns("updateOrigin", updateOrigin(NumberedCells, st.in[1], st.in[2]))
  \/ Returns("worldToMap", [map |-> worldToMap(st.in), enforced |-> worldToMapEnforceBounds(st.in),
                            free |-> worldToMapNoBounds(st.in)])

-----------------------------------------------------------------------------
Cross(a, b, c) == (b[1] - a[1]) * (c[2] - a[2]) - (b[2] - a[2]) * (c[1] - a[1])
Close(a, b) == Abs(a[1] - b[1]) <= 1 /\ Abs(a[2] - b[2]) <= 1
Inside(p, c) ==
  \/ Cross(p[1], p[2], c) >= 0 /\ Cross(p[2], p[3], c) >= 0 /\ Cross(p[3], p[1], c) >= 0
  \/ Cross(p[1], p[2], c) <= 0 /\ Cross(p[2], p[3], c) <= 0 /\ Cross(p[3], p[1], c) <= 0
InBox(p, c) ==
  \A k \in 1 .. 2 : (\E i \in DOMAIN p : p[i][k] <= c[k]) /\ (\E i \in DOMAIN p : p[i][k] >= c[k])
Norm2(a, b) == (a[1] - b[1]) * (a[1] - b[1]) + (a[2] - b[2]) * (a[2] - b[2])

\* raytraceLine and LineIterator visit a connected line that leaves the straight one by no
\* more than half a cell, the first one from end to end when no length limits it, never
\* farther than a cell beyond the limit; and they visit the same cells.
LinesAreStraight ==
  /\ Done("raytraceLine") =>
       LET s == st.out
           free == st.in[3] = Unlimited /\ st.in[4] = 0 IN
       /\ \A i \in 1 .. Len(s) - 1 : s[i] # s[i + 1] /\ Close(s[i], s[i + 1])
       /\ ToSet(s) \subseteq GeoCells
       /\ free => /\ s[1] = st.in[1] /\ s[Len(s)] = st.in[2]
                  /\ s = LineIterator(st.in[1], st.in[2])
       /\ \A i \in DOMAIN s : Norm2(s[i], st.in[1]) <= (st.in[3] + 1) * (st.in[3] + 1)
  /\ Done("LineIterator") =>
       \A i \in DOMAIN st.out :
         2 * Abs(Cross(st.in[1], st.in[2], st.out[i]))
           <= Greatest(Abs(st.in[1][1] - st.in[2][1]), Abs(st.in[1][2] - st.in[2][2]))

\* Every cell of a polygon is filled, and nothing outside its box: what is cleared under the
\* footprint leaves no cell behind.
PolygonIsFilled ==
  Done("convexFillCells") =>
    /\ \A c \in GeoCells : Inside(st.in, c) /\ InBox(st.in, c) => c \in st.out
    /\ \A c \in st.out : InBox(st.in, c)

\* A footprint collides exactly when a cell of its outline is lethal or unknown or a corner is
\* off the map; otherwise its cost is the largest of its outline.
FootprintCostIsLargest ==
  Done("footprintCost") =>
    LET p == st.in[2]
        edges == {<<p[i], p[i + 1]>> : i \in 1 .. Len(p) - 1} \cup {<<p[1], p[Len(p)]>>}
        seen == UNION {{st.in[1][c] : c \in ToSet(LineIterator(e[1], e[2]))} : e \in edges} IN
    IF OffMap \in ToSet(p) THEN st.out = LETHAL
    ELSE /\ (st.out >= LETHAL) <=> \E c \in seen : c >= LETHAL
         /\ st.out < LETHAL => st.out \in seen /\ \A c \in seen : c <= st.out

\* Moving the window keeps the cost of every place of the world that is in both windows, and
\* puts the origin less than a cell away from where it was asked for.
WindowMoveKeepsWorld ==
  Done("updateOrigin") =>
    LET o == st.out.origin
        was(c) == <<c[1] + o[1] \div GeoScale, c[2] + o[2] \div GeoScale>> IN
    /\ \A k \in 1 .. 2 : Abs(o[k] - st.in[k]) < GeoScale
    /\ \A c \in GeoCells :
         st.out.costs[c] = (IF was(c) \in GeoCells THEN NumberedCells[was(c)] ELSE 0)

\* The conversions agree inside the map, and the middle of a cell converts back to it.
ConversionsAgree ==
  Done("worldToMap") /\ st.out.map # -1 =>
    st.out.map = st.out.enforced /\ st.out.map = st.out.free
    /\ worldToMap(mapToWorld(st.out.map)) = st.out.map

\* costmap_2d.hpp:211, "The returned map coordinates are guaranteed to lie within the map."
\* It does not hold: README, Disagreements.
EnforcedIsInMap == Done("worldToMap") => st.out.enforced \in 0 .. GeoSize - 1

-----------------------------------------------------------------------------
(***************************************************************************)
(* DenoiseLayer::updateCosts: removal of obstacle groups smaller than      *)
(* minimal_group_size from an image, by dilation (groups of one pixel) or  *)
(* by the labelling of connected components in one pass with union-find    *)
(* trees.  An image is a function from <<row, column>> to costs; a call is *)
(* <<rows, columns, image, connectivity, minimal_group_size, unknown is an *)
(* obstacle>>.                                                             *)
(***************************************************************************)

CONSTANTS
  DenoiseShapes,   \* the <<rows, columns>> of the images
  DenoiseCosts     \* the costs of their pixels

Pixels(shape) == (1 .. shape[1]) \X (1 .. shape[2])
At(image, p) == IF p \in DOMAIN image THEN image[p] ELSE 0
isBackground(cost, unknownIsObstacle) ==
  ~(cost \in {254, 253} \/ (cost = 255 /\ unknownIsObstacle))

\* createShape: the pixels next to p in the shape of the connectivity.
Touching(p, q, way) ==
  /\ p # q /\ Abs(p[1] - q[1]) <= 1 /\ Abs(p[2] - q[2]) <= 1
  /\ way = 4 => p[1] = q[1] \/ p[2] = q[2]

\* dilate with its morphologyOperation and probeRows: the largest of the neighbours, in which an
\* unknown cell counts as free unless it is an obstacle.
dilate(image, way, unknownIsObstacle) ==
  LET value(q) == IF image[q] = 255 /\ ~unknownIsObstacle THEN 0 ELSE image[q] IN
  [p \in DOMAIN image |-> Max({0} \cup {value(q) : q \in {q \in DOMAIN image : Touching(p, q, way)}})]
removeSinglePixels(image, way, unknownIsObstacle) ==
  LET neighbor == dilate(image, way, unknownIsObstacle) IN
  [p \in DOMAIN image |->
     IF ~isBackground(image[p], unknownIsObstacle) /\ isBackground(neighbor[p], unknownIsObstacle)
     THEN 0 ELSE image[p]]

-----------------------------------------------------------------------------
(* EquivalenceLabelTrees: labels_ is a function from labels to labels, next_free_ the size. *)

PathToRoot(t, i) ==
  LET path[k \in DOMAIN t] == IF t[k] < k THEN {k} \cup path[t[k]] ELSE {k} IN path[i]
findRoot(t, i) == Min(PathToRoot(t, i))
setRoot(t, i, root) == [k \in DOMAIN t |-> IF k \in PathToRoot(t, i) THEN root ELSE t[k]]
unionTrees(t, i, j) ==
  LET root == Least(findRoot(t, i), findRoot(t, j)) IN
  [root |-> root, trees |-> setRoot(setRoot(t, j, root), i, root)]
getLabels(t) ==
  LET n == Cardinality(DOMAIN t) - 1
      flat[i \in 0 .. n] ==
        IF i = 0 THEN [map |-> [k \in {0} |-> 0], k |-> 1]
        ELSE LET last == flat[i - 1] IN
             IF t[i] < i
             THEN [map |-> [k \in 0 .. i |-> IF k < i THEN last.map[k] ELSE last.map[t[i]]], k |-> last.k]
             ELSE [map |-> [k \in 0 .. i |-> IF k < i THEN last.map[k] ELSE last.k], k |-> last.k + 1] IN
  flat[n]

\* maxLabels, with the label 0.
maxLabels(shape, way) == ((shape[1] * shape[2]) \div (IF way = 4 THEN 2 ELSE 3)) + 2

\* ProcessPixel::pass for one pixel, with the labels above it (a, b, c) and before it (d).
Pass(s, image, p, way, unknownIsObstacle, limit) ==
  LET up == p[1] - 1
      a == <<up, p[2] - 1>>
      b == <<up, p[2]>>
      c == <<up, p[2] + 1>>
      d == <<p[1], p[2] - 1>>
      fg(q) == ~isBackground(At(image, q), unknownIsObstacle)
      take(l) == [s EXCEPT !.label[p] = l]
      join(x, y) == LET u == unionTrees(s.trees, s.label[x], s.label[y]) IN
                    [s EXCEPT !.label[p] = u.root, !.trees = u.trees]
      n == Cardinality(DOMAIN s.trees)
      makeLabel == IF n = limit THEN [s EXCEPT !.overflow = TRUE]
                   ELSE [s EXCEPT !.label[p] = n, !.trees = [k \in 0 .. n |-> IF k < n THEN s.trees[k] ELSE n]] IN
  IF s.overflow \/ ~fg(p) THEN s
  ELSE IF fg(b) THEN IF way = 4 /\ fg(d) THEN join(d, b) ELSE take(s.label[b])
  ELSE IF way = 8 /\ fg(c) THEN IF fg(a) THEN join(c, a) ELSE IF fg(d) THEN join(c, d) ELSE take(s.label[c])
  ELSE IF way = 8 /\ fg(a) THEN take(s.label[a])
  ELSE IF fg(d) THEN take(s.label[d]) ELSE makeLabel

\* connectedComponentsImpl: the passes in row order.
connectedComponents(shape, image, way, unknownIsObstacle) ==
  LET start == [label |-> [p \in DOMAIN image |-> 0], trees |-> [k \in {0} |-> 0], overflow |-> FALSE]
      pixel(k) == <<((k - 1) \div shape[2]) + 1, ((k - 1) % shape[2]) + 1>>
      scan[k \in 0 .. shape[1] * shape[2]] ==
        IF k = 0 THEN start
        ELSE Pass(scan[k - 1], image, pixel(k), way, unknownIsObstacle, maxLabels(shape, way)) IN
  scan[shape[1] * shape[2]]

\* removeGroupsImpl: the histogram of the labels, counting up to the bound.  A label overflow is
\* thrown again for the wider label type, and caught by updateCosts, which leaves the image.
removeGroups(shape, image, way, size, unknownIsObstacle) ==
  LET s == connectedComponents(shape, image, way, unknownIsObstacle)
      labels == getLabels(s.trees).map
      final == [p \in DOMAIN image |-> labels[s.label[p]]]
      bin(l) == IF l = 0 THEN 0 ELSE Least(Cardinality({p \in DOMAIN image : final[p] = l}), size + 1) IN
  IF s.overflow THEN image
  ELSE [p \in DOMAIN image |->
          IF ~isBackground(image[p], unknownIsObstacle) /\ bin(final[p]) < size THEN 0 ELSE image[p]]

denoise(c) ==
  IF c.size <= 1 THEN c.image
  ELSE IF c.size = 2 THEN removeSinglePixels(c.image, c.way, c.unknown)
  ELSE removeGroups(c.shape, c.image, c.way, c.size, c.unknown)

-----------------------------------------------------------------------------
DenoiseInit ==
  /\ part = "denoise"
  /\ \E shape \in DenoiseShapes, way \in {4, 8}, size \in 1 .. 3, unknown \in BOOLEAN :
       \E image \in [Pixels(shape) -> DenoiseCosts \cup (IF shape[1] * shape[2] < 5 THEN {255, 100} ELSE {})] :
         st = Called([shape |-> shape, way |-> way, size |-> size, unknown |-> unknown, image |-> image])
DenoiseNext == Returns("denoise", denoise(st.in))

-----------------------------------------------------------------------------
\* The pixels of p's group, by flooding.
GroupOf(image, p, way, unknownIsObstacle) ==
  LET fg == {q \in DOMAIN image : ~isBackground(image[q], unknownIsObstacle)}
      flood[k \in 0 .. Cardinality(fg)] ==
        IF k = 0 THEN {p}
        ELSE LET g == flood[k - 1] IN g \cup {q \in fg : \E r \in g : Touching(q, r, way)} IN
  flood[Cardinality(fg)]
Overflows(c) == c.size > 2 /\ connectedComponents(c.shape, c.image, c.way, c.unknown).overflow

\* Exactly the pixels of the groups smaller than minimal_group_size become free, by whichever
\* of the two methods.  maxLabels is too small for an image of one row or one column with
\* 8 neighbours: there the layer may leave every group.
DenoiseExact ==
  Done("denoise") =>
    LET c == st.in IN
    \/ /\ Overflows(c)
       /\ c.way = 8 /\ 1 \in {c.shape[1], c.shape[2]}
       /\ st.out = c.image
    \/ st.out = [p \in DOMAIN c.image |->
          IF /\ ~isBackground(c.image[p], c.unknown)
             /\ Cardinality(GroupOf(c.image, p, c.way, c.unknown)) < c.size
          THEN 0 ELSE c.image[p]]

\* denoise/image_processing.hpp:482, maxLabels "Defines the upper bound for the number of labels".
\* It does not hold: README, Disagreements.
LabelsSuffice == Done("denoise") => ~Overflows(st.in)

-----------------------------------------------------------------------------
(***************************************************************************)
(* InflationLayer::updateCosts over a square map: the wave of cells that   *)
(* leaves the lethal cells, bin after bin of equal distance, each cell     *)
(* with the obstacle it came from, and what becomes of the cost a cell has *)
(* already.  Distances are squares, as in generateIntegerDistances.        *)
(***************************************************************************)

CONSTANTS
  InfSize,      \* cells along each side
  InfRadius,    \* cell_inflation_radius_
  InfFixed,     \* lethal cells, beside which there are up to two more
  InfWindows,   \* update windows: <<min_i, min_j, max_i, max_j>>
  InfUnknown    \* cells of which nothing is known, in the map that has some

InfCells == (0 .. InfSize - 1) \X (0 .. InfSize - 1)
Sq(a, b) == (a[1] - b[1]) * (a[1] - b[1]) + (a[2] - b[2]) * (a[2] - b[2])
InWindow(c, w, r) ==
  c[1] >= w[1] - r /\ c[2] >= w[2] - r /\ c[1] < w[3] + r /\ c[2] < w[4] + r

\* computeCost of a squared distance.  The inscribed radius is one cell; beyond it the
\* cost falls, here by a straight line, and is cut off to FREE_SPACE at the radius.
INSCRIBED == 253
computeCost(d) ==
  IF d = 0 THEN LETHAL ELSE IF d <= 1 THEN INSCRIBED ELSE 20 * (InfRadius * InfRadius - d)

\* The cost a cell gets: the greater one, but an unknown cell stays unknown unless the cost
\* is high enough.
Merged(old, cost, inflate_unknown) ==
  IF old = UNKNOWN_COST /\ cost >= IF inflate_unknown THEN 1 ELSE INSCRIBED
  THEN cost ELSE Max({old, cost})

\* The four neighbours, in the order of the enqueue calls.
InfNeighbours(c) ==
  SelectSeq(<<<<c[1] - 1, c[2]>>, <<c[1], c[2] - 1>>, <<c[1] + 1, c[2]>>, <<c[1], c[2] + 1>>>>,
            LAMBDA n : n \in InfCells)

\* enqueue: into the bin of the distance to the source, unless seen or out of the radius.
enqueue(s, n, src) ==
  IF n \in s.seen \/ Sq(n, src) > InfRadius * InfRadius THEN s
  ELSE [s EXCEPT !.bins[Sq(n, src)] = Append(@, <<n, src>>)]

\* The cell of the wave is seen; inside the window its cost is merged.
InfVisited(s, cell, src) ==
  [s EXCEPT !.seen = @ \cup {cell},
            !.grid[cell] = IF InWindow(cell, s.window, 0)
                           THEN Merged(@, computeCost(Sq(cell, src)), s.inflate_unknown) ELSE @]

\* The loop over a bin, which may grow meanwhile, and over the bins.
RECURSIVE Wave(_, _, _)
Wave(s, d, i) ==
  IF d > InfRadius * InfRadius THEN s.grid
  ELSE IF i > Len(s.bins[d]) THEN Wave(s, d + 1, 1)
  ELSE LET cell == s.bins[d][i][1]
           src == s.bins[d][i][2] IN
       IF cell \in s.seen THEN Wave(s, d, i + 1)
       ELSE Wave(FoldLeft(LAMBDA t, n : enqueue(t, n, src), InfVisited(s, cell, src),
                          InfNeighbours(cell)), d, i + 1)

\* What the wave starts from.
InfSource(c, cell) ==
  c.grid[cell] = LETHAL \/ (c.inflate_around_unknown /\ c.grid[cell] = UNKNOWN_COST)

\* The sources of the window grown by margin start the wave.
InflatedFrom(c, margin) ==
  LET seeds == SetToSeq({cell \in InfCells : InfSource(c, cell) /\ InWindow(cell, c.window, margin)})
      bins == [d \in 0 .. InfRadius * InfRadius |->
                 IF d = 0 THEN [k \in DOMAIN seeds |-> <<seeds[k], seeds[k]>>] ELSE <<>>] IN
  Wave([bins |-> bins, seen |-> {}, grid |-> c.grid, window |-> c.window,
        inflate_unknown |-> c.inflate_unknown], 0, 1)

\* Mistake: obstacles outside the window are not looked at.
inflateCellsTight(c) == InflatedFrom(c, 0)
inflateCells(c) == InflatedFrom(c, InfRadius)

\* Obstacles on a free map; and one of them on a map that has unknown cells and a cost of
\* another layer, with both parameters.
InfMap(lethal, unknown) ==
  [c \in InfCells |-> IF c \in lethal THEN LETHAL ELSE IF c \in unknown THEN UNKNOWN_COST
                      ELSE IF unknown # {} /\ c[1] = c[2] THEN 70 ELSE 0]
InflationInit ==
  /\ part = "inflateCells"
  /\ \E fixed \in SUBSET InfFixed, a, b \in InfCells, w \in InfWindows, u, around \in BOOLEAN :
       \E g \in {InfMap(fixed, InfUnknown), InfMap({a} \cup fixed, InfUnknown)}
                \cup (IF u \/ around THEN {} ELSE {InfMap({}, {}), InfMap({a, b} \cup fixed, {})}) :
         st = Called([grid |-> g, window |-> w, inflate_unknown |-> u,
                      inflate_around_unknown |-> around])
InflationNext == Returns("inflateCells", inflateCells(st.in))

-----------------------------------------------------------------------------
\* Inside the window the cost of a cell is raised exactly when a source, inside or outside
\* the window, is within the radius, to the cost of a source less than a cell farther than
\* the nearest one.  (It need not be the nearest: a neighbour seen first for another obstacle
\* stops the wave of the nearest one.)  The sources are the lethal cells and, with
\* inflate_around_unknown, the unknown ones.  No known cost is lowered; an unknown cell stays
\* unknown unless the robot would touch the source or, with inflate_unknown, it costs anything.
InflationIsNearest ==
  Done("inflateCells") =>
    \A c \in InfCells :
      LET near == {Sq(c, o) : o \in {x \in InfCells : InfSource(st.in, x) /\ Sq(c, x) <= InfRadius * InfRadius}}
          excess(d) == d - Min(near) - 1
          costs == {computeCost(d) : d \in {d \in near : excess(d) <= 0 \/ excess(d) * excess(d) < 4 * Min(near)}}
          old == st.in.grid[c] IN
      IF near = {} \/ ~InWindow(c, st.in.window, 0) THEN st.out[c] = old
      ELSE \/ st.out[c] \in costs /\ old # UNKNOWN_COST /\ st.out[c] >= old
           \/ st.out[c] = old /\ \E k \in costs : k <= old /\ old # UNKNOWN_COST
           \/ /\ old = UNKNOWN_COST /\ st.out[c] \in costs
              /\ st.out[c] >= INSCRIBED \/ (st.in.inflate_unknown /\ st.out[c] > 0)
           \/ /\ old = UNKNOWN_COST /\ st.out[c] = UNKNOWN_COST
              /\ \E k \in costs : k < INSCRIBED /\ (st.in.inflate_unknown => k = 0)

-----------------------------------------------------------------------------
(***************************************************************************)
(* The Python costmap of nav2_simple_commander (PyCostmap2D, LineIterator, *)
(* FootprintCollisionChecker) and the laser of the loopback simulator,     *)
(* which walks the same lines.  World coordinates are in half cells, the   *)
(* origin of the map is 0; a line is walked in steps of half a cell.       *)
(***************************************************************************)

CONSTANTS
  PySize,    \* cells along each side of the map
  PyReach    \* cells a beam of the laser reaches

PyCells == (0 .. PySize - 1) \X (0 .. PySize - 1)
PyNone == <<-1, -1>>
PyLethal == 254

-----------------------------------------------------------------------------
\* PyCostmap2D: index, cost, and the conversions (for half cells).
getIndex(mx, my) == my * PySize + mx
getCostXY(costs, c) == costs[getIndex(c[1], c[2])]
pyMapToWorld(c) == <<2 * c[1] + 1, 2 * c[2] + 1>>
worldToMapValidated(w) ==
  IF w[1] < 0 \/ w[2] < 0 THEN PyNone
  ELSE LET m == <<w[1] \div 2, w[2] \div 2>> IN
       IF m[1] < PySize /\ m[2] < PySize THEN m ELSE PyNone

\* LineIterator: what getX() and getY() give, converted to int, from the first point until advance()
\* ends the line.  It steps along x, however steep the line, and along y only when x is constant; a
\* line of no length raises an error.
PyLine(a, b) ==
  LET dx == b[1] - a[1]
      dy == b[2] - a[2]
      n == 2 * IF dx # 0 THEN Abs(dx) ELSE Abs(dy) IN
  [i \in 1 .. n + 1 |->
     <<IF dx = 0 THEN a[1] ELSE Truncated(2 * a[1] + Sign(dx) * (i - 1), 2),
       Truncated(a[2] * n + dy * (i - 1), n)>>]

\* lineCost: the first lethal point ends it; else the largest cost.
pyLineCost(costs, a, b) ==
  LET seen == {getCostXY(costs, c) : c \in ToSet(PyLine(a, b))} IN
  IF PyLethal \in seen THEN PyLethal ELSE CHOOSE c \in seen : \A d \in seen : d <= c
\* footprintCost: edge after edge, a vertex off the map or a lethal edge ends it; the closing edge
\* is last.
pyFootprintCost(costs, points) ==
  LET p == [i \in DOMAIN points |-> worldToMapValidated(points[i])]
      cost[i \in DOMAIN p] ==
        IF i = 1 THEN IF p[1] = PyNone THEN PyLethal ELSE 0
        ELSE IF cost[i - 1] = PyLethal \/ p[i] = PyNone THEN PyLethal
        ELSE Greatest(pyLineCost(costs, p[i - 1], p[i]), cost[i - 1])
      open == cost[Len(p)] IN
  IF open = PyLethal THEN PyLethal ELSE Greatest(pyLineCost(costs, p[1], p[Len(p)]), open)
\* footprintCostAtPose: the points are turned (by quarters) and moved first.
footprintCostAtPose(costs, pose, points) ==
  LET turned(p) == CASE pose[3] = 0 -> p [] pose[3] = 1 -> <<-p[2], p[1]>>
                     [] pose[3] = 2 -> <<-p[1], -p[2]>> [] OTHER -> <<p[2], -p[1]>> IN
  pyFootprintCost(costs, [i \in DOMAIN points |->
    <<pose[1] + turned(points[i])[1], pose[2] + turned(points[i])[2]>>])

\* getLaserScan, one beam from the cell at (walls are the cells of occupancy 60 and more): the cell
\* whose distance is reported, PyNone when the walk leaves the map, whose first row and column do
\* not count, or ends.
getLaserScan(walls, at, to) ==
  LET inside(c) == 0 < c[1] /\ c[1] < PySize /\ 0 < c[2] /\ c[2] < PySize
      line == PyLine(at, to)
      stop == SelectInSeq(line, LAMBDA c : ~inside(c) \/ c \in walls) IN
  IF ~inside(at) \/ stop = 0 THEN PyNone ELSE IF inside(line[stop]) THEN line[stop] ELSE PyNone

-----------------------------------------------------------------------------
PyRectangles ==
  {<<<<-1, -1>>, <<2, -1>>, <<2, 1>>, <<-1, 1>>>>, <<<<-2, -1>>, <<3, 0>>, <<0, 2>>>>, <<<<-3, -2>>, <<3, 0>>, <<0, 3>>>>}
PyPoses == {<<x, y, q>> : x \in 2 .. 2 * PySize - 3, y \in 2 .. 2 * PySize - 3, q \in 0 .. 3}
PyCostmaps ==
  {[i \in 0 .. PySize * PySize - 1 |-> IF i = k THEN c ELSE IF i = 0 THEN 7 ELSE 1] :
     k \in 0 .. PySize * PySize - 1, c \in {100, PyLethal}}
PyEdges(in) ==
  LET p == [i \in DOMAIN in[3] |->
              LET t == in[3][i] IN
              worldToMapValidated(<<in[2][1] + t[1], in[2][2] + t[2]>>)] IN
  {<<p[i], p[IF i = Len(p) THEN 1 ELSE i + 1]>> : i \in DOMAIN p}
PyHasEdges(in) == \A e \in PyEdges(in) : e[1] # e[2] \/ PyNone \in {e[1], e[2]}

PyCostmapInit ==
  \/ Call("pyLine", {<<a, b>> : a \in PyCells, b \in PyCells} \ {<<a, a>> : a \in PyCells})
  \/ Call("pyFootprint", {in \in PyCostmaps \X {p \in PyPoses : p[3] = 0} \X PyRectangles : PyHasEdges(in)})
  \/ Call("pyTurned", {<<c, p, r>> : c \in {d \in PyCostmaps : d[3] = 1 /\ d[5] # 1},
                                     p \in PyPoses, r \in {<<<<-2, -1>>, <<2, -1>>, <<2, 1>>, <<-2, 1>>>>}})
  \/ Call("pyScan", {<<w, a, d>> : w \in {{}} \cup {{x, y} : x \in PyCells, y \in {<<2, 2>>, <<3, 1>>}},
                                   a \in PyCells,
                                   d \in {<<1, 0>>, <<-1, 0>>, <<0, 1>>, <<0, -1>>, <<1, 1>>}})
PyBeam(in) == <<in[2][1] + PyReach * in[3][1], in[2][2] + PyReach * in[3][2]>>
PyCostmapNext ==
  \/ In({"pyLine"}, "call") /\ Returns("pyLine", PyLine(st.in[1], st.in[2]))
  \/ In({"pyFootprint"}, "call") /\ Returns("pyFootprint", footprintCostAtPose(st.in[1], st.in[2], st.in[3]))
  \/ In({"pyTurned"}, "call") /\ Returns("pyTurned", footprintCostAtPose(st.in[1], st.in[2], st.in[3]))
  \/ In({"pyScan"}, "call") /\ Returns("pyScan", getLaserScan(st.in[1], st.in[2], PyBeam(st.in)))

-----------------------------------------------------------------------------
\* The points of a line that is not steep: one cell or more of every column between its ends, each
\* crossed by the line, and both ends.
PyLinesAreLines ==
  Done("pyLine") =>
    LET a == st.in[1]
        b == st.in[2]
        dx == b[1] - a[1]
        dy == b[2] - a[2] IN
    /\ a = st.out[1] /\ b = st.out[Len(st.out)]
    /\ Abs(dy) <= Abs(dx) => \A i \in 2 .. Len(st.out) :
         \A k \in 1 .. 2 : Abs(st.out[i][k] - st.out[i - 1][k]) <= 1
    /\ \A i \in DOMAIN st.out :
         LET c == st.out[i] IN \* the doubled area to the line's ends is less than a cell's reach
         Abs(dx * (c[2] - a[2]) - dy * (c[1] - a[1])) <= Abs(dx) + Abs(dy)
\* "Iterate over all the points along a line and check for collision": no row is jumped over.
\* It does not hold: README, Disagreements.
PyLineIsGapless ==
  Done("pyLine") =>
    \A i \in 2 .. Len(st.out) : \A k \in 1 .. 2 : Abs(st.out[i][k] - st.out[i - 1][k]) <= 1
\* The centre of a cell lies in the cell.  A footprint is reported lethal exactly if a vertex is off the map or a lethal point lies on one of
\* its edges, and else costs what its dearest point costs; turning the footprint by a half turn
\* leaves a symmetric one where it was.
PyFootprintIsDearest ==
  /\ \A c \in PyCells : worldToMapValidated(pyMapToWorld(c)) = c
  /\ Done("pyFootprint") =>
       LET edges == PyEdges(st.in)
           off == \E e \in edges : PyNone \in {e[1], e[2]}
           points == UNION {ToSet(PyLine(e[1], e[2])) : e \in edges} IN
       IF off THEN st.out = PyLethal
       ELSE /\ \E c \in points : st.in[1][c[2] * PySize + c[1]] = st.out
            /\ \A c \in points : st.in[1][c[2] * PySize + c[1]] <= st.out
  /\ Done("pyTurned") =>
       st.out = footprintCostAtPose(st.in[1], [st.in[2] EXCEPT ![3] = (@ + 2) % 4], st.in[3])
\* A beam along a row, a column or a diagonal reports the nearest wall before the edge of the map.
ScanIsNearest ==
  Done("pyScan") =>
    LET in == st.in
        at(k) == <<in[2][1] + k * in[3][1], in[2][2] + k * in[3][2]>>
        free(c) == c[1] \in 1 .. PySize - 1 /\ c[2] \in 1 .. PySize - 1
        hits == {k \in 0 .. PyReach : at(k) \in in[1] /\ \A j \in 0 .. k : free(at(j))} IN
    st.out = IF hits = {} THEN PyNone ELSE at(CHOOSE k \in hits : \A j \in hits : k <= j)
=============================================================================
