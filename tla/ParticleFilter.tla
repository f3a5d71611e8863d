---------------------------- MODULE ParticleFilter ----------------------------
(***************************************************************************)
(* The algorithms inside amcl: the kd-tree of the particle filter with its *)
(* clusters, resampling, the motion models, the map with its obstacle      *)
(* distances, ray casting, and the choice of beams.  Lengths are cells,    *)
(* angles are quarter turns, weights are integers; noise is left out of    *)
(* the motion models (their alphas are 0).                                 *)
(***************************************************************************)
EXTENDS Component

CONSTANTS
  PfKeys,      \* keys of the samples put into a tree
  PfSamples,   \* bound: samples in a tree
  PfMap,       \* bound: side of a map
  PfBeams      \* bound: ranges of a scan

ASSUME ParticleFilterAssumption ==
  PfKeys \subseteq Int \X Int \X Int /\ {PfSamples, PfMap, PfBeams} \subseteq Nat

-----------------------------------------------------------------------------
(* pf_kdtree: a node is a leaf with its key, or splits one dimension at half  *)
(* of pivot.                                                                  *)
Leaf(key, value) == [leaf |-> TRUE, key |-> key, value |-> value]
Empty == [leaf |-> TRUE, key |-> <<>>, value |-> 0]
Below(node, key) == 2 * key[node.dim] < node.pivot

\* The first dimension in which the keys differ most.
PivotDim(a, b) ==
  CHOOSE i \in 1 .. 3 :
    /\ \A j \in 1 .. 3 : Abs(a[j] - b[j]) <= Abs(a[i] - b[i])
    /\ \A j \in 1 .. i - 1 : Abs(a[j] - b[j]) < Abs(a[i] - b[i])

RECURSIVE pf_kdtree_insert_node(_, _, _)
pf_kdtree_insert_node(node, key, value) ==
  IF node = Empty THEN Leaf(key, value)
  ELSE IF node.leaf /\ node.key = key THEN [node EXCEPT !.value = @ + value]
  ELSE IF node.leaf THEN
    LET dim == PivotDim(key, node.key)
        split == [leaf |-> FALSE, dim |-> dim, pivot |-> key[dim] + node.key[dim]] IN
    [leaf |-> FALSE, dim |-> dim, pivot |-> split.pivot,
     kids |-> IF Below(split, key) THEN <<Leaf(key, value), node>> ELSE <<node, Leaf(key, value)>>]
  ELSE LET i == IF Below(node, key) THEN 1 ELSE 2 IN
       [node EXCEPT !.kids[i] = pf_kdtree_insert_node(@, key, value)]

RECURSIVE pf_kdtree_find_node(_, _)
pf_kdtree_find_node(node, key) ==
  IF node.leaf THEN IF node.key = key THEN node ELSE Empty
  ELSE pf_kdtree_find_node(node.kids[IF Below(node, key) THEN 1 ELSE 2], key)

RECURSIVE Leaves(_)
Leaves(node) == IF node.leaf THEN {node} \ {Empty} ELSE Leaves(node.kids[1]) \cup Leaves(node.kids[2])

RECURSIVE pf_kdtree_insert(_)
pf_kdtree_insert(samples) ==
  IF samples = <<>> THEN Empty
  ELSE LET n == Len(samples) IN
       pf_kdtree_insert_node(pf_kdtree_insert(SubSeq(samples, 1, n - 1)), samples[n].key, samples[n].weight)

\* pf_kdtree_cluster_node: the label spreads over the 27 cells around each leaf found.
Around27(key) == {<<key[1] + a, key[2] + b, key[3] + c>> : a, b, c \in -1 .. 1}
RECURSIVE pf_kdtree_cluster_node(_, _)
pf_kdtree_cluster_node(tree, keys) ==
  LET found == {k \in UNION {Around27(key) : key \in keys} : pf_kdtree_find_node(tree, k) # Empty} IN
  IF found \subseteq keys THEN keys ELSE pf_kdtree_cluster_node(tree, keys \cup found)
\* pf_kdtree_cluster: the leaves without a label, one after the other.
pf_kdtree_cluster(tree) == {pf_kdtree_cluster_node(tree, {leaf.key}) : leaf \in Leaves(tree)}

\* pf_cluster_stats and getMaxWeightHyp: the weight of each cluster, and the first with
\* the most; no cluster with a weight is a failure.
pf_cluster_stats(tree) ==
  LET Weight[S \in SUBSET Leaves(tree)] ==
        IF S = {} THEN 0 ELSE LET l == CHOOSE l \in S : TRUE IN l.value + Weight[S \ {l}] IN
  [c \in pf_kdtree_cluster(tree) |-> Weight[{l \in Leaves(tree) : l.key \in c}]]
getMaxWeightHyp(stats) ==
  {c \in DOMAIN stats : stats[c] > 0 /\ \A d \in DOMAIN stats : stats[d] <= stats[c]}

PfTree(in) == LET tree == pf_kdtree_insert(in) IN
  [found |-> {k \in PfKeys : pf_kdtree_find_node(tree, k) # Empty},
   clusters |-> pf_kdtree_cluster(tree), best |-> getMaxWeightHyp(pf_cluster_stats(tree))]

-----------------------------------------------------------------------------
(* pf_resample_limit: raw[k] is the Wilson-Hilferty bound for k leaves.        *)
pf_resample_limit(in, k) ==
  IF k <= 1 \/ in.raw[k] > in.max THEN in.max
  ELSE IF in.raw[k] < in.min THEN in.min ELSE in.raw[k]

\* pf_update_sensor: the running averages of the likelihood, by alphas in tenths; avg 0 stands for a total of
\* zero, which leaves them.
pf_update_sensor(w, alpha, avg) ==
  IF avg = 0 THEN w
  ELSE [a \in {"slow", "fast"} |-> IF w[a] = 0 THEN avg ELSE w[a] + ((alpha[a] * (avg - w[a])) \div 10)]
\* w_diff > 0: each sample may become a random pose.  Both averages zero make w_diff a NaN, which is not above 0.
MayInject(w) == w.fast < w.slow

\* pf_update_resample: draws r until the limit for the leaves so far is passed; a draw below zero falls under
\* w_diff and takes the random pose -r.
Drawn(weights, r) ==
  LET C[i \in 0 .. Len(weights)] == IF i = 0 THEN 0 ELSE C[i - 1] + weights[i] IN
  CHOOSE i \in 1 .. Len(weights) : C[i - 1] <= r /\ r < C[i]
RECURSIVE ResampleFrom(_, _)
ResampleFrom(in, taken) ==
  LET r == in.draws[Len(taken) + 1]
      b == Append(taken, IF r < 0 THEN -r ELSE Drawn(in.weights, r))
      leaves == Cardinality({b[i] : i \in DOMAIN b}) IN
  IF Len(b) = in.max \/ Len(b) > pf_resample_limit(in, leaves) THEN b ELSE ResampleFrom(in, b)
pf_update_resample(in) ==
  [samples |-> ResampleFrom(in, <<>>), w |-> IF MayInject(in.w) THEN [slow |-> 0, fast |-> 0] ELSE in.w]

-----------------------------------------------------------------------------
(* The motion models, for a displacement along one axis: angles in quarters.  *)
normalize(z) == LET m == z % 4 IN IF m > 2 THEN m - 4 ELSE m
angle_diff(a, b) ==
  LET d1 == normalize(a) - normalize(b)
      d2 == IF d1 > 0 THEN -(4 - Abs(d1)) ELSE 4 - Abs(d1) IN
  IF Abs(d1) < Abs(d2) THEN d1 ELSE d2
Cos(q) == <<1, 0, -1, 0>>[(q % 4) + 1]
Sin(q) == <<0, 1, 0, -1>>[(q % 4) + 1]
Atan2(y, x) == IF y = 0 THEN (IF x < 0 THEN 2 ELSE 0) ELSE Sign(y)
Distance(d) == Abs(d[1]) + Abs(d[2])

differentialUpdate(sample, pose, delta) ==
  LET old == pose[3] - delta[3]
      rot1 == IF Distance(delta) = 0 THEN 0 ELSE angle_diff(Atan2(delta[2], delta[1]), old)
      rot2 == angle_diff(delta[3], rot1) IN
  <<sample[1] + Distance(delta) * Cos(sample[3] + rot1),
    sample[2] + Distance(delta) * Sin(sample[3] + rot1), sample[3] + rot1 + rot2>>
omniUpdate(sample, pose, delta) ==
  LET bearing == angle_diff(Atan2(delta[2], delta[1]), pose[3] - delta[3]) + sample[3] IN
  <<sample[1] + Distance(delta) * Cos(bearing), sample[2] + Distance(delta) * Sin(bearing),
    sample[3] + delta[3]>>

\* shouldUpdateFilter gives the displacement since the last update.
MotionIn ==
  {[model |-> m, from |-> from, sample |-> s, to |-> <<from[1] + d[1], from[2] + d[2], t>>] :
     m \in {"differential", "omni"}, from \in {0} \X {1} \X (-1 .. 2),
     s \in {<<0, 1>>, <<3, 0>>} \X (-1 .. 2), d \in {<<0, 0>>, <<2, 0>>, <<-1, 0>>, <<0, 1>>, <<0, -2>>},
     t \in -1 .. 2}
Motion(in) ==
  LET sample == <<in.sample[1][1], in.sample[1][2], in.sample[2]>>
      delta == <<in.to[1] - in.from[1], in.to[2] - in.from[2], angle_diff(in.to[3], in.from[3])>> IN
  IF in.model = "omni" THEN omniUpdate(sample, in.to, delta) ELSE differentialUpdate(sample, in.to, delta)

-----------------------------------------------------------------------------
(* The map: convertMap, the list of free cells, distances to obstacles, rays. *)
PfCells == (0 .. PfMap - 1) \X (0 .. PfMap - 1)
convertMap(data) == [c \in PfCells |-> IF data[c] = 0 THEN -1 ELSE IF data[c] = 100 THEN 1 ELSE 0]
createFreeSpaceVector(map, downsampling) ==
  {c \in PfCells : map[c] = -1 /\ (downsampling => c[1] % 2 = 0 /\ c[2] % 2 = 0)}

\* map_update_cspace: cells leave the queue by distance and hand their source on; a cell
\* is marked when it is entered, with the first source that reaches it.
PfSq(a, b) == ((a[1] - b[1]) * (a[1] - b[1])) + ((a[2] - b[2]) * (a[2] - b[2]))
enqueueCells(source, c, radius) ==
  {n \in PfCells : /\ PfSq(n, c) = 1 /\ n \notin DOMAIN source
                   /\ PfSq(n, source[c]) <= radius * radius}
RECURSIVE CspaceWave(_, _, _)
CspaceWave(source, queue, radius) ==
  IF queue = {} THEN source
  ELSE LET c == CHOOSE c \in queue : \A d \in queue : PfSq(c, source[c]) <= PfSq(d, source[d])
           new == enqueueCells(source, c, radius) IN
       CspaceWave([x \in DOMAIN source \cup new |-> IF x \in new THEN source[c] ELSE source[x]],
                  (queue \ {c}) \cup new, radius)
map_update_cspace(map, radius) ==
  LET occupied == {c \in PfCells : map[c] = 1} IN
  CspaceWave([c \in occupied |-> c], occupied, radius)

\* map_calc_range: the cells from the first to the one after the last; the ray ends in
\* the first that is outside the map or not free.
Ray_cells(a, b) ==
  LET steep == Abs(b[2] - a[2]) > Abs(b[1] - a[1])
      Flip(c) == IF steep THEN <<c[2], c[1]>> ELSE c
      p == Flip(a) q == Flip(b)
      dx == Abs(q[1] - p[1]) dy == Abs(q[2] - p[2])
      sx == IF p[1] < q[1] THEN 1 ELSE -1 sy == IF p[2] < q[2] THEN 1 ELSE -1
      Step[k \in 0 .. dx + 1] ==
        IF k = 0 THEN <<p[2], 0>>
        ELSE LET e == Step[k - 1][2] + dy IN
             IF 2 * e >= dx THEN <<Step[k - 1][1] + sy, e - dx>> ELSE <<Step[k - 1][1], e>> IN
  [k \in 1 .. dx + 2 |-> Flip(<<p[1] + sx * (k - 1), Step[k - 1][1]>>)]
map_calc_range(map, a, b) ==
  LET ray == Ray_cells(a, b)
      Blocked(k) == ray[k] \notin PfCells \/ map[ray[k]] > -1
      hits == {k \in DOMAIN ray : Blocked(k)} IN
  IF hits = {} THEN <<>> ELSE ray[CHOOSE k \in hits : \A h \in hits : k <= h]

PfMapIn == {[c \in PfCells |-> IF c \in S THEN 100 ELSE IF c \in U THEN 50 ELSE 0] :
              S \in {{}, {<<1, 2>>}, {<<3, 0>>, <<0, 3>>}, {<<2, 2>>, <<3, 3>>, <<0, 1>>}},
              U \in {{}, {<<1, 1>>}}}
PfMapOut(data) == LET map == convertMap(data) IN
  [free |-> [b \in BOOLEAN |-> createFreeSpaceVector(map, b)],
   source |-> [r \in 1 .. 3 |-> map_update_cspace(map, r)],
   ranges |-> [ab \in {<<0, 0>>, <<2, 1>>} \X PfCells |-> map_calc_range(map, ab[1], ab[2])]]

-----------------------------------------------------------------------------
(* The beams of a scan that a sensor model uses: every step-th range.  A step *)
(* of 0 never gets to the end.                                                *)
LikelihoodStep(n, beams) == Greatest(1, Truncated(n - 1, beams - 1))
ProbStep(n, beams) == Greatest(1, (n + beams - 1) \div beams)
BeamStep(n, beams) == Truncated(n - 1, beams - 1)
Every(n, step) == IF step = 0 THEN <<>> ELSE [i \in 1 .. ((n + step - 1) \div step) |-> (i - 1) * step]

\* The beams that more than threshold percent of the samples agree on; with too many
\* left out, all of them.
BeamSkip(counts, samples, threshold, error) ==
  LET kept == {b \in DOMAIN counts : counts[b] * 100 > threshold * samples}
      skipped == Cardinality(DOMAIN counts \ kept) IN
  IF skipped * 100 >= error * Cardinality(DOMAIN counts) THEN DOMAIN counts ELSE kept

-----------------------------------------------------------------------------
PfSampleSeqs == UNION {[1 .. n -> {[key |-> k, weight |-> 1] : k \in PfKeys}] : n \in 1 .. PfSamples}
\* The averages before a resampling: after no, a first, or a second sensor update of them.
Averages ==
  LET zero == [slow |-> 0, fast |-> 0] IN
  {pf_update_sensor(pf_update_sensor(zero, alpha, first), alpha, second) :
     alpha \in {zero, [slow |-> 1, fast |-> 5]}, first \in {0, 20}, second \in {0, 10, 30}}
ResampleIn ==
  [w : Averages, weights : {<<2, 0, 1>>, <<0, 0, 3>>, <<1, 1, 1>>}, min : 1 .. 2, max : 2 .. 3,
   raw : [1 .. 3 -> {1, 2, 5}], draws : [1 .. 3 -> {-5, -4, 0, 1, 2}]]
PfPossible(r) ==
  /\ r.min <= r.max /\ r.raw[1] = 1 /\ r.raw[2] <= r.raw[3]
  /\ MayInject(r.w) \/ \A i \in 1 .. 3 : r.draws[i] >= 0

ParticleFilterInit ==
  \/ Call("pf_tree", PfSampleSeqs)
  \/ Call("pf_resample", {r \in ResampleIn : PfPossible(r)})
  \/ Call("pf_motion", MotionIn)
  \/ Call("pf_map", PfMapIn)
  \/ Call("pf_beams", [n : 1 .. PfBeams, max : 2 .. PfBeams])
  \/ Call("pf_beamskip", [counts : [1 .. 3 -> 0 .. 3], threshold : {30, 60}, error : {50, 90}])

ParticleFilterNext ==
  \/ Returns("pf_tree", PfTree(st.in))
  \/ Returns("pf_resample", pf_update_resample(st.in))
  \/ Returns("pf_motion", Motion(st.in))
  \/ Returns("pf_map", PfMapOut(st.in))
  \/ Returns("pf_beams", [likelihood |-> Every(st.in.n, LikelihoodStep(st.in.n, st.in.max)),
                          prob |-> Every(st.in.n, ProbStep(st.in.n, st.in.max)),
                          beam |-> Every(st.in.n, BeamStep(st.in.n, st.in.max))])
  \/ Returns("pf_beamskip", BeamSkip(st.in.counts, 3, st.in.threshold, st.in.error))

-----------------------------------------------------------------------------
\* Every key that was inserted is found again and no other, and two samples share a
\* cluster exactly when a chain of neighbouring cells joins them.
TreeIsSet ==
  Done("pf_tree") =>
    LET keys == {st.in[i].key : i \in DOMAIN st.in}
        Near(a, b) == \A i \in 1 .. 3 : Abs(a[i] - b[i]) <= 1 IN
    /\ st.out.found = keys
    /\ UNION st.out.clusters = keys
    /\ \A c, d \in st.out.clusters : c # d => c \cap d = {} /\ \A a \in c, b \in d : ~Near(a, b)
    /\ \A c \in st.out.clusters : \A S \in SUBSET c :
         S # {} /\ S # c => \E a \in S, b \in c \ S : Near(a, b)
    /\ st.out.best # {}

\* A resampled particle had a weight, unless it is a random pose put in while the likelihood falls (w_fast
\* below w_slow), and those are not put in again by the next resampling, whatever the sensor says before it;
\* the number of particles passes the minimum, unless the filter is full, and never the maximum.
ResampleIsSound ==
  Done("pf_resample") =>
    LET set == st.out.samples
        injected == {i \in DOMAIN set : st.in.draws[i] < 0} IN
    /\ \A i \in DOMAIN set \ injected : st.in.weights[set[i]] > 0
    /\ injected # {} =>
         \A avg \in {0, 10, 30} : ~MayInject(pf_update_sensor(st.out.w, [slow |-> 1, fast |-> 5], avg))
    /\ Len(set) <= st.in.max /\ (Len(set) > st.in.min \/ Len(set) = st.in.max)

\* Without noise a particle moves relative to itself as the robot moved relative to
\* itself: a particle that was where the odometry was is where the odometry is.
MotionIsOdometry ==
  Done("pf_motion") =>
    LET Turned(x, y, q) == <<(x * Cos(q)) - (y * Sin(q)), (x * Sin(q)) + (y * Cos(q))>>
        turn == st.in.sample[2] - st.in.from[3]
        move == Turned(st.in.to[1] - st.in.from[1], st.in.to[2] - st.in.from[2], turn) IN
    /\ <<st.out[1], st.out[2]>> = <<st.in.sample[1][1] + move[1], st.in.sample[1][2] + move[2]>>
    /\ (st.out[3] - st.in.sample[2] - st.in.to[3] + st.in.from[3]) % 4 = 0

\* Only free cells are drawn from; a cell within the radius of an obstacle has a distance,
\* less than a cell above the true one; a ray passes free cells only.
MapIsSound ==
  Done("pf_map") =>
    LET occ == {c \in PfCells : st.in[c] = 100} IN
    /\ \A b \in BOOLEAN : \A c \in st.out.free[b] : st.in[c] = 0
    /\ \A r \in 1 .. 3, c \in PfCells :
         LET near == {o \in occ : PfSq(c, o) <= r * r}
             s == st.out.source[r] IN
         /\ c \in DOMAIN s => s[c] \in near
         /\ near # {} => c \in DOMAIN s
         /\ \A o \in near : PfSq(c, s[c]) <= PfSq(c, o) + (2 * r)
    /\ \A ab \in DOMAIN st.out.ranges :
         LET hit == st.out.ranges[ab] IN
         hit # <<>> => /\ hit \notin PfCells \/ st.in[hit] # 0
                       /\ hit \in {Ray_cells(ab[1], ab[2])[k] : k \in DOMAIN Ray_cells(ab[1], ab[2])}

\* The likelihood models get through the scan, the second within its max_beams_ counters,
\* and a skipped beam is one that too few samples agree on.
BeamsAreInScan ==
  /\ Done("pf_beams") =>
       /\ Len(st.out.likelihood) > 0 /\ Len(st.out.prob) \in 1 .. st.in.max
       /\ \A s \in {st.out.likelihood, st.out.prob, st.out.beam} :
            \A i \in DOMAIN s : s[i] < st.in.n
  /\ Done("pf_beamskip") =>
       \A b \in 1 .. 3 : b \notin st.out => st.in.counts[b] * 100 <= st.in.threshold * 3
=============================================================================
