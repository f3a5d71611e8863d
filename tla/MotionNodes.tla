---------------------------- MODULE MotionNodes -----------------------------
(***************************************************************************)
(* The nodes and libraries between a command and the wheels: the velocity  *)
(* smoother, the collision monitor, the dock side of the docking server    *)
(* (dock plugins, database, controller) and the simulated robot.           *)
(***************************************************************************)
EXTENDS Component, Integers, FiniteSets, Sequences

-----------------------------------------------------------------------------
(***************************************************************************)
(* nav2_velocity_smoother: one axis of the commanded velocity, in units of *)
(* what one period of the timer may change.                                *)
(*                                                                         *)
(*   at       lifecycle state of the node                                  *)
(*   command  command_ (NoCommand: null), age  time since it came          *)
(*   last     last_cmd_, stopped  stopped_, open_loop  open_loop_          *)
(*   max      max_velocities_                                              *)
(*   out      the velocity published last (NoCommand: none)                *)
(***************************************************************************)

CONSTANTS
  VsMax,      \* bound: largest speed
  VsAccel, VsDecel,  \* change per period
  VsDeadband,
  VsTimeout   \* velocity_timeout_ in periods

ASSUME VelocitySmootherAssumption ==
  /\ {VsMax, VsAccel, VsDecel, VsTimeout, VsDeadband} \subseteq Nat
  /\ VsDecel > 0

VelocitySmoothers == {"velocity_smoother"}
NoCommand == VsMax + 10
Speeds == -VsMax .. VsMax

Magnitude(v) == IF v < 0 THEN -v ELSE v
Clamp(v, lo, hi) == IF v < lo THEN lo ELSE IF v > hi THEN hi ELSE v

-----------------------------------------------------------------------------
\* What one period may change: acceleration away from zero, deceleration otherwise.
ComponentMax(curr, cmd, accel, decel) ==
  IF Magnitude(cmd) >= Magnitude(curr) /\ curr * cmd >= 0 THEN accel ELSE decel

\* findEtaConstraint: the factor as a fraction, NoEta where the change is small enough.
NoEta == <<-1, 1>>
findEtaConstraint(curr, cmd, accel, decel) ==
  LET dv == cmd - curr
      c == ComponentMax(curr, cmd, accel, decel) IN
  IF Magnitude(dv) > c THEN <<c, Magnitude(dv)>> ELSE NoEta

\* applyConstraints, times the denominator of eta.
applyConstraints(curr, cmd, accel, decel, eta) ==
  LET c == ComponentMax(curr, cmd, accel, decel) * eta[2] IN
  curr * eta[2] + Clamp(eta[1] * (cmd - curr), -c, c)

\* The choice of eta in smootherTimer: the factor farthest from one.
Farther(a, b) == a[1] > 0 /\ Magnitude(a[2] - a[1]) * b[2] > Magnitude(b[2] - b[1]) * a[2]
EtaOf(etas) ==
  LET pick[i \in 0 .. 3] == IF i = 0 THEN <<1, 1>>
                            ELSE IF Farther(etas[i], pick[i - 1]) THEN etas[i] ELSE pick[i - 1]
  IN pick[3]

-----------------------------------------------------------------------------
VelocitySmootherInit ==
  [at : {"unconfigured"}, command : {NoCommand}, age : {0}, last : {0}, stopped : {TRUE},
   open_loop : BOOLEAN, max : {VsMax}, out : {NoCommand}]

\* on_configure: bad limits or an unknown feedback type clean up and fail.
Vs_on_configure ==
  /\ In(VelocitySmoothers, "unconfigured")
  /\ Become([st EXCEPT !.at = "inactive"])
Vs_on_activate ==
  /\ In(VelocitySmoothers, "inactive")
  /\ Become([st EXCEPT !.at = "active"])
Vs_on_deactivate ==
  /\ In(VelocitySmoothers, "active")
  /\ Become([st EXCEPT !.at = "inactive"])
Vs_on_cleanup ==
  /\ In(VelocitySmoothers, "inactive")
  /\ Become([st EXCEPT !.at = "unconfigured"])

\* The subscription is there as soon as the node is configured.
inputCommandCallback ==
  /\ part \in VelocitySmoothers /\ st.at # "unconfigured"
  /\ \E v \in Speeds : Become([st EXCEPT !.command = v, !.age = 0])

VsTime ==
  /\ part \in VelocitySmoothers /\ st.command # NoCommand /\ st.age <= VsTimeout
  /\ Become([st EXCEPT !.age = @ + 1])

\* Mistake: a stale command silences the smoother at once.
StaleAtRestAlways(s) == TRUE

\* The timeout of smootherTimer: at rest nothing is published any more.
StaleAtRest(s) == s.last = 0 \/ s.stopped

\* smootherTimer.  In open loop the current velocity is the one published last, in closed
\* loop it is the odometry's.
smootherTimer ==
  /\ In(VelocitySmoothers, "active") /\ st.command # NoCommand
  /\ IF st.age > VsTimeout /\ StaleAtRest(st)
     THEN Become([st EXCEPT !.stopped = TRUE])
     ELSE \E current \in IF st.open_loop THEN {st.last} ELSE Speeds :
            LET command == Clamp(IF st.age > VsTimeout THEN 0 ELSE st.command, -VsMax, st.max)
                v == applyConstraints(current, command, VsAccel, VsDecel, <<1, 1>>) IN
            Become([st EXCEPT !.command = command, !.stopped = FALSE, !.last = v,
                              !.out = IF Magnitude(v) < VsDeadband THEN 0 ELSE v])

\* dynamicParametersCallback: what comes before a value that is refused has been applied.
Vs_dynamicParameters ==
  /\ In(VelocitySmoothers, "active")
  /\ \E m \in {1, VsMax} : Become([st EXCEPT !.max = m])
Vs_feedback ==
  /\ In(VelocitySmoothers, "active")
  /\ \E o \in BOOLEAN : Become([st EXCEPT !.open_loop = o])

VelocitySmootherNext ==
  \/ Vs_on_configure \/ Vs_on_activate \/ Vs_on_deactivate \/ Vs_on_cleanup
  \/ inputCommandCallback \/ VsTime \/ smootherTimer \/ Vs_dynamicParameters \/ Vs_feedback

-----------------------------------------------------------------------------
\* The smoother falls silent only after it has sent the robot a zero, through
\* deactivations, changed limits and odometry in between.
SmootherSilentAtRest == part \in VelocitySmoothers /\ st.stopped => st.out \in {0, NoCommand}

\* In open loop a command that is not renewed ends in a zero (velocity_timeout).
StaleCommand == part \in VelocitySmoothers /\ st.at = "active" /\ st.open_loop /\ st.age > VsTimeout
StaleCommandStops ==
  /\ part \in VelocitySmoothers
  /\ st.out \in {0, NoCommand} \/ st.at # "active" \/ ~st.open_loop \/ st.age <= VsTimeout

-----------------------------------------------------------------------------
(***************************************************************************)
(* nav2_collision_monitor: the node that lowers the commanded speed when   *)
(* the points of its sources lie inside its polygons, and the detector     *)
(* that only tells.  A source gives points or is invalid; the points of    *)
(* one process() are the polygons that hold enough of them, and for the    *)
(* approach polygon the steps of the simulated motion at which they do.    *)
(*                                                                         *)
(*   at       lifecycle state, enabled  enabled_ (toggle service)          *)
(*   kind     the kind of the one source, data  its data_                  *)
(*   on       its enabled_, timed  source_timeout_ is not zero             *)
(*   active   polygons with enabled_, shape  those whose shape is set      *)
(*   prev     speed of robot_action_prev_, age  time since stop_stamp_     *)
(*   out      the speed published last (NoSpeed: none)                     *)
(*   allowed  ghost: the lowest speed a polygon asked for at the last      *)
(*            process(), points  ghost: the polygons that held points      *)
(***************************************************************************)

CONSTANTS
  CmSteps,    \* bound: steps of the simulated motion (time_before_collision / time step)
  CmStopTime  \* stop_pub_timeout_

ASSUME CollisionMonitorAssumption == CmSteps \in Nat \ {0} /\ CmStopTime \in Nat

Monitors == {"collision_monitor"}
Detectors == {"collision_detector"}

Cruise == 2 * CmSteps   \* a speed that the ratios below divide
CmLimit == Cruise - 1
NoSpeed == -1           \* req_vel of the initial robot_action_prev_ is not zero either

\* polygons_ in the order they are processed, with their action_type_.
Polygons == <<"approach", "limit", "slowdown", "stop">>
PolygonSet == {"approach", "limit", "slowdown", "stop"}

-----------------------------------------------------------------------------
(* Sources: what getData may answer, as "invalid", "points" or "empty" (valid, but  *)
(* without points).                                                                 *)

\* Source::sourceValid and getTransform: no data, data that is stale (never so without a
\* source_timeout), or a transform that is missing.
sourceAnswers(data, timed) ==
  IF data = "fresh" \/ (data = "stale" /\ ~timed) THEN {"points", "invalid"} ELSE {"invalid"}

Scan_getData(data, timed) == sourceAnswers(data, timed)
\* A reading outside the sensor's limits makes a range invalid,
Range_getData(data, timed) == sourceAnswers(data, timed)
\* a cloud without the height field makes a point cloud so.
PointCloud_getData(data, timed) == sourceAnswers(data, timed)
\* PolygonSource drops what is too old first (without a source_timeout, all that is not of
\* this instant), and what is left may be nothing.
PolygonSource_getData(data, timed) ==
  CASE data = "none"  -> {"invalid"}
    [] data = "stale" -> {"empty"}
    [] data = "fresh" -> {"points", "invalid"} \cup (IF timed THEN {} ELSE {"empty"})

getData(kind, data, timed) ==
  CASE kind = "scan"       -> Scan_getData(data, timed)
    [] kind = "range"      -> Range_getData(data, timed)
    [] kind = "pointcloud" -> PointCloud_getData(data, timed)
    [] kind = "polygon"    -> PolygonSource_getData(data, timed)

\* data_ after getData.
Kept(kind, data, answer) == IF kind = "polygon" /\ answer = "empty" THEN "none" ELSE data

\* What process() takes from the source: a source that is not enabled is not asked, and one
\* without a source_timeout that is invalid has no points.
sourceReads(s) ==
  IF s.on
  THEN {[source |-> IF a = "invalid" /\ ~s.timed THEN "empty" ELSE a,
         data |-> Kept(s.kind, s.data, a)] : a \in getData(s.kind, s.data, s.timed)}
  ELSE {[source |-> "empty", data |-> s.data]}

-----------------------------------------------------------------------------
(* Polygons.                                                                        *)

\* Polygon::updatePolygon(cmd_vel): the approach polygon is the footprint received, if
\* any; the others keep the shape they have.
updatePolygon(shape, footprint) ==
  IF footprint THEN shape \cup {"approach"} ELSE shape \ {"approach"}

\* getCollisionTime: hits are the steps, 0 for the pose it is in, at which enough points
\* are inside.  The state is projected before the test, the time counted after it.
getCollisionTime(hits) ==
  LET later == {k \in 1 .. CmSteps + 1 : k \in hits} IN
  IF 0 \in hits THEN 0
  ELSE IF later = {} THEN -1
  ELSE (CHOOSE k \in later : \A l \in later : k <= l) - 1

\* processStopSlowdownLimit: the action a polygon with points inside asks for.
SafeSpeed(polygon, v) ==
  CASE polygon = "stop"     -> 0
    [] polygon = "slowdown" -> v \div 2
    [] polygon = "limit"    -> IF v > CmLimit THEN CmLimit ELSE v

processStopSlowdownLimit(action, polygon, v, seen) ==
  LET safe == SafeSpeed(polygon, v) IN
  IF polygon \in seen.inside /\ (polygon = "stop" \/ safe < action.vel)
  THEN [type |-> polygon, vel |-> safe] ELSE action

\* processApproach: the speed goes down with the time that is left.
processApproach(action, v, seen) ==
  LET time == getCollisionTime(seen.hits)
      safe == (v * time) \div CmSteps IN
  IF time >= 0 /\ safe < action.vel THEN [type |-> "approach", vel |-> safe] ELSE action

\* One turn of the loop over the polygons in process(): nothing follows a STOP.
ProcessPolygon(action, p, v, seen, active, shape, enabled) ==
  IF p \notin active \/ ~enabled \/ action.type = "stop" \/ p \notin shape THEN action
  ELSE IF p = "approach" THEN processApproach(action, v, seen)
  ELSE processStopSlowdownLimit(action, p, v, seen)

ProcessPolygons(v, seen, active, shape, enabled) ==
  LET after(action, p) == ProcessPolygon(action, p, v, seen, active, shape, enabled)
      start == IF seen.source = "invalid" THEN [type |-> "stop", vel |-> 0]
               ELSE [type |-> "none", vel |-> v]
  IN  after(after(after(after(start, Polygons[1]), Polygons[2]), Polygons[3]), Polygons[4])

-----------------------------------------------------------------------------
(* What the polygons ask for, each by itself and in no order; the approach polygon leaves   *)
(* the speed at which the way to the first hit takes no less than the time the robot has.  *)
Demands(v, seen, acting) ==
  {v} \cup (IF seen.source = "invalid" THEN {0} ELSE {})
    \cup {SafeSpeed(p, v) : p \in seen.inside \cap acting}
    \cup {(v * k) \div CmSteps : k \in IF "approach" \in acting THEN seen.hits ELSE {}}
Lowest(S) == CHOOSE x \in S : \A y \in S : x <= y

\* The kinds of the source, each with the polygons that are enabled.
MonitorSetups ==
  {<<"scan", PolygonSet>>, <<"range", PolygonSet \ {"stop"}>>,
   <<"pointcloud", PolygonSet \ {"limit"}>>, <<"polygon", PolygonSet>>}
CollisionMonitorInit ==
  {[at |-> "unconfigured", enabled |-> TRUE, kind |-> c[1], data |-> "none", active |-> c[2],
    on |-> TRUE, timed |-> t, shape |-> {}, prev |-> NoSpeed, age |-> 0, out |-> NoSpeed,
    detected |-> {}, allowed |-> Cruise, points |-> {}] : c \in MonitorSetups, t \in BOOLEAN}

\* on_configure with getParameters, configureSources and configurePolygons: an unknown type,
\* a missing parameter or a malformed shape cleans up and fails.  Shapes given as points
\* are set now, the others when their message comes.
Cm_on_configure ==
  /\ In(Monitors, "unconfigured")
  /\ \E s \in {{}, {"limit", "slowdown", "stop"}} : Become([st EXCEPT !.at = "inactive", !.shape = s])
Cm_on_activate ==
  /\ In(Monitors, "inactive")
  /\ Become([st EXCEPT !.at = "active"])
\* on_deactivate forgets the last action, so that a first zero is sent again.
Cm_on_deactivate ==
  /\ In(Monitors, "active")
  /\ Become([st EXCEPT !.at = "inactive", !.prev = NoSpeed])
Cm_on_cleanup ==
  /\ In(Monitors, "inactive")
  /\ Become([st EXCEPT !.at = "unconfigured", !.shape = {}, !.data = "none"])

\* dataCallback of a source, and its data growing old.
Cm_dataCallback ==
  /\ part \in Monitors \cup Detectors /\ st.at # "unconfigured"
  /\ \/ Become([st EXCEPT !.data = "fresh"])
     \/ st.data = "fresh" /\ Become([st EXCEPT !.data = "stale"])
\* polygonCallback and radiusCallback: a shape comes with a message.
polygonCallback ==
  /\ part \in Monitors \cup Detectors /\ st.at # "unconfigured"
  /\ Become([st EXCEPT !.shape = {"limit", "slowdown", "stop"} \cup (@ \cap {"approach"})])

\* dynamicParametersCallback of the source.
Source_dynamicParametersCallback ==
  /\ part \in Monitors \cup Detectors /\ st.at # "unconfigured"
  /\ \E on \in BOOLEAN : Become([st EXCEPT !.on = on])

\* Mistake: a zero is sent only when the speed was not zero before.
ZeroIsOld(s, speed) == speed = 0 /\ s.prev # NoSpeed

\* publishVelocity: zeros are sent for a while and then no more.
ZeroIsSilent(s, speed) == speed = 0 /\ s.prev = 0 /\ s.age > CmStopTime

publishVelocity(s, speed) ==
  [s EXCEPT !.out = IF ZeroIsSilent(s, speed) THEN @ ELSE speed,
            !.age = IF speed = 0 /\ s.prev # 0 THEN 0 ELSE @]

\* process() on a command, with what the source and the polygons tell.  The loop reaches
\* the approach polygon, the first, unless there is a STOP before it.
Cm_processes(v, read, footprint, inside, hit) ==
  LET source == read.source
      reached == source # "invalid" /\ st.enabled /\ "approach" \in st.active
      shape == IF reached THEN updatePolygon(st.shape, footprint) ELSE st.shape
      seen == [source |-> source,
               inside |-> IF source = "points" THEN inside ELSE {},
               hits |-> IF source = "points" THEN hit .. CmSteps + 1 ELSE {}]
      action == ProcessPolygons(v, seen, st.active, shape, st.enabled) IN
  Become([publishVelocity(st, action.vel) EXCEPT
            !.data = read.data, !.shape = shape, !.prev = action.vel,
            !.allowed = Lowest(Demands(v, seen, IF st.enabled THEN st.active \cap shape ELSE {}))])

\* cmdVelInCallback.
Cm_process ==
  /\ In(Monitors, "active")
  /\ \E v \in {0, Cruise}, read \in sourceReads(st), footprint \in BOOLEAN,
        inside \in SUBSET (PolygonSet \ {"approach"}), hit \in 0 .. CmSteps + 2 :
       /\ read.source # "points" => inside = {} /\ hit = 0
       /\ Cm_processes(v, read, footprint, inside, hit)

Cm_time ==
  /\ part \in Monitors /\ st.age <= CmStopTime /\ Become([st EXCEPT !.age = @ + 1])

toggleCMServiceCallback ==
  /\ part \in Monitors /\ st.at # "unconfigured"
  /\ \E on \in BOOLEAN : Become([st EXCEPT !.enabled = on])

-----------------------------------------------------------------------------
(* The detector: the same sources and polygons (all of type "none"), on a timer.  *)
\* A polygon whose action is not "none" makes configurePolygons fail.
Cd_on_configure ==
  /\ In(Detectors, "unconfigured")
  /\ \E s \in {{}, {"limit", "slowdown", "stop"}} : Become([st EXCEPT !.at = "inactive", !.shape = s])
Cd_on_activate == In(Detectors, "inactive") /\ Become([st EXCEPT !.at = "active"])
Cd_on_deactivate == In(Detectors, "active") /\ Become([st EXCEPT !.at = "inactive"])
Cd_on_cleanup ==
  /\ In(Detectors, "inactive")
  /\ Become([st EXCEPT !.at = "unconfigured", !.shape = {}, !.data = "none"])

\* CollisionDetector::process: an invalid source is only logged, and the shapes are not
\* updated, so that a polygon without a shape has no points inside.
Cd_process ==
  /\ In(Detectors, "active")
  /\ \E read \in sourceReads(st), inside \in SUBSET PolygonSet :
       LET found == IF read.source = "points" THEN inside ELSE {} IN
       Become([st EXCEPT !.data = read.data, !.detected = found \cap st.active \cap st.shape,
                         !.points = found])

CollisionMonitorNext ==
  \/ Cm_on_configure \/ Cm_on_activate \/ Cm_on_deactivate \/ Cm_on_cleanup \/ Cm_dataCallback
  \/ Source_dynamicParametersCallback
  \/ polygonCallback \/ Cm_process \/ Cm_time \/ toggleCMServiceCallback
  \/ Cd_on_configure \/ Cd_on_activate \/ Cd_on_deactivate \/ Cd_on_cleanup \/ Cd_process

-----------------------------------------------------------------------------
\* The speed that process() decided on is the lowest any polygon asks for: neither the
\* order of the polygons nor the early end at a STOP lets a faster one through, and with
\* points ahead within the time the robot does not drive at full speed into them.  An
\* invalid source asks for zero if it is enabled and has a source_timeout; with a
\* source_timeout of 0 the robot goes on without its points.
SpeedIsSafest == part \in Monitors => st.prev <= st.allowed

\* The monitor falls silent only when the last speed it sent is zero.
MonitorSilentAtRest == part \in Monitors /\ st.at = "active" /\ st.prev = 0 => st.out = 0

\* The detector reports only polygons that hold points now.
DetectionIsCurrent == part \in Detectors => st.detected \subseteq st.points

-----------------------------------------------------------------------------
(***************************************************************************)
(* What the docking server works with: a dock plugin (SimpleChargingDock)  *)
(* with its detection, pose filter, battery and stall inputs; the dock     *)
(* database with its reload service; and the controller's check of the     *)
(* trajectory it is about to drive.                                        *)
(***************************************************************************)

CONSTANTS
  DkTime,      \* bound on the clock
  DkTimeout,   \* external_detection_timeout
  DkSteps      \* max_iter of the simulated trajectory

ASSUME DocksAssumption == DkTime \in Nat /\ DkTimeout \in Nat /\ DkSteps \in Nat

Frames == {"map", "odom"}
NoPose == [frame |-> "none", place |-> "none"]
Places == {"here", "away"}      \* within docking_threshold of the robot or not

-----------------------------------------------------------------------------
(* simple_charging_dock.cpp, pose_filter.cpp *)

\* configure: the subscriptions follow the parameters.
dockConfigure ==
  {[at |-> "ready", battery |-> b, external |-> e, stall |-> s, filtering |-> f, now |-> 0,
    is_charging |-> FALSE, is_stalled |-> FALSE, dock_pose |-> NoPose,
    detected |-> [stamp |-> 0, frame |-> "none"],
    filter |-> [stamp |-> 0, frame |-> "none", gap |-> 0],
    asked |-> "none", refined |-> FALSE, told |-> "none"] :
   b \in BOOLEAN, e \in BOOLEAN, s \in BOOLEAN, f \in BOOLEAN}

dockTick == st.now < DkTime /\ Become([st EXCEPT !.now = @ + 1, !.refined = FALSE, !.told = "none"])
\* is_charging_ keeps the last battery message, however old.
batteryState == st.battery /\ \E c \in BOOLEAN : Become([st EXCEPT !.is_charging = c, !.refined = FALSE, !.told = "none"])
detectedDockPose ==
  /\ st.external
  /\ \E f \in Frames, delay \in 0 .. 1 :
       /\ delay <= st.now
       /\ Become([st EXCEPT !.detected = [stamp |-> st.now - delay, frame |-> f], !.refined = FALSE, !.told = "none"])
\* Stalled: slow and pushing, on average over the named joints.
jointStateCallback ==
  /\ st.stall
  /\ \E velocity, effort \in {"low", "high"} :
       Become([st EXCEPT !.is_stalled = velocity = "low" /\ effort = "high", !.refined = FALSE, !.told = "none"])

\* Without detection the asked pose is the dock's; with it the pose of an
\* earlier dock stays until the next refinement.
getStagingPose ==
  \E f \in Frames, p \in Places :
    Become([st EXCEPT !.dock_pose = IF st.external THEN @ ELSE [frame |-> f, place |-> p],
                      !.refined = FALSE, !.told = "none"])

\* PoseFilter::update: starts anew after the timeout or in another frame.
filterUpdate(f, stamp, frame) ==
  IF stamp - f.stamp > DkTimeout \/ f.frame # frame THEN [stamp |-> stamp, frame |-> frame, gap |-> 0]
  ELSE [stamp |-> stamp, frame |-> frame, gap |-> IF stamp - f.stamp > f.gap THEN stamp - f.stamp ELSE f.gap]

getRefinedPose ==
  \E asked \in Frames, p \in Places, transforms \in BOOLEAN :
    LET late == st.now - st.detected.stamp > DkTimeout
        unplaced == st.detected.frame # asked /\ ~transforms
        f == IF st.filtering THEN filterUpdate(st.filter, st.detected.stamp, asked) ELSE st.filter
    IN  IF ~st.external
        THEN Become([st EXCEPT !.dock_pose = [frame |-> asked, place |-> p], !.refined = TRUE, !.asked = asked, !.told = "none"])
        ELSE IF late \/ unplaced
        THEN Become([st EXCEPT !.refined = FALSE, !.asked = asked, !.told = "none"])
        ELSE Become([st EXCEPT !.filter = f, !.refined = TRUE, !.asked = asked, !.told = "none",
                               !.dock_pose = [frame |-> IF st.filtering THEN f.frame ELSE asked, place |-> p]])

isDockedNow(transforms) ==
  IF st.stall THEN st.is_stalled
  ELSE st.dock_pose # NoPose /\ transforms /\ st.dock_pose.place = "here"
isDocked == \E transforms \in BOOLEAN :
  Become([st EXCEPT !.told = IF isDockedNow(transforms) THEN "docked" ELSE "undocked", !.refined = FALSE])
isCharging == \E transforms \in BOOLEAN :
  LET charging == IF st.battery THEN st.is_charging ELSE isDockedNow(transforms)
  IN  Become([st EXCEPT !.told = IF charging THEN "charging" ELSE "stopped", !.refined = FALSE])

DockNext ==
  /\ part = "dock"
  /\ \/ dockTick \/ batteryState \/ detectedDockPose \/ jointStateCallback
     \/ getStagingPose \/ getRefinedPose \/ isDocked \/ isCharging

-----------------------------------------------------------------------------
(* dock_database.cpp, utils.hpp *)

\* An entry of the docks file: complete or not, with a plugin type.
DockEntries == [name : {"a", "b"}, type : {"p", "q", ""}, complete : BOOLEAN]
DockFiles == {<<>>} \cup {<<e>> : e \in DockEntries} \cup {<<d, e>> : d \in DockEntries, e \in DockEntries}
\* emplace keeps the first of two entries with one name; parsing stops at the
\* first incomplete one.
Readable(file) == \A i \in DOMAIN file : file[i].complete
parseDockFile(file) ==
  LET n == IF Readable(file) THEN Len(file)
           ELSE (CHOOSE i \in DOMAIN file : ~file[i].complete /\ \A j \in 1 .. i - 1 : file[j].complete) - 1
      first(d) == CHOOSE i \in 1 .. n : file[i].name = d /\ \A j \in 1 .. i - 1 : file[j].name # d
  IN  [d \in {file[i].name : i \in 1 .. n} |-> file[first(d)].type]

\* One type may be left out when there is one plugin.
findDockPlugin(plugins, type) ==
  IF type = "" /\ Cardinality(plugins) = 1 THEN plugins ELSE plugins \cap {type}

databaseInit == {[at |-> "new", plugins |-> {}, docks |-> [d \in {} |-> ""], locked |-> FALSE, dock |-> [name |-> "none", type |-> ""], told |-> "none"]}

\* initialize: plugins, then instances; a failure leaves what was loaded.
databaseInitialize ==
  /\ st.at = "new"
  /\ \E plugins \in SUBSET {"p", "q"}, loads \in BOOLEAN, file \in DockFiles :
       IF plugins = {} \/ ~loads
       THEN Become([st EXCEPT !.at = "failed", !.plugins = plugins])
       ELSE Become([st EXCEPT !.at = IF Readable(file) THEN "ready" ELSE "failed",
                              !.plugins = plugins, !.docks = parseDockFile(file)])

\* The service takes the server's mutex only if it is free.
reloadDbCb ==
  /\ st.at = "ready"
  /\ \E file \in DockFiles :
       IF st.locked \/ ~Readable(file) THEN Become([st EXCEPT !.told = "refused"])
       ELSE Become([st EXCEPT !.docks = parseDockFile(file), !.told = "reloaded"])

\* dockRobot holds the mutex and keeps a pointer to the instance.
findDock ==
  /\ st.at = "ready" /\ ~st.locked
  /\ \E d \in {"a", "b"} :
       IF d \in DOMAIN st.docks /\ findDockPlugin(st.plugins, st.docks[d]) # {}
       THEN Become([st EXCEPT !.locked = TRUE, !.dock = [name |-> d, type |-> st.docks[d]], !.told = "none"])
       ELSE Become([st EXCEPT !.told = "notFound"])
dockActionEnds == st.locked /\ Become([st EXCEPT !.locked = FALSE, !.dock = [name |-> "none", type |-> ""], !.told = "none"])

DatabaseNext == part = "dockDatabase" /\ (databaseInitialize \/ reloadDbCb \/ findDock \/ dockActionEnds)

-----------------------------------------------------------------------------
(* controller.cpp *)

\* Each simulated pose is near its end of the drive or not, free or not, and
\* at the target or not.
controllerInit ==
  {[at |-> "simulate", docking |-> d, detection |-> c, poses |-> 1, hit |-> FALSE, answer |-> "none"] :
   d \in BOOLEAN, c \in BOOLEAN}

computeVelocityCommand ==
  /\ st.at = "simulate" /\ st.poses = 1
  /\ Become([st EXCEPT !.at = "done", !.answer = "noTransform"])

\* Poses near the dock when docking, near the robot when undocking, are not
\* checked.
isTrajectoryCollisionFree ==
  /\ st.at = "simulate"
  /\ \E near, free, reached \in BOOLEAN :
       LET hit == st.detection /\ ~near /\ ~free
       IN  IF hit THEN Become([st EXCEPT !.at = "done", !.poses = @ + 1, !.hit = TRUE, !.answer = "collision"])
           ELSE IF ~reached /\ st.poses + 1 < DkSteps
           THEN Become([st EXCEPT !.poses = @ + 1])
           ELSE Become([st EXCEPT !.at = "done", !.poses = @ + 1, !.answer = "free"])

controllerDrives == st.at = "done" /\ Become([st EXCEPT !.at = "simulate", !.poses = 1, !.hit = FALSE, !.answer = "none"])
\* Every parameter may change between two commands, under the lock.
dockControllerParameters == st.at = "done" /\ \E d \in BOOLEAN : Become([st EXCEPT !.docking = d])

DockControllerNext ==
  /\ part = "dockController"
  /\ computeVelocityCommand \/ isTrajectoryCollisionFree \/ controllerDrives \/ dockControllerParameters

DocksInit ==
  \/ part = "dock" /\ st \in dockConfigure
  \/ part = "dockDatabase" /\ st \in databaseInit
  \/ part = "dockController" /\ st \in controllerInit
DocksNext == DockNext \/ DatabaseNext \/ DockControllerNext

-----------------------------------------------------------------------------

\* A refined dock pose is in the frame it was asked for, comes from a
\* detection no older than the timeout, and blends only detections at most
\* the timeout apart (getRefinedPose, PoseFilter::update).
RefinedPoseIsRecent ==
  part = "dock" =>
    /\ st.refined => st.dock_pose.frame = st.asked
    /\ st.refined /\ st.external => st.now - st.detected.stamp <= DkTimeout
    /\ st.filter.gap <= DkTimeout

\* The dock a docking action uses stays the database's entry for as long as
\* the action runs, and has a loaded plugin: a reload waits or is refused
\* (findDock, reloadDbCb).
DockInUseStays ==
  part = "dockDatabase" /\ st.locked =>
    /\ st.dock.name \in DOMAIN st.docks /\ st.docks[st.dock.name] = st.dock.type
    /\ findDockPlugin(st.plugins, st.dock.type) # {}

\* The controller drives only when no checked pose collides, and its
\* simulation ends (isTrajectoryCollisionFree).
DriveIsChecked ==
  part = "dockController" =>
    /\ st.answer = "free" => ~st.hit
    /\ st.poses <= IF DkSteps < 2 THEN 2 ELSE DkSteps

-----------------------------------------------------------------------------
(***************************************************************************)
(* The loopback simulator of nav2_loopback_sim, which stands for the robot *)
(* when there is none.  A transform is <<x, y, q>> with q quarter turns.   *)
(***************************************************************************)

CONSTANTS
  SimTime,    \* half seconds the simulator runs
  SimPoses,   \* initial poses the user may give: <<x, y, quarter turns>>
  SimSpeeds   \* commanded speeds: <<forward, sideways, quarter turns>> for half a second

ASSUME SimulatorAssumption ==
  /\ SimTime \in Nat
  /\ SimPoses \subseteq Int \X Int \X (0..3) /\ SimSpeeds \subseteq Int \X Int \X Int

Turned(q, x, y) ==
  CASE q % 4 = 0 -> <<x, y>> [] q % 4 = 1 -> <<-y, x>> [] q % 4 = 2 -> <<-x, -y>> [] OTHER -> <<y, -x>>
Composed(a, b) ==
  LET t == Turned(a[3], b[1], b[2]) IN <<a[1] + t[1], a[2] + t[2], (a[3] + b[3]) % 4>>
Inverted(a) ==
  LET t == Turned(-a[3], -a[1], -a[2]) IN <<t[1], t[2], (-a[3]) % 4>>
Still == <<0, 0, 0>>

simulatorInit ==
  [at |-> "runs", time |-> 0, posed |-> FALSE, map_to_odom |-> Still, odom_to_base |-> Still,
   cmd |-> Still, cmdTime |-> -3, should |-> Still, moved |-> FALSE]
\* initialPoseCallback: the first pose starts the timers; a later one moves map to odom so that the
\* robot stands at the pose, its odometry kept.
initialPoseCallback ==
  /\ In({"simulator"}, "runs")
  /\ \E p \in SimPoses :
       Become([st EXCEPT !.posed = TRUE, !.should = p, !.moved = FALSE,
                         !.map_to_odom = IF ~st.posed THEN p ELSE Composed(p, Inverted(st.odom_to_base)),
                         !.odom_to_base = IF ~st.posed THEN Still ELSE @])
\* cmdVelCallback, cmdVelStampedCallback: ignored before the first pose.
cmdVelCallback ==
  /\ In({"simulator"}, "runs") /\ st.posed
  /\ \E v \in SimSpeeds : Become([st EXCEPT !.cmd = v, !.cmdTime = st.time, !.moved = FALSE])
\* timerCallback: a command older than one second is dropped; else the odometry is integrated with
\* the heading before the turn.
timerCallback ==
  /\ In({"simulator"}, "runs") /\ st.posed /\ st.time < SimTime
  /\ LET fresh == st.cmd # Still /\ st.time + 1 - st.cmdTime <= 2
         next == IF fresh THEN Composed(st.odom_to_base, st.cmd) ELSE st.odom_to_base IN
     Become([st EXCEPT !.time = @ + 1, !.cmd = IF fresh THEN @ ELSE Still, !.odom_to_base = next,
                       !.moved = next # st.odom_to_base,
                       !.should = IF fresh THEN Composed(st.should, st.cmd) ELSE @])

SimulatorNext == initialPoseCallback \/ cmdVelCallback \/ timerCallback

-----------------------------------------------------------------------------
\* The simulated robot stands at the last initial pose moved by the commands that were young enough,
\* and rests one second after the last command.
SimulatorStandsWhereTold ==
  part = "simulator" =>
    /\ st.posed => Composed(st.map_to_odom, st.odom_to_base) = st.should
    /\ st.moved => st.time - st.cmdTime <= 2
=============================================================================
