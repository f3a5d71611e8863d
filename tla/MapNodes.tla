------------------------------ MODULE MapNodes ------------------------------
(***************************************************************************)
(* The nodes that load, serve and save maps, and the localisation on the   *)
(* map it is given.                                                        *)
(***************************************************************************)
EXTENDS Component, Integers, Sequences, SequencesExt

-----------------------------------------------------------------------------
(***************************************************************************)
(* The small nodes around maps: map_server of nav2_map_server, and the     *)
(* map_saver and costmap_filter_info_server it shares with                 *)
(* navbim_multimap_server.  A map is a number, 0 is no map; a file holds a *)
(* map, or nothing that can be loaded.                                     *)
(***************************************************************************)

CONSTANTS
  MnMaps      \* maps in files and on topics

ASSUME MapNodesAssumption == MnMaps \subseteq Nat \ {0}

MapServerParts == {"mapServer"}
MapSavers == {"mapSaver", "multimapSaver"}
InfoServers == {"filterInfo", "multimapFilterInfo"}

-----------------------------------------------------------------------------
(* map_server: msg is the loaded map, latched what a late subscriber gets.  *)

mapServerInit ==
  [at |-> "unconfigured", msg |-> 0, available |-> FALSE, latched |-> 0, served |-> 0, told |-> "none"]
\* loadMapFromYaml assigns the map last, so a file that fails leaves it.
Mn_loadMapResponseFromYaml(s, file) ==
  IF file = 0 THEN [s EXCEPT !.told = "failure"]
  ELSE [s EXCEPT !.msg = file, !.available = TRUE, !.told = "success"]
\* on_configure: with a file name, a file that cannot be loaded is an error.
mapServer_on_configure ==
  /\ In(MapServerParts, "unconfigured")
  /\ \/ Become([st EXCEPT !.at = "inactive"])
     \/ \E file \in MnMaps \cup {0} :
          LET s == Mn_loadMapResponseFromYaml(st, file) IN
          Become([s EXCEPT !.at = IF s.told = "success" THEN "inactive" ELSE "unconfigured", !.told = "none"])
mapServer_on_activate ==
  /\ In(MapServerParts, "inactive")
  /\ Become([st EXCEPT !.at = "active", !.latched = IF st.available THEN st.msg ELSE @, !.told = "none"])
mapServer_on_deactivate ==
  /\ In(MapServerParts, "active")
  /\ Become([st EXCEPT !.at = "inactive", !.told = "none"])
mapServer_on_cleanup ==
  /\ In(MapServerParts, "inactive")
  /\ Become(mapServerInit)
\* loadMapCallback: only when active; the new map is published.
loadMapCallback ==
  /\ part \in MapServerParts /\ st.at \in {"inactive", "active"}
  /\ \E file \in MnMaps \cup {0} :
       LET s == Mn_loadMapResponseFromYaml(st, file) IN
       IF st.at # "active" THEN Become([st EXCEPT !.told = "failure"])
       ELSE Become([s EXCEPT !.latched = IF s.told = "success" THEN s.msg ELSE @])
\* getMapCallback: an empty answer unless active.
getMapCallback ==
  /\ part \in MapServerParts /\ st.at \in {"inactive", "active"}
  /\ Become([st EXCEPT !.served = IF st.at = "active" THEN st.msg ELSE 0, !.told = "map"])

-----------------------------------------------------------------------------
(* map_saver: topic is the map its publisher latched last, got the first    *)
(* one the subscription heard.                                              *)

mapSaverInit ==
  {[at |-> "inactive", transient |-> t, topic |-> 0, got |-> 0, saved |-> 0, told |-> "none"] :
     t \in BOOLEAN}
\* saveMapCallback, saveMapTopicToFile up to the subscription: a latched map is heard at once.
saveMapTopicToFile ==
  /\ In(MapSavers, "inactive")
  /\ Become([st EXCEPT !.at = "waits", !.got = IF st.transient THEN st.topic ELSE 0, !.told = "none"])
\* The future is complete: the map is written, or the directory, the thresholds or the format fail.
saveMapEnds ==
  /\ In(MapSavers, "waits") /\ st.got # 0
  /\ \/ Become([st EXCEPT !.at = "inactive", !.saved = st.got, !.told = "saved"])
     \/ Become([st EXCEPT !.at = "inactive", !.told = "failed"])
\* save_map_timeout.
saveMapTimeout ==
  /\ In(MapSavers, "waits") /\ st.got = 0
  /\ Become([st EXCEPT !.at = "inactive", !.told = "failed"])
Mn_mapPublished ==
  /\ part \in MapSavers
  /\ \E m \in MnMaps :
       Become([st EXCEPT !.topic = m, !.told = "none",
                         !.got = IF st.at = "waits" /\ st.got = 0 THEN m ELSE @])
\* multimapSaveMapTopicToFile: the copy in navbim_multimap_server.
multimapSaveMapTopicToFile == part = "multimapSaver" /\ saveMapTopicToFile
nav2SaveMapTopicToFile == part = "mapSaver" /\ saveMapTopicToFile

-----------------------------------------------------------------------------
(* costmap_filter_info_server: the message is made from the parameters when *)
(* the node is configured and published when it is activated.               *)

filterInfoInit == [at |-> "unconfigured", type |-> 0, msg |-> 0, latched |-> 0]
filterInfo_on_configure ==
  /\ In(InfoServers, "unconfigured")
  /\ Become([st EXCEPT !.at = "inactive", !.msg = st.type])
filterInfo_on_activate ==
  /\ In(InfoServers, "inactive")
  /\ Become([st EXCEPT !.at = "active", !.latched = st.msg])
filterInfo_on_deactivate == In(InfoServers, "active") /\ Become([st EXCEPT !.at = "inactive"])
filterInfo_on_cleanup ==
  In(InfoServers, "inactive") /\ Become([st EXCEPT !.at = "unconfigured", !.latched = 0])
filterInfoParameters ==
  /\ part \in InfoServers
  /\ \E t \in MnMaps : Become([st EXCEPT !.type = t])

MapNodesInit ==
  \/ part \in MapServerParts /\ st = mapServerInit
  \/ part \in MapSavers /\ st \in mapSaverInit
  \/ part \in InfoServers /\ st = filterInfoInit
MapNodesNext ==
  \/ mapServer_on_configure \/ mapServer_on_activate \/ mapServer_on_deactivate \/ mapServer_on_cleanup
  \/ loadMapCallback \/ getMapCallback
  \/ nav2SaveMapTopicToFile \/ multimapSaveMapTopicToFile \/ saveMapEnds \/ saveMapTimeout \/ Mn_mapPublished
  \/ filterInfo_on_configure \/ filterInfo_on_activate \/ filterInfo_on_deactivate \/ filterInfo_on_cleanup
  \/ filterInfoParameters

-----------------------------------------------------------------------------
\* The map that get_map serves is the one that was published last, whatever loads failed and however
\* often the node was deactivated.
MapIsOneMap ==
  In(MapServerParts, "active") =>
    /\ st.latched = st.msg
    /\ st.told = "map" => st.served = st.latched
\* An active costmap_filter_info_server has published what it was configured with.
InfoIsPublished == In(InfoServers, "active") => st.latched = st.msg

-----------------------------------------------------------------------------
(***************************************************************************)
(* The multimap server: the occupancy maps of the rooms (maps_), and the   *)
(* index of them (environments_) that is published for the costmaps.  The  *)
(* two are kept separately, by every handler on its own; its executor runs *)
(* one handler at a time.  A map is its environment and name.              *)
(***************************************************************************)

CONSTANTS
  EnvNames, MapNames,
  Files,         \* environments files: sequences of [name, maps]
  ParameterFile, \* the one the parameter environments_file names
  MaxLoads,      \* bound on load_map and load_environments calls
  MaxDumps,      \* bound on dump_map calls
  MaxBadLoads    \* bound on loads in which something cannot be read

Entries == [name : EnvNames, maps : SUBSET MapNames]

ASSUME MultimapAssumption ==
  /\ \A f \in Files : \A i \in DOMAIN f : f[i] \in Entries
  /\ ParameterFile \in Files

MultimapServers == {"multimapServer"}

\* at: lifecycle state, "failed" after a configuration that failed; maps: maps_; envs:
\* environments_; published: the message the topic keeps for late joiners.
MultimapServerInit ==
  {[at |-> "unconfigured", maps |-> {}, envs |-> <<>>, published |-> <<>>,
    loads |-> 0, dumps |-> 0, faults |-> 0]}

Listed(envs) == UNION {{envs[i].name} \X envs[i].maps : i \in DOMAIN envs}

-----------------------------------------------------------------------------

\* One environment of a file: maps already loaded are skipped, those that cannot be
\* read (bad) keep the environment from being listed, but not the others from loading.
LoadEntry(s, entry, bad) ==
  LET new == {m \in entry.maps : <<entry.name, m>> \notin s.maps}
      good == {m \in new : <<entry.name, m>> \notin bad}
  IN [s EXCEPT !.maps = @ \cup ({entry.name} \X good),
               !.envs = IF good = new /\ good # {}
                        THEN Append(@, [name |-> entry.name, maps |-> good]) ELSE @]

\* loadEnvironmentsFromYAML with a file that parses.
LoadedFrom(s, f, bad) == FoldLeft(LAMBDA t, entry : LoadEntry(t, entry, bad), s, f)

\* A YAML error in environment k: those before it are loaded, and some of its maps.
StoppedAt(s, f, k, some) ==
  [LoadedFrom(s, SubSeq(f, 1, k - 1), {}) EXCEPT !.maps = @ \cup ({f[k].name} \X some)]

\* The states the loading of file f can leave, with the exit ok.
loadEnvironmentsFromYAML(s, f, ok) ==
  LET good == LoadedFrom(s, f, {})
      bad == IF ok THEN {LoadedFrom(s, f, b) : b \in SUBSET Listed(f)} \ {good}
             ELSE {s} \cup UNION {{StoppedAt(s, f, k, some) : some \in SUBSET f[k].maps} :
                                    k \in DOMAIN f}
  IN {t \in {good} : ok}
       \cup {[t EXCEPT !.faults = @ + 1] : t \in {u \in bad : u.faults < MaxBadLoads}}

-----------------------------------------------------------------------------
\* A configuration that fails leaves the services and what was loaded behind.
Ms_on_configure ==
  /\ part \in MultimapServers /\ st.at \in {"unconfigured", "failed"}
  /\ \E ok \in BOOLEAN : \E s \in loadEnvironmentsFromYAML(st, ParameterFile, ok) :
       Become([s EXCEPT !.at = IF ok THEN "inactive" ELSE "failed"])

\* publishEnvironments is called from here only.
Ms_on_activate ==
  /\ In(MultimapServers, "inactive")
  /\ Become([st EXCEPT !.at = "active", !.published = st.envs])

Ms_on_deactivate ==
  /\ In(MultimapServers, "active")
  /\ Become([st EXCEPT !.at = "inactive"])

Ms_on_cleanup ==
  /\ In(MultimapServers, "inactive")
  /\ Become([st EXCEPT !.at = "unconfigured", !.maps = {}, !.envs = <<>>, !.published = <<>>])

\* The services are there from the first configuration on.
Serves == part \in MultimapServers /\ st.at # "unconfigured"

\* The map goes to the first environment of its name, or to a new one.
loadMap(n, m) ==
  /\ Serves /\ st.loads < MaxLoads /\ <<n, m>> \notin st.maps
  /\ LET i == SelectInSeq(st.envs, LAMBDA e : e.name = n) IN
     Become([st EXCEPT !.loads = @ + 1, !.maps = @ \cup {<<n, m>>},
               !.envs = IF i > 0 THEN [@ EXCEPT ![i].maps = @ \cup {m}]
                        ELSE Append(@, [name |-> n, maps |-> {m}])])

loadEnvironments(f) ==
  /\ Serves /\ st.loads < MaxLoads
  /\ \E ok \in BOOLEAN : \E s \in loadEnvironmentsFromYAML(st, f, ok) :
       Become([s EXCEPT !.loads = @ + 1])

\* The map is taken from the first environment of its name only.
dumpMap(n, m) ==
  /\ Serves /\ st.dumps < MaxDumps /\ <<n, m>> \in st.maps
  /\ LET i == SelectInSeq(st.envs, LAMBDA e : e.name = n) IN
     Become([st EXCEPT !.dumps = @ + 1, !.maps = @ \ {<<n, m>>},
               !.envs = IF i > 0 THEN [@ EXCEPT ![i].maps = @ \ {m}] ELSE @])

dumpEnvironments == Serves /\ Become([st EXCEPT !.maps = {}, !.envs = <<>>])

MultimapServerNext ==
  \/ Ms_on_configure \/ Ms_on_activate \/ Ms_on_deactivate \/ Ms_on_cleanup \/ dumpEnvironments
  \/ \E n \in EnvNames, m \in MapNames : loadMap(n, m) \/ dumpMap(n, m)
  \/ \E f \in Files : loadEnvironments(f)

-----------------------------------------------------------------------------
\* Every map in the index is loaded, so that a costmap created for it gets a map: no
\* failure to read one leaves an entry without its map (as long as no map is dumped:
\* dump_map takes a map out of the first environment of its name only).
ListedIsLoaded ==
  part \in MultimapServers /\ st.dumps = 0 => Listed(st.envs) \subseteq st.maps

\* Every map that is loaded is in the index ("Full room index (all floors and their
\* maps)"), in whatever order maps and files are loaded, dumped and loaded again, as
\* long as everything could be read.
LoadedIsListed ==
  part \in MultimapServers /\ st.faults = 0 => st.maps \subseteq Listed(st.envs)

-----------------------------------------------------------------------------
(***************************************************************************)
(* nav2_amcl::AmclNode: the lifecycle of the node and its callbacks, all   *)
(* of them under mutex_.  The particle filter is what its particles are    *)
(* around: a pose, or the whole map (Spread); ParticleFilter models its    *)
(* inside.                                                                 *)
(*                                                                         *)
(*   at        lifecycle state, or "undefined" after an invalid read        *)
(*   map       the map held (0: none), last  last_published_pose_,         *)
(*   start     init_pose_, param  initial_pose.*                           *)
(*   known     initial_pose_is_known_,                                     *)
(*   waiting   init_pose_received_on_inactive                              *)
(*   pf, pf_init   the filter and pf_init_                                 *)
(*   lasers    lasers_ with lasers_update_, frames  frame_to_laser_        *)
(*   tf        latest_tf_ (Nowhere: not valid), first  first_pose_sent_    *)
(*   told      where the node was last told that the robot is              *)
(*   forgot    the filter was made anew, around init_pose_, since then     *)
(*   lied      without that, a pose or transform sent was not the one told *)
(***************************************************************************)

CONSTANTS
  AmPoses,     \* poses other than the origin, 0
  AmFrames,    \* frames of the laser scanners
  AmMaps,      \* bound: maps received
  AmLasers     \* bound: length of lasers_

ASSUME AmclAssumption == AmPoses \subseteq Nat \ {0} /\ {AmMaps, AmLasers} \subseteq Nat

Amcls == {"amcl"}
Spread == -1
Nowhere == -2

\* The parameters that matter here; no pose and no map yet.
AmclInit ==
  [at : {"unconfigured"}, map : {0}, last : {0}, start : {0}, param : AmPoses,
   set_initial_pose : BOOLEAN, always_reset : BOOLEAN,
   known : {FALSE}, waiting : {FALSE}, pf : {0}, pf_init : {FALSE},
   force : {TRUE}, lasers : {<<>>}, frames : {<<>>}, tf : {Nowhere},
   first : {FALSE}, told : {Nowhere}, forgot : {FALSE}, lied : {FALSE}]

-----------------------------------------------------------------------------
(* on_configure, in its order.                                                *)
initParameters(s) == [s EXCEPT !.known = @ /\ ~s.always_reset]
initTransforms(s) == [s EXCEPT !.tf = Nowhere]
initParticleFilter(s) == [s EXCEPT !.pf = s.start, !.pf_init = FALSE, !.forgot = TRUE]
initOdometry(s) == [s EXCEPT !.start = s.last]

\* The filter is made around init_pose_ before initOdometry renews that pose: whatever
\* was told before, except a pose that waits for the activation, is forgotten.
Am_on_configure ==
  /\ In(Amcls, "unconfigured")
  /\ Become([initOdometry(initParticleFilter(initTransforms(initParameters(st)))) EXCEPT
               !.at = "inactive"])

\* A pose becomes the middle of a new filter; without a transform for the time since
\* its stamp it is taken as it is.
handleInitialPose(s, p) ==
  [s EXCEPT !.pf = p, !.pf_init = FALSE, !.waiting = FALSE, !.known = TRUE, !.forgot = FALSE]

initialPoseReceived(s, p) ==
  LET kept == [s EXCEPT !.last = p, !.told = p] IN
  IF s.at = "active" THEN handleInitialPose(kept, p) ELSE [kept EXCEPT !.waiting = TRUE]

Am_on_activate ==
  /\ In(Amcls, "inactive")
  /\ LET s == [st EXCEPT !.at = "active", !.first = FALSE] IN
     Become(IF s.set_initial_pose THEN initialPoseReceived(s, s.param)
            ELSE IF s.waiting THEN handleInitialPose(s, s.last) ELSE s)
Am_on_deactivate == In(Amcls, "active") /\ Become([st EXCEPT !.at = "inactive"])
Am_on_cleanup ==
  /\ In(Amcls, "inactive")
  /\ Become([st EXCEPT !.at = "unconfigured", !.map = 0, !.lasers = <<>>, !.frames = <<>>,
               !.force = TRUE, !.param = IF st.set_initial_pose THEN st.last ELSE @])

-----------------------------------------------------------------------------
(* Messages and services, of a configured node.                               *)
AmConfigured == part \in Amcls /\ st.at \in {"inactive", "active"}

\* A pose in another frame, or outside the map, is refused.
Am_initialPose == AmConfigured /\ \E p \in AmPoses : Become(initialPoseReceived(st, p))

\* uniformPoseGenerator takes a random element of the list of free cells, which is
\* empty as long as there is no map.  A pose that waits for the activation still wins.
uniformPoseGenerator(s) ==
  IF s.map = 0 THEN [s EXCEPT !.at = "undefined"]
  ELSE [s EXCEPT !.pf = Spread, !.told = IF s.waiting THEN @ ELSE Spread, !.forgot = FALSE]
Am_globalLocalization ==
  /\ AmConfigured
  /\ Become([uniformPoseGenerator(st) EXCEPT !.pf_init = FALSE, !.known = TRUE])
Am_nomotionUpdate == AmConfigured /\ Become([st EXCEPT !.force = TRUE])

\* With first_map_only_ a second map is dropped.  handleMapMessage: the lasers point into the old map and go with it.
freeMapDependentMemory(s) == [s EXCEPT !.map = 0, !.lasers = <<>>, !.frames = <<>>]
Am_mapReceived ==
  /\ AmConfigured
  /\ st.map < AmMaps
  /\ Become([freeMapDependentMemory(st) EXCEPT !.map = st.map + 1])

-----------------------------------------------------------------------------
(* laserReceived                                                              *)
FrameCount(s) == Len(s.frames)
LaserOf(s, f) == {i \in 1 .. FrameCount(s) : s.frames[i] = f}
WithUpdates(s) == [s EXCEPT !.lasers = [i \in DOMAIN @ |-> [@[i] EXCEPT !.update = TRUE]]]

\* addNewScanner: the laser is appended before its transform is looked up, and stays
\* when that fails; its index is the number of known frames all the same.
createLaserObject(s) == [map |-> s.map, update |-> TRUE, posed |-> FALSE]
addNewScanner(s, f, found) ==
  LET t == [s EXCEPT !.lasers = Append(@, createLaserObject(s))] IN
  IF ~found THEN t
  ELSE [t EXCEPT !.frames = Append(@, f), !.lasers[FrameCount(s) + 1].posed = TRUE]

\* The filter before the scan is used: a new one, or the motion since the last update.
AmMoved(s, i, moved) ==
  IF ~s.pf_init THEN WithUpdates([s EXCEPT !.pf_init = TRUE])
  ELSE [IF moved \/ s.force THEN WithUpdates(s) ELSE s EXCEPT !.force = FALSE]

\* updateFilter: without a transform, or with a bad range, the scan is not used, and
\* laserReceived does not look at what it returns.
AmUpdateFilter(s, i, usable) == IF usable THEN [s EXCEPT !.lasers[i].update = FALSE] ELSE s

\* publishAmclPose, calculateMaptoOdomTransform and sendMapToOdomTransform: the latter
\* sends latest_tf_ even when the former could not compute it.
publishAmclPose(s) ==
  IF s.known THEN [s EXCEPT !.last = s.pf, !.first = TRUE, !.lied = @ \/ (~s.forgot /\ s.pf # s.told)]
  ELSE s
calculateMaptoOdomTransform(s, ok) == IF ok THEN [s EXCEPT !.tf = s.pf] ELSE s
sendMapToOdomTransform(s, excused) ==
  IF s.known /\ ~excused THEN [s EXCEPT !.lied = @ \/ (~s.forgot /\ s.tf # s.told)] ELSE s

\* A scan of a known laser; without getOdomPose nothing more happens, as with the first
\* scan of a frame in Am_laserReceived.
AmScan(s, i, moved, usable, resample, ok) ==
  LET m == AmMoved(s, i, moved)
      used == m.lasers[i].update
      u == IF used THEN AmUpdateFilter(m, i, usable) ELSE m IN
  IF (used /\ resample) \/ ~s.pf_init \/ ~s.first
  THEN sendMapToOdomTransform(calculateMaptoOdomTransform(publishAmclPose(u), ok), ~ok)
  ELSE IF u.tf # Nowhere THEN sendMapToOdomTransform(u, TRUE) ELSE u

Am_laserReceived ==
  /\ In(Amcls, "active") /\ st.map # 0
  /\ \E f \in AmFrames :
       \/ /\ LaserOf(st, f) = {} /\ Len(st.lasers) < AmLasers
          /\ \E found \in BOOLEAN : Become(addNewScanner(st, f, found))
       \/ \E i \in LaserOf(st, f), moved, usable, resample, ok \in BOOLEAN :
            Become(AmScan(st, i, moved, usable, resample, ok))

-----------------------------------------------------------------------------
\* dynamicParametersCallback: what the parameters set have to rebuild.  More minimum
\* than maximum particles refuses the whole set (the other members stay changed).
AmReinit == SUBSET {"pf", "odom", "laser"}
AmRebuild(s, what) ==
  LET p == IF "pf" \in what THEN initParticleFilter(s) ELSE s
      o == IF "odom" \in what THEN initOdometry(p) ELSE p IN
  IF "laser" \in what THEN [o EXCEPT !.lasers = <<>>, !.frames = <<>>] ELSE o
Am_dynamicParameters == In(Amcls, "active") /\ \E what \in AmReinit : Become(AmRebuild(st, what))

AmclNext ==
  \/ Am_on_configure \/ Am_on_activate \/ Am_on_deactivate \/ Am_on_cleanup \/ Am_initialPose
  \/ Am_globalLocalization \/ Am_nomotionUpdate \/ Am_mapReceived \/ Am_laserReceived
  \/ Am_dynamicParameters

-----------------------------------------------------------------------------
\* The laser that a frame leads to exists, has its pose, and looks into the map the node
\* holds: laserReceived uses all three without a test.
LaserFollowsMap ==
  part \in Amcls =>
    \A i \in 1 .. FrameCount(st) :
      i <= Len(st.lasers) /\ st.lasers[i].posed /\ st.lasers[i].map = st.map

\* An active node localises around the pose it was last told, before or after its
\* activation; the poses it publishes are that one, and so is the transform of the same
\* scan, unless a transform it needs is missing (it then sends an older one).  A filter
\* made anew, by on_configure or by dynamicParametersCallback, is around init_pose_ and
\* the pose told before is forgotten (PoseIsKept, RemembersPose): until the next one is
\* told nothing is claimed.
PoseIsAsTold ==
  part \in Amcls =>
    ~st.lied /\ (st.at = "active" /\ st.known /\ ~st.forgot => st.pf = st.told)

\* While the node stays active and is told nothing new, its filter stays around the pose
\* it was told: new parameters ("Re-initialize the particle filter") do not move the robot.
\* It does not hold: README, Disagreements.
PoseIsKept ==
  [][In(Amcls, "active") /\ st'.at = "active" /\ st.known /\ st'.told = st.told
       /\ st.pf = st.told => st'.pf = st.pf]_<<part, st>>

\* "When pausing and resuming, remember the last robot pose so we don't start at 0:0
\* again" (initOdometry): a filter that was configured again is around the last pose.
\* It does not hold: README, Disagreements.
RemembersPose ==
  [][In(Amcls, "unconfigured") /\ st'.at = "inactive" /\ ~st.waiting => st'.pf = st.last]_<<part, st>>
=============================================================================
