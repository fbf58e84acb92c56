---------------------------- MODULE TeachRepeat -----------------------------
(***************************************************************************)
(* A validation of teach and repeat in the simulator: sim_route_driver.py  *)
(* drives a lap of the road, the stations it passes are saved              *)
(* (route_file.py), the follower loads them, builds its path (path.py) and *)
(* keeps its station on it from the simulated fixes while it drives.  How  *)
(* stations are recorded is in RouteRecorder, the choice of an offset and  *)
(* of a speed in RouteFollower.                                            *)
(***************************************************************************)
EXTENDS SimRouteDriver, SimSensors, RouteFile

CONSTANTS
    TeachAside,     \* where along the lap the vehicle may step aside when taught,
                    \* for each of TaughtSources
    RepeatAside,    \* and when it repeats: further than Window from a bend
    Sidestep,       \* how far, to its left
    MaxLag,         \* how far it gets, in points, without a new fix or control
    TaughtSources,  \* what the recorder may record
    TaughtSigma,    \* of the stations, in half millimetres
    Step, Smooth,   \* of Path
    Window,         \* window_m of Path.project
    Trigger,        \* how far ahead the follower asks for stations
    SigmaStop,      \* fix_stop_sigma_m
    Slack           \* how far the station may be from the truth

ASSUME RepeatAssumption ==
    /\ Sidestep \in Nat /\ MaxLag \in Nat \ {0} /\ TaughtSigma \in Nat
    /\ Step \in Nat \ {0} /\ Smooth \in Nat /\ Window \in Nat /\ Trigger \in Nat
    /\ SigmaStop \in Nat /\ Slack \in Nat
    /\ TaughtSources \subseteq {SOURCE_ODOMETRY, SOURCE_RAW_ANTENNA}

VARIABLES
    phase,          \* teach, save, load, build, repeat or stopped
    pos, aside,     \* the vehicle: point reached on the lap, offset from it
    lag, fixAge,    \* points passed since the last control, the last fix
    taught,         \* the stations recorded
    taughtSource,   \* and from what
    disk,           \* the lines of the route file
    route, path,    \* the follower's _route and _path
    s, progress,    \* its _s and _travelled
    go              \* its newest command moves the vehicle

vehicle == <<pos, aside, lag, fixAge>>
follower == <<route, path, s, progress, go>>
teachVars == <<driver, sensors, phase, vehicle, taught, taughtSource, disk, follower>>

Sample(xy) == [xy |-> xy, fix |-> "fixed", sigma |-> TaughtSigma]

\* The lap's point k and the direction there, of the road or of the path.
LapPoint(k) == IF phase = "teach" THEN Point(k) ELSE At(path, k % Size(path))
LapTangent(k) == IF phase = "teach" THEN Minus(Point(k + 1), Point(k))
                 ELSE path.tangent[(k % Size(path)) + 1]

\* Sidestep units to the left of it.
Where(k, side) ==
    LET t == LapTangent(k)
    IN  <<LapPoint(k)[1] - (side * t[2]) \div Hypot(t),
          LapPoint(k)[2] + (side * t[1]) \div Hypot(t)>>

\* East or west is as much of a yaw as is told apart.
Heading(k) == IF LapTangent(k)[1] > 0 THEN <<1, 0>> ELSE <<-1, 0>>

TeachInit ==
    /\ DriverInit /\ SensorsInit
    /\ phase = "teach"
    /\ pos = 0 /\ aside = 0 /\ lag = 0 /\ fixAge = 0
    /\ taught = <<Sample(Point(0))>>
    /\ taughtSource \in TaughtSources
    /\ disk = <<>>
    /\ route = Refused /\ path = Nothing
    /\ s = NoHint /\ progress = 0 /\ go = FALSE

-----------------------------------------------------------------------------
(* The vehicle and ground truth *)

\* It stays or gets to the next point of the lap, on it or beside it.
Moves(forward) ==
    \/ UNCHANGED <<pos, aside, lag, fixAge>>
    \/ /\ forward
       /\ lag < MaxLag /\ fixAge < MaxLag
       /\ pos' = pos + 1
       /\ aside' \in IF pos' \in (IF phase = "teach" THEN TeachAside[taughtSource] ELSE RepeatAside)
                     THEN {0, Sidestep} ELSE {0}
       /\ lag' = lag + 1 /\ fixAge' = fixAge + 1

\* The bridge publishes the pose; the driver and the heading simulator take it.
TeachTruth ==
    /\ phase = "teach"
    /\ Moves(drvCmd.speed > 0)
    /\ OnTruth(Where(pos', aside'))
    /\ GnssOnTruth(Heading(pos'))
    /\ taught' = IF pos' # pos /\ pos' < Count THEN Append(taught, Sample(Where(pos', aside')))
                 ELSE taught
    /\ UNCHANGED <<phase, taughtSource, disk, follower>>

\* At most one lap is repeated.
RepeatTruth ==
    /\ phase = "repeat"
    /\ Moves(go /\ pos < Size(path))
    /\ GnssOnTruth(Heading(pos'))
    /\ UNCHANGED <<driver, phase, taught, taughtSource, disk, follower>>

SimFix ==
    /\ phase \in {"teach", "repeat"}
    /\ \E east, north \in -Tails .. Tails : GnssOnFix(Where(pos, aside), east, north)
    /\ fixAge' = 0
    /\ UNCHANGED <<driver, phase, pos, aside, lag, taught, taughtSource, disk, follower>>

Sensor(action) ==
    /\ action
    /\ UNCHANGED <<driver, phase, vehicle, taught, taughtSource, disk, follower>>

-----------------------------------------------------------------------------
(* Teach, save, load *)

Teach ==
    /\ phase = "teach"
    /\ DriverControl
    /\ lag' = 0
    /\ UNCHANGED <<sensors, phase, pos, aside, fixAge, taught, taughtSource, disk, follower>>

Text == dumps([source |-> taughtSource, loop |-> TRUE, lane |-> 2, datum |-> 0, samples |-> taught])

\* save opens the file for writing, which empties it.
Open ==
    /\ phase = "teach" /\ finishedMsg
    /\ phase' = "save"
    /\ disk' = <<>>
    /\ UNCHANGED <<driver, sensors, vehicle, taught, taughtSource, follower>>

Write ==
    /\ phase = "save"
    /\ disk' = Append(disk, Text[Len(disk) + 1])
    /\ phase' = IF Len(disk') = Len(Text) THEN "load" ELSE "save"
    /\ UNCHANGED <<driver, sensors, vehicle, taught, taughtSource, follower>>

\* The machine stops with the file cut at any place.
Crash ==
    /\ phase = "save"
    /\ disk' \in {disk, Append(disk, Torn)}
    /\ phase' = "load"
    /\ UNCHANGED <<driver, sensors, vehicle, taught, taughtSource, follower>>

Accepted(r) == ~r.refused /\ is_base_link(r)

\* The simulator is launched anew, with the follower in the driver's place and
\* the vehicle at the start.
LoadRoute ==
    /\ phase = "load"
    /\ LET r == loads(disk)
       IN  \/ ~Accepted(r) /\ phase' = "stopped" /\ UNCHANGED route
           \/ Accepted(r) /\ phase' = "build" /\ route' = r
    /\ pos' = 0 /\ aside' = 0 /\ lag' = 0 /\ fixAge' = 0
    /\ SensorsLaunch /\ DriverGone
    /\ UNCHANGED <<taught, taughtSource, disk, path, s, progress, go>>

\* fromLL is taken for exact; Path raises if there is only one point.  A route
\* that was cut closes on itself by a chord; the operator, who has its number of
\* samples from the log, does not drive it.
TryBuildPath ==
    /\ phase = "build"
    /\ LET points == [k \in DOMAIN route.samples |-> route.samples[k].xy]
       IN  /\ IsPath(points, route.loop)
           /\ path' = MakePath(points, route.loop, Step, Smooth)
    /\ phase' = IF Len(route.samples) = Len(taught) THEN "repeat" ELSE "stopped"
    /\ UNCHANGED <<driver, sensors, vehicle, taught, taughtSource, disk, route, s, progress, go>>

-----------------------------------------------------------------------------
(* Repeat *)

\* _control as far as the station and the stop on a poor fix; its pose is the
\* newest fix, once the filter has a heading and an odometry to go with it.
Follow ==
    /\ phase = "repeat"
    /\ fix # Nothing /\ headingMsg # Nothing /\ odom # {}
    /\ LET here == project(path, fix.xy, s, Window).s
       IN  /\ s' = [s |-> here]
           /\ progress' = IF s = NoHint THEN progress
                          ELSE progress + forward_gap(path, s.s, here)
    /\ go' = (fix.sigma < SigmaStop)
    /\ lag' = 0
    /\ UNCHANGED <<driver, sensors, phase, pos, aside, fixAge, taught, taughtSource, disk, route, path>>

TeachNext ==
    \/ TeachTruth \/ Teach \/ Open \/ Write \/ Crash
    \/ LoadRoute \/ TryBuildPath
    \/ RepeatTruth \/ Follow
    \/ SimFix
    \/ Sensor(PublishHeading)
    \/ Sensor(OnOdomSim)
    \/ phase = "repeat" /\ \E v \in Sigmas : Sensor(SetSigma(v))

TeachSpec == TeachInit /\ [][TeachNext]_teachVars

-----------------------------------------------------------------------------
(* Properties *)

TeachTypeOK ==
    /\ phase \in {"teach", "save", "load", "build", "repeat", "stopped"}
    /\ pos \in Nat /\ aside \in {0, Sidestep}
    /\ lag \in 0 .. MaxLag /\ fixAge \in 0 .. MaxLag
    /\ index \in 0 .. Count - 1 /\ travelled \in Nat
    /\ go \in BOOLEAN /\ progress \in Int

\* The way along the road to its point k, and what stepping aside added on the way there.
RoadTo(k) == SumFunction([j \in 0 .. k - 1 |-> Hypot(Minus(Point(j + 1), Point(j)))])
Detour(k) ==
    SumFunction([j \in 1 .. k |-> Hypot(Minus(taught[j + 1].xy, taught[j].xy))]) - RoadTo(k)

\* The driver keeps its place and ends its lap where the lap ends: its index is
\* never ahead of the vehicle nor further behind than it got since the last
\* control, although the other side of the hairpin may be nearer (_advance
\* looks forward only); no control lets it drive on past the lap; and the part
\* of the lap it leaves untaught is no longer than what stepping aside added
\* to the distance driven, which is what ~/finished is decided on (_on_truth).
LapTaught ==
    /\ phase = "teach" /\ ~done /\ pos < Count => pos - index \in 0 .. lag
    /\ phase = "teach" /\ ~done => pos < Count + lag
    /\ finishedMsg /\ pos < Count => RoadLength - RoadTo(pos) <= Detour(pos)

\* What the follower accepts was recorded in base_link and is the beginning of
\* what was taught, long enough for a spline, and all of it unless the save was
\* cut; a file cut anywhere is otherwise refused (loads, _load_route).
LoadedIsPrefix ==
    phase \in {"build", "repeat"} =>
        /\ taughtSource # SOURCE_RAW_ANTENNA
        /\ route.loop
        /\ Len(route.samples) >= MinSamples
        /\ IsPrefix(route.samples, [k \in DOMAIN taught |-> Rounded(taught[k])])
        /\ Len(disk) = Len(Text) => Len(route.samples) = Len(taught)

\* While the follower drives, its distance along the path and its station are
\* those of the vehicle up to Slack, over the whole lap, past the hairpin and
\* the end of the loop and after any spell of poor fixes; and a return on the
\* path ahead is placed as far ahead as it is, to the rounding of an index and
\* of the loop's last step (project with its hint, forward_gap, stations_of,
\* the stop on sigma).
StationTrue ==
    phase = "repeat" /\ go =>
        /\ AbsVal(progress - pos * Step) <= Slack
        /\ AbsVal(forward_gap(path, wrap_s(path, pos * Step), s.s)) <= Slack
        /\ \A d \in {2 * Step, 3 * Step} :
              LET seen == stations_of(path, pose_at(path, s.s + d), s.s, s.s + Trigger)
              IN  seen.interior
                  /\ AbsVal(forward_gap(path, s.s, wrap_s(path, seen.s)) - d) <= Step + Step \div 2
=============================================================================
