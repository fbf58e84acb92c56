# Outdoor patrol: a TLA+ model of the robot's software

The repository is the ROS 2 workspace of a small outdoor patrol robot. A route
is taught by driving it once (`route_recorder`), then repeated on its own
(`route_follower`) with RTK GNSS as the position source and a 2D LiDAR as the
only view of what is in the way. This directory models the parts that decide
when the robot moves, the parts that bring its position and the corrections for
it, the simulator's part of a teach-and-repeat validation and the bench tools
that drive the motors; checks them with TLC and proves the central ones with
TLAPS.

Run a model with `tlc -workers 2 -config <file>.cfg <module>`, a proof with
`tlapm <module>.tla`. `PROJECT.json` lists the runs, the mutants each property
was tested with, the source lines behind each definition, the hazards and the
theorems.

## 1. Inventory

Paths are below `src/src/` unless they begin with `scripts/`.

| Component | State it keeps | Operations | Talks to |
|---|---|---|---|
| Forward brake, `outdoor_patrol_safety/scan_safety_node.py` | newest scan, held command, their arrival times, cached sector | `_on_scan`, `_on_cmd`, `_on_tick` | reads `/scan`, `/cmd_vel_raw`; writes `/cmd_vel` to the firmware |
| Route follower, `outdoor_patrol_route/route_follower.py`, `path.py` | path, pose, progress, commanded and committed offset, hysteresis streak, scan, fix quality | `_control` (timer), `_on_odom`, `_on_fix`, `_on_scan`, set-up timers | reads odometry, fix, scan; calls `fromLL`; writes `/cmd_vel_raw` |
| Route recorder, `route_recorder.py`, `route_file.py` | station buffer, anchor, yaw, fix class, lever arm | `_on_odom`, `_on_fix`, `~/save`, `~/discard` | calls `toLL`; writes the route file the follower loads |
| IMU driver, `imu_driver/` | lifecycle state, descriptor, read thread, sample block, health counters | lifecycle callbacks, `read_loop`, diagnostics | serial device; publishes `Imu` to the filters |
| NTRIP client, `ntrip_client/ntrip_client_node.cpp`, `posix_io.hpp`, `rtcm_framer.cpp` | socket, io thread, reader thread, framer buffer, newest GGA, backoff | `run`, `one_session`, reader, GGA subscription, destructor | caster over TCP; publishes RTCM to the receiver driver |
| RTCM relays, `tcp_rtcm_relay_node.cpp`, `serial_rtcm_relay_node.cpp` | descriptors, io thread, framer | connect, accept or open, read, destructor | a local base over TCP or radio; publish RTCM |
| Base report, `outdoor_patrol_loc/scripts/rtcm_base_info.py` | base, antenna, rover, counts | `_on_rtcm`, `_on_fix`, listening loop, report | reads what client or relay publish |
| UM982 driver, `um982_driver/` | as the IMU driver, plus last GST and its age, fix quality, splitter state | lifecycle, `read_loop`, RTCM subscription, diagnostics | GNSS receiver; publishes fix, heading, NMEA |
| Confidence gate, heading bridge, `outdoor_patrol_loc/src/` | none but a log flag | one callback each | between receiver driver and filters |
| EKF, navsat_transform | external (robot_localization) | configured only | odometry and `toLL`/`fromLL` for recorder and follower |
| Simulation, `outdoor_patrol_sim/` | driver: index, distance, done; sensors: noise, last truth | `sim_route_driver`, `gnss_heading_sim`, `odom_sim`; road generator, launch, scripts | stands in for a teacher and for sensors |
| VESC tuning, `scripts/vesc_tune/` | link with a reader thread and queue; search state | `vesc_tune` subcommands, `analyze_step`, `auto_tune` | the motor controller's command line |
| Scoring, soak analysis, road generator, launch files | - | offline, or wiring | - |
| Firmware | external | its own 500 ms command watchdog | receives `/cmd_vel` |

The robot moves on this chain: receiver driver -> gate and heading bridge ->
filters -> follower -> brake -> firmware. Corrections for the receiver come over
the NTRIP client or a relay. Every link is a ROS topic: messages may be late,
repeated or stop without notice, and each consumer has its own idea of "too
old".

What is hard in it:

* **Stale data.** Each node keeps the last message and a time stamp. Whether the
  stamp is looked at on every path is a matter of control flow (an early return
  before the age test is enough to lose it). The receiver sends a position and
  its accuracy in two sentences, which the driver joins by age.
* **A robot already moving.** The brake gates a command when it arrives; the
  obstacle may come later and the source stay silent.
* **Threads.** The recorder's services run in parallel with its subscriptions
  under a `MultiThreadedExecutor` without a lock. The drivers, the relays and the
  NTRIP client have blocking reads in their own threads and must be able to end
  them; descriptors are handed over through atomics. The tuning tool has a reader
  thread and an interrupt handler that runs between any two steps.
* **Silence.** A caster or a device that stops talking looks like one that has
  nothing to say; a watchdog has to tell, and has to be armed.
* **Byte streams.** Reads are cut anywhere, noise looks like a header, a line
  loses bytes, a connection ends inside a frame.
* **Loops and seams.** Progress on a closed route is summed from noisy
  projections across a seam; on a hairpin the nearest point of the road may be on
  the way back; bearings wrap at 180 degrees just where the LiDAR, mounted
  backwards, looks ahead.
* **Files written in place.** A crash during `~/save` leaves the beginning of a
  route, which is YAML all the same.

What makes each component correct:

* brake: no forward command past an obstacle or a stale scan, also for a robot
  in motion and a silent source; reverse and rotation never cut; a dead source
  becomes a stop and then silence, so that the firmware's watchdog trips;
* follower: stays in the corridor, moves only on a fresh trustworthy fix, counts
  its laps right, ends, and comes back to its lane;
* recorder and route file: what is saved is what was driven, each station paired
  with its own conversion; what is loaded is what was saved, or refused;
* path: the station found is the vehicle's, over the whole lap;
* IMU driver: port and thread follow the lifecycle, each message is a mean over
  one activation, a dead stream is reported, transitions come back;
* NTRIP client and relays: one owner for a connection, sessions do not leak into
  each other, what is published is exactly the frames that came, corrections flow
  from any caster that can be relied on, the client's destructor returns;
* GNSS chain: a fix reaches the filters at face value only with a recent fixed
  solution behind it (the code misses this for a receiver whose sigma fields are
  empty, see `gnss_gate`), every yaw is the robot's, a fixed solution gets there, a
  lost one is reported;
* tuning: a tool that ends leaves the motors stopped; the search reports gains that
  no trial beat by more than the noise, and ends with a trial of them (it neither
  rejects every failure nor knows that gains were taken, see section 6).

## 2. Modules

| Module | Models | Notes |
|---|---|---|
| `ScanSafety` | the brake | one action per callback plus `Elapse`; time stamps are ages |
| `RouteFollower` | the follower's control | the path straightened to a line or a circle of stations; `_pursue`'s geometry is an arbitrary speed and turn |
| `RouteRecorder` | the recorder | callbacks broken into the steps between which the other thread can act |
| `RoutePath` | `path.py` | Savitzky-Golay smoothing, dedupe, resampling, projection in a window, in whole decimetres |
| `RouteFile` | `route_file.py` | the route as lines, and back |
| `SimRouteDriver`, `SimSensors` | the simulator's driver and sensors | |
| `TeachRepeat` | a validation | composes the four above: teach a lap, save, crash, load, repeat |
| `ImuDriver` | IMU driver | lifecycle callbacks, read thread and device |
| `NtripClient` | NTRIP client | io thread, reader, destructor, caster |
| `RtcmFramer` | `rtcm_framer.cpp` | byte by byte over a small alphabet |
| `FrameFeed` | - | abstract: a connection's frames, each once and in order |
| `RtcmRelay` | the three relays | extends `RtcmFramer`, implements `FrameFeed` |
| `BaseInfo` | `rtcm_base_info.py` | composed with `RtcmRelay`, whose messages it hears |
| `Um982Parsers`, `Um982Driver` | UM982 driver | sentences as records, lines cut into pieces; lifecycle, io thread, diagnostics |
| `GnssLoc`, `GnssChain` | confidence gate, heading bridge; the chain | `GnssChain` composes driver and adapters |
| `VescTune` | `vesc_tune.py` | main thread, reader thread, Ctrl-C, controller |
| `StepMetrics`, `AutoTune` | `analyze_step.py`, `auto_tune.py` | the figures of a capture; the gain search |
| `ScanSafetyProofs`, `NtripClientProofs`, `RouteRecorderProofs`, `RouteFollowerProofs`, `ImuDriverProofs`, `RtcmRelayProofs`, `GnssChainProofs`, `TuningProofs` | - | theorems about the module they extend; `RouteRecorderProofs` is also about `TeachRepeat`, `TuningProofs` about `AutoTune` and `VescTune`, `RtcmRelayProofs` about `BaseInfo` and with it the relays |

`*MC` modules hold the small sets the configurations use; `TuningMC` also puts the two
scripts side by side, of which one is run. A definition that
begins another's name and ends in `_Something`, with a comment that begins
"mutant", is a wrong variant of it that some property must catch; no
specification uses one.

**ScanSafety.** `scan`, `cmd`, `sector` are `_scan`, `_cmd`, `_sector`; the age
variables are the code's time stamps seen from now. `Publish` is `_publish` with
`_sector_indices` and `_forward_min` under it; it is shared by `OnCmd` and
`TickRegate` as in the code. `Facing` is an independent definition of the beams
ahead, written from the geometry and not from the code, and what the properties
use. `unsafeFor` and `rawAge` are histories.

**RouteFollower.** `Control` is `_control`: `Localise` is its head, then one of
`ControlFinish`, `ControlBlocked`, `ControlDrive`. `BlockedOffsets`,
`ChooseOffset`, `RampToward`, `FixPenalty` and `HorizontalSigma` carry the code's
names. Stations and lateral distances are integers; one lateral unit is what the
ramp moves in a cycle at unit speed, so the ramp's scaling by the last commanded
speed and its floor are kept.

**RouteRecorder.** `pend` is the subscription callback in progress, `serve` the
service callback. A check and the use of what was checked are two steps
(`CheckBuffer`, `ComparePrevious`; `LocalAnchor`, `LocalMetric`), because
`~/discard` can come in between. An exception that leaves a callback ends the
node (`crashed`).

**RoutePath, RouteFile, SimRouteDriver, SimSensors, TeachRepeat.** A lap of a
hairpin whose two sides are closer than the projection window is driven by
`SimRouteDriver` from ground truth (`Teach`), the stations passed are dumped line
by line (`Open`, `Write`), the machine may crash after any line (`Crash`), what
is on disk is loaded and refused or accepted (`LoadRoute`), the path is built
from it (`TryBuildPath`) and repeated: `SimFix` makes a fix with the noise and
covariance of a sigma that is changed at any time, `Follow` is the part of
`_control` that projects the pose with the previous station as its hint, sums
progress and stops on sigma. Lengths are decimetres, the spline between two
stations is the chord, the EKF is the newest fix, headings are east and west.
`SmoothingExact` is checked as an assumption: the modelled smoothing reproduces
quadratics, as Savitzky-Golay's definition demands.

**ImuDriver.** `call` is the callback that is waiting for something on the
single-threaded executor. The port is a tty: `::shutdown()` on it fails and
`::close()` does not wake a blocked `read()`.

**NtripClient.** `pc` is the io thread, `rd` the reader, `dtor` the destructor.
The descriptor (`sockFd`, the atomic `sock_fd_`) and the socket behind it
(`sock`) are separate, so that taking one out of the atomic, shutting it and
closing it can interleave. `net`, `mute` and `served` describe the caster. A
caster that is "good" takes connections, answers, and sends a frame in time once
it has a position (`FrameDue`); anything may happen with a bad one, including an
answer that never comes (`mute`).

**RtcmFramer, RtcmRelay, FrameFeed, BaseInfo.** A byte is one of four values, the
checksum one byte that depends on the order of what it covers.
`try_extract_frames` is the framer's loop as a recursive function of its buffer.
`FrameFeed` defines the frames of a byte sequence by positions, without a buffer,
and its specification says: a connection's output is the frames of some prefix
of its bytes and only grows, and starts over with the next connection.
`RtcmRelay` has `wire` and `out` for it; `ImplementsFeed` is the refinement.
`BaseInfo` adds the listening tool: its queue of `Depth` messages, its second
parser (`iter_rtcm`, no checksum, reserved bits masked), what it learns, and the
report it would give at any moment.

**Um982Parsers, Um982Driver, GnssLoc, GnssChain.** A tick is a second. The
receiver's `sky` is what it really has; a sentence reports it, is cut into pieces
by reads and may lose one. `publish_gga` joins it with the newest GST if that is
fresh. The gate and the bridge answer every message with a function of it, so
the chain reads what reaches the filters off what the driver publishes.

**VescTune, StepMetrics, AutoTune.** One run of a subcommand over either
transport. An answer carries the command it answers, which the tool cannot see;
`AnswersMatch` can. Ctrl-C is a step of the main thread that may come anywhere.
`AutoTune` runs the tool as a child and sees its result, which for a change of gains
says little: the repl reads its commands from a pipe, sends them and closes without
waiting for the answers. `took` and `inForce` are what the controller really did
(`Sent`), independent of what `apply_gains` returned (`Apply`). `costOf` and `least`
are histories. The figures of a capture come from `StepMetrics`, whose `detect_side`
is checked in the assumption `SideDetected`.

## 3. Runs

Each run takes about two minutes or less with two workers. "Passes" means every
property named for the run holds; a violated run checks one claim of the
repository's comments and stops at its counterexample.

| Run | Configuration | Distinct states | Result |
|---|---|---|---|
| `scan_safety` | `ScanSafetyMC.cfg` | 43 thousand | passes |
| `route_follower` | `RouteFollowerMC.cfg` | 602 thousand | passes |
| `route_progress` | `RouteProgressMC.cfg` | 28 thousand | passes |
| `route_stale_scan` | `RouteStaleScanMC.cfg` | - | violated |
| `route_recorder` | `RouteRecorderMC.cfg` | 1.05 million | passes |
| `teach_repeat` | `TeachRepeatMC.cfg` | 460 thousand | passes |
| `imu_driver` | `ImuDriverMC.cfg` | 760 thousand | passes |
| `ntrip_client` | `NtripClientMC.cfg` | 1.06 million | passes |
| `rtcm_relay` | `RtcmRelayMC.cfg` | 2.32 million | passes |
| `gnss_chain` | `GnssChainMC.cfg` | 256 thousand | passes |
| `gnss_gate` | `GnssGateMC.cfg` | - | violated |
| `tuning` | `TuningMC.cfg` | 930 thousand | passes |

**scan_safety** (`TypeOK`, `BrakeLatency`, `GateSound`, `DeadSourceSilence`,
`BackOut`). Two scan geometries with four beams each, so that robot-forward is
another index in each and the sector lies on the seam in one; obstacles ahead and
behind; forward, reverse and turning commands; a period of 2 units and timeouts
of 3. `AgeCap` is the first value past every threshold, so capping ages merges
only states no guard tells apart. Two geometries are enough to meet a stale
cache, and a timeout that is no multiple of the period meets every phase of the
timer.

**route_follower** (`CorridorKept`, `FixGovernsMotion`, `ClearOrReturning`). An
open route of 4 stations, three candidate offsets, scans that block the centre,
the shoulder, both or all, fixes that are good, degraded on one axis, or without
a covariance. Three offsets are the least with an inner, a middle and an outer
one. `ClearOrReturning` allows for what the debounce does: for the few cycles of
a way back in that has begun, the follower heads for an offset that is blocked
again.

**route_progress** (`ProgressIsReal`, `PatrolEnds`, `ReturnsToLane`). A loop of 5
stations, one lap, odometry that lags one station at times, so that the seam is
crossed back and forth. `MaxPos` lets the vehicle go past the lap; `MaxGap` (2)
keeps one cycle's travel inside the search window and below half the loop, as the
code's window and its control rate do.

**route_stale_scan** (`StaleScanStops`). `_blocked_offsets` returns early for a
scan without returns, before its age is looked at. A LiDAR that dies after an
empty scan is not noticed by the follower (the brake below it does notice).

**route_recorder** (`SavePairsStations`, `RouteUsable`, `FaultNeedsDiscard`,
`DiscardStartsOver`). Both corrected sources, up to 3 stations of which 2 are
needed to save, two discards at any time: three stations for one to be added
during a save, two discards for the second to hit what the first left.

**teach_repeat** (`LapTaught`, `LoadedIsPrefix`, `StationTrue`). A closed lap of
17 m with two straight sides 12 dm apart, a station every 8 dm. The vehicle may
step 8 dm aside towards the other side, where it is nearer than its own, up to five
times in the teaching of a route recorded at the antenna, which the follower refuses,
once in the teaching of one that is repeated, and twice in the repeating; up to two points go by without a control
or a fix; sigma is 0 or 3 dm, with noise of one deviation, and the follower stands
on more than 2. Road and window (3 m) are scaled down together (the code's window is
8 m): what matters is that the other side is nearer than the window is long, and
further along the path. `Slack` is 4 m, the window and a station. Steps aside are taken
further than a window from a bend. Nearer, or with noise near the distance of the
sides, the projection can take the other side for its own, and a spell of poor fixes
can drag the hint along: the code relies on the follower standing still on a poor fix
and on a road wider than its noise, and so does the property. A
route that was cut is loaded but not driven: the operator sees the number of
samples in the log.

Each step aside adds 4 dm to the distance driven, and a lap ends on that distance: with
four of them `~/finished` comes with one point of the lap untaught. `LapTaught` states
just this tolerance: the part that is missing is no longer than what stepping aside
added. A single one, less than the last edge, always gives a whole lap, so the routes
that are repeated are whole unless the save was cut.

**imu_driver** (`LifecycleOwnsIo`, `MeanOfOneActivation`, `DeadStreamReported`,
`CallsReturn`). Two activations, so that something of the first can be left for
the second; blocks of two samples; a device that streams from power-on or not, is
unplugged at any time, and a queue of two frames.

**ntrip_client** (`TypeOK`, `DescriptorOwned`, `SessionBytes`, `StallIsReal`,
`CorrectionsFlow`, `DestructorReturns`). Version "auto", a watchdog of 3 ticks, an
upload period of 4, naps of 1 or 2 ticks: the period is longer than the
watchdog's patience, as with the defaults (10 s and 5 s). Sessions are not
counted, so any number of reconnections happens. The destructor may come at any
step, in particular between the check of `running_` and the `recv()` after it.

**rtcm_relay** (`ConnectionOwned`, `ImplementsFeed`, `BaseReported`). All three
roles and five streams: two frames in a row, noise and a doubled preamble before
a frame, a false header that covers a frame, a frame inside a frame, and the same
with a bad checksum so that only the inner one counts. Reads end anywhere, the
connection breaks anywhere and the framer meets the next connection; the number
of connections is not bounded. The listening tool runs beside the serial relay
(`ToolRole`) while that is not being destroyed; its queue holds one message, so
that some are lost, and it hears at most two (`MaxHeard`): the last of two station
descriptions, or one with an antenna. The relay does not see the tool
(`ToolOnlyListens` proves it), so the first two properties say of the relay what
they would say of it alone. The assumption `FramerChecked` has TLC evaluate the law of the framer
(`FramerLaw`) on these streams; `FramerLawHolds` proves it for all.

**gnss_chain** (`GatePassesFixed`, `YawTrue`, `FixLossReported`, `RtkReachesEkf`). A
receiver that has no fix, a single-point solution with one good axis, or a fixed
solution with a baseline, changes at any time, restarts, is unplugged; sentences cut in two and parts
lost. `GstStale` is 2 ticks as in the code. `GatePassesFixed` excepts fixes whose
variances are both 0 because the fields of the last GST were empty.

**gnss_gate** (`GateTruth`). The same without the exception, which is what
`confidence_gate.cpp:21` says: only RTK-Fixed passes. A receiver without a fix sends a
GST with empty fields, gets a single-point solution and sends a GGA within two seconds:
the fix is published with variances of 0 and passes the gate unchanged.

**tuning** (`AnswersMatch`, `StopLast`, `ClientReturns`, `BestOfSearch`,
`BestInForce`). Either script is run and the other rests (`TuningMC`): the search has
the tool for a child, of which it sees only the result. Of the tool every subcommand, both
transports, two typed lines, at most three pieces on the way (`MaxBacklog`): the
least in which an answer, telemetry and half a line wait together. Of the search two
cycles over the three gains, two steps, two repeats; captures that overshoot, draw too
much current (which the average with a good one hides) or are missing. The costs this
gives differ by less than the margin and by more, and hold no sentinel, one or two
(`Scores`). The gains may be taken or not whatever `apply_gains` says. `BestOfSearch`
does not say that the best did not fail, nor `BestInForce` that the gains of any
earlier trial were in force.

Every property was also run against a mutant of a mapped definition (a dropped
guard, a missing reset, a swapped order) that breaks it. The `TypeOK` of modules
whose run does not list it was checked with TLC when the module was written.

### Fairness

* follower: the control timer, the odometry, and a commanded chassis that moves.
  `PatrolEnds` and `ReturnsToLane` assume a healthy way from some time on.
* IMU driver: the executor, the read thread, and a streaming device. `read()` is
  strongly fair: signals may interrupt it again and again, but not so that bytes
  never get through. Nobody need ask for a transition.
* NTRIP client: the io thread, the reader's own steps, a shut socket that ends
  `recv()`, and frames from a caster only while it is good. `CorrectionsFlow` asks
  for a caster that is good from some time on and does not cover a connection
  that was taken by a mute one before.
* GNSS chain: the io thread, the joins, the diagnostics timer; strong fairness of
  whole GGA and GST sentences, because lost bytes damage some and not all.
* tuning tool: its main thread and its three deadlines, which are clock tests. The
  reader and the controller may be as slow as they like.
* brake, recorder, relay, teach-and-repeat, search: safety only, no fairness; the
  brake's timer cannot be overtaken by time, which stops at its deadline.

`CHECK_DEADLOCK FALSE` is set where the system may really stop: a recorder that
crashed, a finalized driver, a client or relay that was destroyed, a repeat that
has ended.

## 4. Proofs

`ScanSafetyProofs` proves, for every set of scans and commands and every choice of
angles, distances, periods and timeouts within the assumptions:

| Theorem | States |
|---|---|
| `TypeCorrect` | `Spec => []TypeOK` |
| `BrakesInTime` | `Spec => []BrakeLatency` |
| `DeadSourceStops` | `Spec => []DeadSourceSilence` |
| `BacksOut` | `Spec => []BackOut` |
| `PubTimeKnown` | `Spec => []PubTimeSet` |
| `GatesSoundly` | `Spec => GateSound` |

Assumptions: `TimeAssumption` (a positive period, `AgeCap` past the thresholds),
`GeometryAssumption` (integer angles, a half angle of at most 180) and
`MessageAssumption` (commands are Twists, `None` is no message).

`BrakeLatency` is not inductive: it speaks of what the chassis was told and of how
long the way has been impassable, while what keeps it is when the command was last
gated and when the timer fires next. The inductive invariant `IInv` adds

* `MovingIsGated`: while a forward command stands, the time it has been unsafe is
  bounded by the age of the last gating and the phase of the timer;
* `HeldIsYoung` and `SilentAfterExpiry`: the same argument for the command's own
  timeout and for the silence after the single zero Twist;
* `CacheSound`: the cached indices are those of the cached geometry;
* `UnsafeCounts`: `unsafeFor` is 0 while the way is passable;
* `PubTimeSet` and `BackOut`, which are inductive beside it.

`SectorIsAhead` proves that the code's wrapped difference selects exactly the beams
of `Facing`, on whatever side of the seam forward lies. Each action then has a
lemma, `NextIInv` joins them and `InvariantHolds` is the temporal step.

`NtripClientProofs` proves, for every version, period, timeout and backoff within
`ClientAssumption` (naturals, and the least backoff not above the greatest):

| Theorem | States |
|---|---|
| `TypeCorrect` | `Spec => []TypeOK` |
| `OneOwner` | `Spec => []DescriptorOwned` |
| `SessionsApart` | `Spec => []SessionBytes` |
| `StallsAreReal` | `Spec => StallIsReal` |

`DescriptorOwned` alone is not inductive: that a session's end leaves the socket
closed depends on who took the descriptor. `IInv` adds that `running_` is cleared by
the destructor only (`StoppedByDtor`), that a descriptor the destructor took never
returns to `sock_fd_` and is never closed (`TakenOnce`), that a session shows its
socket unless the node is going down (`SessionShowsSocket`), that the end of a
session leaves it closed with the same exception (`SessionClosed`), and that the
watchdog's clock is the age of the stream (`WatchdogClock`).

`RouteRecorderProofs` proves, for any number of stations, every sampling distance,
lever arm and set of positions within `RecorderAssumption`, and of `TeachRepeat` for
every road, lap, noise and crash:

| Theorem | States |
|---|---|
| `SavesPairStations` | `Spec => []SavePairsStations` |
| `RoutesAreUsable` | `Spec => []RouteUsable` |
| `FaultsNeedDiscard` | `Spec => []FaultNeedsDiscard` |
| `DiscardsStartOver` | `Spec => []DiscardStartsOver` |
| `OnlyTheTaughtLoads` | `TeachSpec => []LoadedIsPrefix` |

None of the first four is inductive: a check and the use of what was checked are
different steps of one callback, with the other callback group in between. `IInv`
adds, for each place the subscription callback can be at, what it may still rely on
(`Pending`: what it compared its station with is the end of the buffer, or a discard
has emptied it under the callback), the same for the service (`Saving`: what it
converted and paired is the beginning of the buffer, which only grows meanwhile),
what the buffer holds (`Recorded`) and what is on disk (`Written`), both in one frame
of coordinates as long as nothing was discarded (`Framed`).

`OnlyTheTaughtLoads` is about the file between the two nodes. `LoadedIsPrefix` speaks of
the loaded route only; `TeachIInv` adds what leads to it: during the save the file is
the beginning of what `dumps` writes, and when it is loaded it is that or has a line
that YAML refuses. The lemmas about `dumps` and `loads` are by the position of a line
(`DumpsLines`, `LoadsLines`: the samples read are those of the lines after the six of
the head; `TornRefused`), so that a file cut at any line gives the samples up to the
cut and no others.

`RouteFollowerProofs` proves, for every path length, window, corridor, candidate set,
debounce threshold and set of scans and fixes within `FollowerAssumption`:

| Theorem | States |
|---|---|
| `TypeCorrect` | `Spec => []TypeOK` |
| `StaysInCorridor` | `Spec => []CorridorKept` |
| `FixGoverns` | `Spec => FixGovernsMotion` |
| `HeadsForClear` | `Spec => ClearOrReturning` |
| `ProgressIsMeasured` | `Spec => []ProgressIsReal` |

`ProgressIsMeasured` needs `OdometryAssumption` too: between two cycles the vehicle
goes no further than the search window and, on a loop, less than half of it, and
odometry noise is within the same bound. That is what the code's window, control
rate and speed limit provide; with more, the nearest station of a lap is ambiguous.
The invariant `Tracked` ties the summed progress to the positions seen, and the
lemmas on `Path.project` and on the wrapped difference show that one cycle adds
exactly the way between two of them, on either side of the seam. What `Path.project`
returns is a least element, whose existence is the one use of well-foundedness.

`ImuDriverProofs` proves, for every block length and any number of activations:
`TypeCorrect` (`TypeOK`), `OwnsIo` (`LifecycleOwnsIo`) and `MeansAreWhole`
(`MeanOfOneActivation`). The invariant adds whose thread and port a waiting
callback holds (`CallOwns`) and that the samples of an unfinished block are of the
activation that is running (`BlockOfOne`), from which the published mean follows.

`RtcmRelayProofs` proves, for every byte alphabet, checksum, set of streams and pair of
backoff bounds:

| Theorem | States |
|---|---|
| `OwnsConnection` | `Spec => []ConnectionOwned` |
| `FramerLawHolds` | `FramerLaw` |
| `RelayImplementsFeed` | `Spec => ImplementsFeed` |
| `ToolOnlyListens` | `BaseSpec => Spec` |
| `ToolReportsBase` | `BaseSpec => []BaseReported` |

`Owned` ties the atomics, the descriptors taken out of them and the state of the
socket to the place of thread and destructor.

`FramerLaw` is about `try_extract_frames` alone: the frames it finds are those
`FrameFeed` defines by their positions, and framing a beginning of the bytes and then
the rest gives what framing all of them gives. Both are facts about a recursive
function. The library's induction theorems are of no use to the provers here, so the
argument is by least counterexamples, from the one fact that a set of naturals has a
least element (`LeastNumber`). `RecursionDefines` shows that a recursion whose argument
gets smaller has a solution, which gives the defining equations of the framer and of
the second parser (`FramerEquation`, `IterEquation`); a shortest buffer for which a
claim fails (`ShortestOne`) is then refuted by one round of the loop. `FramingCut` is the
heart: what one round decides of a buffer, more bytes behind it do not change
(`DecidedStays`), so a cut anywhere leaves the frames as they are. `FramesFound` walks
over the positions between two frames to meet the abstract definition.

The refinement has the identity as its mapping and the invariant `FedSoFar`: what was
published is what the framer finds in the bytes read so far, and once the loop that
reads is entered the buffer is what it keeps of them. Every step reads, opens,
receives a byte or leaves the data alone (`DataSteps`); a read that completes a frame
is the feed's `Publish`, any other a stutter.

`BaseReported` compares what the tool knows with what it heard, and needs to know that
it only ever hears frames: `BaseIInv` adds that everything published, waiting or heard
is as long as its header says (`GoodFrames`, which `FramesGood` shows of the framer's
output). On such a frame the two parsers agree (`ParsersAgree`, `FrameParsed`). That
rests on a conjunct of `BaseAssumption`: a second byte without reserved bits is not
changed by the tool's mask. In the code the framer refuses the upper six bits of that
byte and the tool masks them away.

`GnssChainProofs` proves, for every receiver (any number of things it may see),
age limit, gate threshold, inflation, mounting angle and sense of rotation:

| Theorem | States |
|---|---|
| `InvariantHolds` | `Spec => []SigmasTrue` |
| `GateIsTrue` | `Spec => GatePassesFixed` |
| `YawIsTrue` | `Spec => YawTrue` |

Assumptions: `GateAssumption` (a threshold below 15 cm, so that the estimate for a
float solution, 30 cm times an hdop of at least one half, is beyond it; an inflation above 1; a
heading needs a quality above 0: the defaults are 5 cm, 1000 and 1),
`ReceiverAssumption` (a receiver that claims a fix has a position, one that claims a
fixed solution has one, and without one it leaves both sigmas empty or reports a bad one)
and `MountAssumption` (the heading of a solved baseline is that of the robot, seen
through `YawOffset`). `GatePassesFixed` speaks of two sentences that the driver joins by
age, so the invariant has to say where the kept sigmas come from: `SigmasTrue`.

`TuningProofs` proves, for every start, number of cycles, steps and repeats and every
set of captures: `SearchKeepsBest` (`BestOfSearch`) and `SearchLeavesBest`
(`BestInForce`), where the invariant adds that gains the controller took in a trial are
in force until the next, that a candidate differs from the best and that the last trial
is of the best; `ScoreAssumption` says that the
average of captures that hold a step has a score, which TLC evaluates. For
`vesc_tune.py` it proves `ToolStopsLast` (`StopLast`): every send needs an open link,
and both places that close it send a stop first (`StoppedLink`); and
`ToolAnswersMatch` (`AnswersMatch`): the answer a step takes for its own is the answer to
its own command, and past `enable` the motors are enabled. The tool cannot see
which command an answer is for, so what makes this true is spread over three
queues: `AnswerIInv` says that whenever a command is sent none is on its way and no
answer is in any buffer, and that while one is awaited there is at most one command or one answer
and that is the right one (`InStep`), and that an OK on its way in the first step means
an enabled controller (`EnabledFirst`); `Channels` and `Steps` are the types this needs. A
late answer of a run before (`stale`) is excepted, as in the property.

Only model-checked: all liveness properties (`PatrolEnds`, `ReturnsToLane`,
`DeadStreamReported`, `CallsReturn`, `CorrectionsFlow`, `DestructorReturns`,
`FixLossReported`, `RtkReachesEkf`, `ClientReturns`), which are out of the prover's
reach; `StaleScanStops` and `GateTruth`, which the code violates; and `LapTaught` and `StationTrue`.
These two are not true of every road: they depend on how far the sides of the
hairpin are apart compared with window, noise and speed, so a theorem would need
the geometry of the lap as its assumption. Every other safety property of a run is
stated by a theorem.

## 5. Not modelled

* Real arithmetic: the pursuit geometry, the spline between stations and its
  curvature, quaternions, geodesy. Where control depends on it, it is an arbitrary
  choice or whole numbers.
* Field decoding, checksum tables, text of commands, requests, reports, CSV and
  diagnostics; the IMU frame parser (`ImuDriver` sees whole frames) and termios
  calls.
* `score_run.py`, `score_route.py`, `analyse_gnss_soak.py`: statistics over
  recorded data, without state that outlives a line. `gen_patrol_road.py`: writes
  world files. Launch files and the robot description: declarative, they fix which
  topics connect the modelled nodes. `run_validation.sh`: starts processes.
* `ImuDriver` has `query_device_info` at its default, true: a configure without it
  sends no Stop and does not drain. Diagnostics after a configure that failed, which
  the updater made before keeps producing, are left out.
* `VescTune`: a second Ctrl-C, which would run the handler again while its first
  SystemExit unwinds.
* Firmware, filters and navsat_transform are external.

## 6. Seen on the way

What the models show of the code and no run is kept for:

* Follower: `_clear_streak` counts cycles in which *some* smaller offset was clear
  (`route_follower.py:480`), so the offset it comes back to may have been clear only
  once. The ramp's floor (`:493`) moves the offset of a robot that stands still,
  against the docstring at 245-247; without it `ReturnsToLane` fails, which is what
  its mutant shows. Odometry has no age test (`:376`).
* Recorder: a callback in progress during `~/discard` appends its old station to the
  new buffer (`route_recorder.py:304`; `DiscardStartsOver` says it is the only one).
  The loop flag is judged on the live buffer (`:405`), which may have grown since the
  samples were fixed.
* Route file: `save` truncates in place (`route_file.py:202`). A file cut at the end of
  a line with enough samples loads as a shorter route that is still a loop, closed
  by a chord across the gap; `LoadedIsPrefix` states just that much.
* Path: the step is not adjusted to the length of a loop, so the last interval is
  up to half a step off; the first projection, without a hint, may take the other
  side of a hairpin.
* IMU driver: `on_deactivate` stops the stream and joins a thread in `read()`, which
  nothing wakes on a silent device (`imu_driver_node.cpp:206-209`); `CallsReturn` is
  about the other transitions. Fault bits are ORed over a block and never read.
* NTRIP client: `read_headers` has no timeout and the watchdog starts after it
  (`ntrip_client_node.cpp:239`). A chunked body loses the bytes that came with the
  headers (`:427`); "auto" recovers by falling back to v1, a client set to "2" would
  not. When the destructor wins the socket it shuts it and nobody closes it.
* Relays: the serial relay's destructor closes a port that is being read
  (`serial_rtcm_relay_node.cpp:52`), which wakes nobody: the join waits for the next
  byte. There is no stall watchdog, so a server whose peer vanished stays deaf.
* Simulator: the lap of a teaching pass ends on the distance driven
  (`sim_route_driver.py:150`), so one with detours ends before the loop is closed, by
  what they added.
* UM982 driver: `::shutdown()` on the tty wakes nobody (`um982_driver_node.cpp:167`),
  failures of `write_all` are ignored, and the diagnostics show the quality of the last
  GGA however old. A fix of unknown covariance leaves the gate with inflated zeros
  (`confidence_gate.cpp:92`).
* `vesc_tune.py`: end of file on TCP is taken for a timeout, so a connection lost in a
  capture ends with status 0 and a partial file that `auto_tune` accepts (`:82`); on a
  serial line a late OK to the `stop` of the run before can be taken for that of
  `enable`; Ctrl-C in a capture leaves with `OSError`, status 1 and not 130.
* `auto_tune.py`: a trial that fails costs 1e6, a baseline that fails at both steps
  2e6 (`:157` adds the scores of the steps), and `:233` compares the numbers only: failed
  gains can be taken over as the best, although lines 6-8 say that the sentinel has the
  algorithm reject them. `apply_gains` "returns True on success" (`:68`) when the child
  ended well and printed no ERR; a repl that reads from a pipe sends everything, then
  stop, and closes without waiting for an answer (`vesc_tune.py:321-334`, 417-422), so
  gains the controller refused, or a command that was lost, pass for applied, are captured
  and scored (`Sent`). Averaging repeats can hide an over-current one (`:112`); a child
  that hangs in a capture ends the search with trial gains in force (`:93`).

## 7. Plan

1. Proofs: conditions on a road under which `LapTaught` and `StationTrue` hold of it,
   and the two as theorems under these conditions.
2. The drive chain: follower, brake and firmware watchdog composed over lossy
   topics, against an abstract specification of what the chassis may be told.
3. The IMU frame parser as a function over byte classes, against a reference
   definition of the frames in a stream.
