--------------------------- MODULE RouteFollower ----------------------------
(***************************************************************************)
(* The repeat half of teach-and-repeat (route_follower.py with path.py):   *)
(* pure pursuit along the recorded path, displaced sideways by an offset   *)
(* chosen from what the LiDAR sees in the corridor, slowed by fix quality. *)
(*                                                                         *)
(* Every subscription and timer shares the node's default callback group,  *)
(* so each callback is one atomic step.  Distance along the path is        *)
(* counted in stations; the path is straightened, so a position is a       *)
(* number, taken modulo Length on a loop.  Lateral distances are counted   *)
(* towards the retreat side; one unit is what the ramp moves the offset in *)
(* one cycle at one unit of commanded speed.                               *)
(***************************************************************************)
EXTENDS Integers

CONSTANTS
    None,
    Loop,           \* the route file's loop flag
    Length,         \* Path.length, in stations
    Laps,           \* laps
    GoalTolerance,  \* goal_tolerance_m
    Window,         \* window_m of Path.project
    TriggerRange,   \* trigger_range_m
    HalfWidth,      \* corridor_half_width_m
    OffsetStep,     \* offset_step_m
    Clearance,      \* clearance_half_width_m
    ResumeCycles,   \* resume_clear_cycles
    FloorSpeed,     \* the 0.1 m/s floor of _ramp_toward
    Speeds,         \* what _pursue may return between min_speed and nominal
    Turns,          \* the turns _pursue may ask for
    SigmaSlow, SigmaStop, SigmaInf,
    FixTimeout,     \* fix_timeout_s
    ScanStale,      \* the 1.0 s of _blocked_offsets
    Scans,          \* the sets of returns a LiDAR message may contain
    Fixes,          \* the NavSatFix messages the receiver may send
    Noise,          \* position errors of the odometry
    MaxGap,         \* bound: travel between two control cycles
    MaxPos          \* bound: how far the vehicle is followed

\* The corridor, less the robot: the outermost candidate offset.
OffsetCount ==
    IF OffsetStep <= 0 \/ HalfWidth - Clearance <= 0
    THEN 0
    ELSE (HalfWidth - Clearance) \div OffsetStep

Offsets == 0 .. OffsetCount          \* _candidate_offsets, by index
Offset(i) == i * OffsetStep

ASSUME FollowerAssumption ==
    /\ Loop \in BOOLEAN
    /\ Length \in Nat \ {0}
    /\ Laps \in Nat \ {0}
    /\ OffsetStep \in Nat /\ HalfWidth \in Nat /\ Clearance \in Nat
    /\ HalfWidth > Clearance
    /\ ResumeCycles \in Nat \ {0}
    /\ FloorSpeed \in Nat \ {0}
    /\ Speeds \subseteq Nat \ {0}
    /\ Turns \subseteq Int
    /\ SigmaSlow \in Nat /\ SigmaStop \in Nat /\ SigmaInf \in Nat
    /\ SigmaSlow < SigmaStop /\ SigmaStop <= SigmaInf
    /\ FixTimeout \in Nat /\ ScanStale \in Nat
    /\ Window \in Nat /\ Noise \subseteq Int
    /\ Fixes \subseteq [known : BOOLEAN, status : Int, east : Nat, north : Nat]
    /\ None \notin Int /\ None \notin Fixes

\* What progress along the path needs of the odometry and the control rate:
\* from one cycle to the next the measured position stays inside the search
\* window and moves by less than half a loop; the end is not in reach at once.
ASSUME OdometryAssumption ==
    /\ MaxGap \in Nat /\ MaxGap <= Window
    /\ Loop => 2 * MaxGap < Length
    /\ \A m, n \in Noise : m - n <= MaxGap
    /\ GoalTolerance \in 0 .. Length - 1

VARIABLES
    path,           \* _path is not None
    lidarTf,        \* _lidar_tf is not None
    pose,           \* _pose: the measured position, or None
    s, travelled,   \* _s, _travelled
    speed,          \* _speed
    dcmd,           \* |_d_cmd|
    committed, clearStreak,
    scan, scanAge,  \* _scan_points, _scan_stamp
    sigma, fixAge,  \* _sigma, _fix_stamp
    state,          \* _state
    finished,       \* _finished
    cmd,            \* the newest Twist on /cmd_vel_raw
    pos,            \* external: where the vehicle is
    seen, first,    \* history: the pose of the last and of the first cycle
    lastFix         \* history: the newest NavSatFix

inputs == <<path, lidarTf, pose, scan, scanAge, sigma, fixAge, lastFix, pos>>
follow == <<s, travelled, speed, dcmd, committed, clearStreak, state, finished,
            cmd, seen, first>>
vars == <<inputs, follow>>

AbsInt(x) == IF x < 0 THEN -x ELSE x
MaxInt(a, b) == IF a > b THEN a ELSE b
MinInt(a, b) == IF a < b THEN a ELSE b
StopCmd == [lin |-> 0, turn |-> 0]
Widest == Offset(OffsetCount)

\* Stamps are kept as ages that stop one past the threshold they meet.
Aged(age, limit) == IF age = None \/ age > limit THEN age ELSE age + 1

-----------------------------------------------------------------------------
(* path.py *)

Stations == IF Loop THEN 0 .. Length - 1 ELSE 0 .. Length

WrapS(x) == IF Loop THEN x % Length ELSE MinInt(MaxInt(x, 0), Length)

\* mutant: the gap is not brought back to the nearer way round
ForwardGap_OneWay(here, there) ==
    IF Loop THEN (there - here) % Length ELSE there - here

\* mutant: the gap is a plain difference, loop or not
ForwardGap_NoWrap(here, there) == there - here

\* Signed distance from here to there, the nearer way round a loop.
ForwardGap(here, there) ==
    LET d == (there - here) % Length
    IN  IF ~Loop THEN there - here
        ELSE IF 2 * d > Length THEN d - Length
        ELSE d

\* Path.project: the station nearest to position p, searched within Window of
\* the hint once there is one.
Project(p, hint) ==
    LET searched == IF hint = None THEN Stations
                    ELSE {q \in Stations : AbsInt(ForwardGap(hint, q)) <= Window}
        dist(q) == IF Loop THEN AbsInt(ForwardGap(WrapS(p), q)) ELSE AbsInt(p - q)
    IN  CHOOSE q \in searched : \A r \in searched : dist(q) <= dist(r)

\* stations_of and the "ahead" filter: strictly between here and the end of the
\* trigger window (and, on an open path, of the path itself).
Ahead(here, q) ==
    IF Loop THEN LET gap == (q - here) % Length
                 IN  0 < gap /\ gap < TriggerRange
    ELSE here < q /\ q < here + TriggerRange /\ q < Length

-----------------------------------------------------------------------------
(* route_file.horizontal_sigma and the follower's own decisions *)

\* mutant: a covariance-less message reads as a perfect fix
HorizontalSigma_Trusting(m) ==
    IF m.status < 0 THEN SigmaInf ELSE MaxInt(m.east, m.north)

\* The worse axis; infinite for an unknown covariance or no fix.
HorizontalSigma(m) ==
    IF ~m.known \/ m.status < 0 THEN SigmaInf ELSE MaxInt(m.east, m.north)

\* 0 is stop and SigmaStop - SigmaSlow is full speed, linear in between.
FixPenalty ==
    IF \/ fixAge = None
       \/ fixAge > FixTimeout
       \/ sigma >= SigmaStop
    THEN 0
    ELSE SigmaStop - MaxInt(sigma, SigmaSlow)

\* The offsets with a return in them.  The age of the scan is looked at only
\* when its last message had a return.
BlockedOffsets(here) ==
    IF scan = {} \/ scanAge = None THEN {}
    ELSE IF scanAge > ScanStale THEN Offsets
    ELSE {i \in Offsets :
            \E r \in scan : /\ Ahead(here, r.station)
                            /\ AbsInt(r.lat - Offset(i)) < Clearance}

AtEnd(at, gone) ==
    IF Loop THEN gone >= Laps * Length ELSE Length - at <= GoalTolerance

\* mutant: moving out waits for the streak as well
ChooseOffset_SlowOut(best) ==
    LET act == best # committed /\ clearStreak + 1 >= ResumeCycles
    IN  /\ committed' = IF act THEN best ELSE committed
        /\ clearStreak' = IF best = committed \/ act THEN 0 ELSE clearStreak + 1

\* _choose_offset for a smallest clear offset: out at once, in after a streak.
ChooseOffset(best) ==
    LET back == best < committed /\ clearStreak + 1 >= ResumeCycles
    IN  /\ committed' = IF best > committed \/ back THEN best ELSE committed
        /\ clearStreak' = IF best < committed /\ ~back THEN clearStreak + 1 ELSE 0

\* mutant: the ramp overshoots its target
RampToward_Overshoot(target) ==
    LET allowance == MaxInt(speed, FloorSpeed)
    IN  dcmd' = IF target > dcmd THEN dcmd + allowance
                ELSE IF target < dcmd THEN dcmd - allowance ELSE dcmd

\* mutant: no floor under the speed the ramp is scaled by
RampToward_NoFloor(target) ==
    LET step == MinInt(AbsInt(target - dcmd), speed)
    IN  dcmd' = IF target < dcmd THEN dcmd - step ELSE dcmd + step

\* _ramp_toward; the previous pose is always set by then, so it never jumps.
RampToward(target) ==
    LET allowance == MaxInt(speed, FloorSpeed)
        delta == target - dcmd
        step  == MinInt(AbsInt(delta), allowance)
    IN  dcmd' = IF delta < 0 THEN dcmd - step ELSE dcmd + step

\* _pursue's geometry is left out: any speed from min_speed up, any turn.
Pursue == [v : Speeds, turn : Turns]

StateOf(target, d, penalty) ==
    IF penalty = 0 THEN "degraded"
    ELSE IF target < d THEN "resuming"
    ELSE IF target > d \/ d > 0 THEN "retreating"
    ELSE "driving"

-----------------------------------------------------------------------------
Init ==
    /\ path = FALSE /\ lidarTf = FALSE
    /\ pose = None
    /\ s = None /\ travelled = 0
    /\ speed = 0 /\ dcmd = 0
    /\ committed = 0 /\ clearStreak = 0
    /\ scan = {} /\ scanAge = None
    /\ sigma = 0 /\ fixAge = None
    /\ state = "driving" /\ finished = FALSE
    /\ cmd = StopCmd
    /\ pos = 0
    /\ seen = None /\ first = None /\ lastFix = None

\* Every sample was projected by fromLL; a timeout on any of them changes
\* nothing and the timer tries again.
TryBuildPath ==
    /\ ~path
    /\ path' = TRUE
    /\ UNCHANGED <<lidarTf, pose, scan, scanAge, sigma, fixAge, lastFix, pos,
                   follow>>

TryLidarTf ==
    /\ ~lidarTf
    /\ lidarTf' = TRUE
    /\ UNCHANGED <<path, pose, scan, scanAge, sigma, fixAge, lastFix, pos,
                   follow>>

OnOdom(n) ==
    /\ pose' = pos + n
    /\ UNCHANGED <<path, lidarTf, scan, scanAge, sigma, fixAge, lastFix, pos,
                   follow>>

OnFix(m) ==
    /\ sigma' = HorizontalSigma(m)
    /\ fixAge' = 0
    /\ lastFix' = m
    /\ UNCHANGED <<path, lidarTf, pose, scan, scanAge, pos, follow>>

\* Returns are placed in the map with the current pose, so without a pose or the
\* LiDAR mount the message is dropped.
OnScan(r) ==
    /\ pose # None
    /\ lidarTf
    /\ scan' = r
    /\ scanAge' = 0
    /\ UNCHANGED <<path, lidarTf, pose, sigma, fixAge, lastFix, pos,
                   follow>>

(* The head of _control: where the robot is and how far it has come. *)
Localise ==
    /\ ~finished
    /\ path
    /\ pose # None
    /\ s' = Project(pose, s)
    /\ travelled' = IF s = None THEN travelled ELSE travelled + ForwardGap(s, s')
    /\ seen' = pose
    /\ first' = IF first = None THEN pose ELSE first

(* _finish *)
ControlFinish ==
    /\ AtEnd(s', travelled')
    /\ finished' = TRUE
    /\ state' = "finished"
    /\ cmd' = StopCmd
    /\ UNCHANGED <<speed, dcmd, committed, clearStreak>>

(* Nothing is clear: stop in place. *)
ControlBlocked ==
    /\ ~AtEnd(s', travelled')
    /\ Offsets \ BlockedOffsets(s') = {}
    /\ state' = "blocked"
    /\ cmd' = StopCmd
    /\ UNCHANGED <<speed, dcmd, committed, clearStreak, finished>>

(* The last part of _control, with the pursuit's answer v and turn. *)
ControlDrive(v, turn) ==
    LET clear == Offsets \ BlockedOffsets(s')
    IN  /\ ~AtEnd(s', travelled')
        /\ clear # {}
        /\ ChooseOffset(CHOOSE i \in clear : \A j \in clear : i <= j)
        /\ RampToward(Offset(committed'))
        /\ cmd' = IF FixPenalty = 0 THEN StopCmd
                  ELSE [lin |-> v * FixPenalty, turn |-> turn]
        /\ state' = StateOf(Offset(committed'), dcmd', FixPenalty)
        /\ speed' = cmd'.lin
        /\ UNCHANGED finished

Control ==
    /\ Localise
    /\ \/ ControlFinish
       \/ ControlBlocked
       \/ \E answer \in Pursue : ControlDrive(answer.v, answer.turn)
    /\ UNCHANGED inputs

\* External: a chassis told to go forward may do so (the brake below may also
\* hold it); odometry and control keep up to within MaxGap.
Advance ==
    /\ cmd.lin > 0
    /\ pos < MaxPos
    /\ \A x \in {pose, seen} \ {None}, n \in Noise : pos + 1 + n - x <= MaxGap
    /\ pos' = pos + 1
    /\ UNCHANGED <<path, lidarTf, pose, scan, scanAge, sigma, fixAge, lastFix,
                   follow>>

\* One unit of time passes for the sensor data in hand.
Elapse ==
    /\ scanAge' = Aged(scanAge, ScanStale)
    /\ fixAge' = Aged(fixAge, FixTimeout)
    /\ UNCHANGED <<path, lidarTf, pose, scan, sigma, lastFix, pos,
                   follow>>

\* Everything but the control cycle.
Surroundings ==
    \/ TryBuildPath
    \/ TryLidarTf
    \/ \E n \in Noise : OnOdom(n)
    \/ \E m \in Fixes : OnFix(m)
    \/ \E r \in Scans : OnScan(r)
    \/ Advance
    \/ Elapse

Next == Control \/ Surroundings

Spec == Init /\ [][Next]_vars

\* The control timer and the odometry run, and a commanded chassis moves.
FairSpec ==
    /\ Spec
    /\ WF_vars(Control)
    /\ WF_vars(\E n \in Noise : OnOdom(n))
    /\ WF_vars(Advance)

-----------------------------------------------------------------------------
(* Properties *)

\* Of the steps that change something, those that leave the inputs alone are the
\* control cycles that got past _control's early returns.
ControlCycle == s' # None /\ UNCHANGED inputs

\* Types; a committed offset is one of the candidates and a streak that is spent
\* starts over (_choose_offset).
TypeOK ==
    /\ path \in BOOLEAN /\ lidarTf \in BOOLEAN /\ finished \in BOOLEAN
    /\ pose \in Int \cup {None} /\ seen \in Int \cup {None}
    /\ first \in Int \cup {None}
    /\ s \in Stations \cup {None}
    /\ travelled \in Int /\ pos \in Int
    /\ speed \in Nat /\ dcmd \in Nat
    /\ committed \in Offsets
    /\ clearStreak \in 0 .. ResumeCycles - 1
    /\ scan \in Scans \cup {{}}
    /\ scanAge \in 0 .. ScanStale + 1 \cup {None}
    /\ sigma \in Nat
    /\ fixAge \in 0 .. FixTimeout + 1 \cup {None}
    /\ state \in {"driving", "retreating", "resuming", "blocked", "degraded",
                  "finished"}
    /\ cmd \in [lin : Nat, turn : Int]

\* The look-ahead point, robot width included, stays inside the corridor
\* whatever the ramp, the hysteresis and the fix do (_ramp_toward).
CorridorKept == dcmd + Clearance <= HalfWidth

\* Progress is measured along the path (_control): position noise back and forth
\* over the seam of a loop adds up to nothing, so a patrol that finished has
\* really gone its laps.
ProgressIsReal ==
    seen # None =>
        /\ travelled = IF Loop THEN seen - first ELSE WrapS(seen) - WrapS(first)
        /\ s = WrapS(seen)
        /\ finished => IF Loop THEN seen - first >= Laps * Length
                       ELSE Length - seen <= GoalTolerance

\* A cycle never tells the vehicle to move, turning included, on a fix that is
\* missing, stale, without a covariance or worse than sigma_stop on either axis,
\* and it scales the speed by the worse one (_fix_penalty, horizontal_sigma).
FixGovernsMotion ==
    [][ControlCycle /\ cmd' # StopCmd =>
          /\ lastFix # None
          /\ fixAge <= FixTimeout
          /\ lastFix.known /\ lastFix.status >= 0
          /\ \A axis \in {lastFix.east, lastFix.north} :
                /\ axis < SigmaStop
                /\ \E v \in Speeds :
                      cmd'.lin <= v * (SigmaStop - MaxInt(axis, SigmaSlow))]_vars

\* A cycle that moves the vehicle heads for an offset with nothing in it, or is
\* on its way in: a smaller one is clear and the streak that leads there has
\* begun, so that a blocked offset is headed for in less than ResumeCycles
\* cycles in a row (_choose_offset).
ClearOrReturning ==
    [][ControlCycle /\ cmd' # StopCmd =>
          \/ committed' \notin BlockedOffsets(s')
          \/ /\ clearStreak' \in 1 .. ResumeCycles - 1
             /\ \E i \in Offsets \ BlockedOffsets(s') : i < committed']_vars

\* With a path, fresh fixes and an open way from some time on, the patrol ends.
Healthy ==
    /\ path
    /\ fixAge # None /\ fixAge <= FixTimeout /\ sigma < SigmaStop
    /\ scan = {}

PatrolEnds == <>[]Healthy => <>finished

\* With nothing more in the way the robot comes back to the centerline for good,
\* unless the patrol ends before it is there (_choose_offset, _ramp_toward).
ReturnsToLane ==
    <>[](path /\ scan = {}) /\ []<>(pose # None)
        => <>[](finished \/ (committed = 0 /\ dcmd = 0))

(* What comments of the code say and the code does not do *)

\* "Stale scan: fail safe by treating every offset as blocked": a cycle moves the
\* vehicle only on a scan that is not stale (_blocked_offsets).
StaleScanStops ==
    [][ControlCycle /\ cmd' # StopCmd /\ scanAge # None => scanAge <= ScanStale]_vars
=============================================================================
