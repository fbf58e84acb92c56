----------------------------- MODULE ScanSafety -----------------------------
(***************************************************************************)
(* The forward-obstacle brake of outdoor_patrol_safety (scan_safety_node): *)
(* it holds the newest raw command, gates it against the newest LiDAR scan *)
(* on arrival and again on a timer, and forwards it to the chassis.        *)
(*                                                                         *)
(* Time is counted in units; a time stamp of the code (`x_time`) is the    *)
(* variable `xAge`, the units elapsed since it was taken.  Ages stop at    *)
(* AgeCap, beyond every threshold.  The node runs on a single-threaded     *)
(* executor, so each callback is one atomic step.                          *)
(***************************************************************************)
EXTENDS Integers

CONSTANTS
    None,           \* Python's None
    Scans,          \* the LaserScan messages the sensor may deliver
    Cmds,           \* the raw Twists a command source may send
    HalfAngle,      \* sector_half_angle_deg
    ForwardOffset,  \* forward_offset_deg
    StopDistance,   \* stop_distance_m, in centimetres
    MinRange,       \* min_range_m, in centimetres
    ScanTimeout,    \* scan_timeout_s, in time units
    CmdTimeout,     \* cmd_timeout_s
    ControlPeriod,  \* control_period_s
    Watchdog,       \* the firmware's CMD_VEL_TIMEOUT_MS (external)
    AgeCap          \* bound: ages are not told apart beyond it

Twist == [lin : Int, ang : Int]    \* linear.x and the rest, which pass through

ASSUME TimeAssumption ==
    /\ ControlPeriod \in Nat \ {0}
    /\ ScanTimeout \in Nat
    /\ CmdTimeout \in Nat
    /\ Watchdog \in Nat
    /\ AgeCap \in Nat
    /\ AgeCap > ScanTimeout
    /\ AgeCap > CmdTimeout + Watchdog + 2 * ControlPeriod

ASSUME GeometryAssumption ==
    /\ HalfAngle \in 0 .. 180
    /\ ForwardOffset \in Int
    /\ \A m \in Scans : /\ m.geom.beams \in Nat
                        /\ m.geom.angle_min \in Int
                        /\ m.geom.angle_increment \in Int

ASSUME MessageAssumption ==
    /\ Cmds \subseteq Twist
    /\ None \notin Scans
    /\ None \notin Cmds
    /\ None \notin Int

VARIABLES
    scan, scanAge,   \* _scan, _scan_time
    cmd, cmdAge,     \* _cmd, _cmd_time
    pubAge,          \* _pub_time
    sector,          \* _sector: None, or the geometry key and its indices
    timer,           \* units since the control timer last fired
    out, outAge,     \* the newest Twist on cmd_vel_out and its age
    obstacle,        \* the newest Bool on ~/obstacle
    rawAge,          \* history: units since the newest raw command arrived
    unsafeFor        \* history: units the way ahead has been impassable

vars == <<scan, scanAge, cmd, cmdAge, pubAge, sector, timer, out, outAge,
          obstacle, rawAge, unsafeFor>>

Age == 0 .. AgeCap
Stop == [lin |-> 0, ang |-> 0]
Older(a) == IF a = None THEN None ELSE IF a < AgeCap THEN a + 1 ELSE a

-----------------------------------------------------------------------------
(* What the node reads out of a scan *)

\* Signed angular distance from robot-forward, wrapped to [-180, 180).
WrapDeg(d) == ((d + 180) % 360) - 180

SectorOf(g) ==
    {i \in 0 .. g.beams - 1 :
        LET delta == WrapDeg(g.angle_min + i * g.angle_increment - ForwardOffset)
        IN  -HalfAngle <= delta /\ delta <= HalfAngle}

\* mutant: the cache key holds the number of beams only
SectorIndices_StaleKey(m) ==
    IF sector = None \/ sector.key.beams # m.geom.beams
    THEN SectorOf(m.geom)
    ELSE sector.indices

\* Recomputed only when the scan geometry differs from the cached key.
SectorIndices(m) ==
    IF sector = None \/ sector.key # m.geom
    THEN SectorOf(m.geom)
    ELSE sector.indices

ScanFresh == scan # None /\ scanAge # None /\ scanAge <= ScanTimeout

\* _forward_min() < _stop over the given beams: returns nearer than min_range
\* or farther than range_max are not returns.
ReturnBelowStop(m, indices) ==
    \E i \in indices :
        /\ MinRange <= m.ranges[i]
        /\ m.ranges[i] <= m.range_max
        /\ m.ranges[i] < StopDistance

\* The beams that point within HalfAngle of robot-forward, going either way round
\* the circle: what the sector is meant to be.
Facing(g) ==
    {i \in 0 .. g.beams - 1 :
        LET turn == (g.angle_min + i * g.angle_increment - ForwardOffset) % 360
        IN  turn <= HalfAngle \/ 360 - turn <= HalfAngle}

\* The way ahead as the newest scan shows it, with no cache in between.
Passable(m, age) ==
    /\ m # None
    /\ age # None
    /\ age <= ScanTimeout
    /\ ~ReturnBelowStop(m, Facing(m.geom))

-----------------------------------------------------------------------------
Init ==
    /\ scan = None /\ scanAge = None
    /\ cmd = None /\ cmdAge = None
    /\ pubAge = None
    /\ sector = None
    /\ timer = 0
    /\ out = Stop /\ outAge = AgeCap    \* nothing published: chassis at rest
    /\ obstacle = FALSE
    /\ rawAge = AgeCap
    /\ unsafeFor = AgeCap

\* mutant: an obstacle stops reverse and rotation as well
Publish_FullStop(c) ==
    LET blocked == ~ScanFresh \/ ReturnBelowStop(scan, SectorIndices(scan))
    IN  /\ out' = IF blocked THEN Stop ELSE c
        /\ outAge' = 0
        /\ pubAge' = 0
        /\ obstacle' = blocked
        /\ sector' = sector

(* _publish: gate one command and forward it. *)
Publish(c) ==
    LET looked  == c.lin > 0 /\ ScanFresh
        indices == SectorIndices(scan)
        blocked == c.lin > 0 /\ (~ScanFresh \/ ReturnBelowStop(scan, indices))
    IN  /\ out' = [lin |-> IF blocked THEN 0 ELSE c.lin, ang |-> c.ang]
        /\ outAge' = 0
        /\ pubAge' = 0
        /\ obstacle' = blocked
        /\ sector' = IF looked THEN [key |-> scan.geom, indices |-> indices]
                               ELSE sector

OnScan(m) ==
    /\ scan' = m
    /\ scanAge' = 0
    /\ unsafeFor' = IF Passable(m, 0) THEN 0 ELSE unsafeFor
    /\ UNCHANGED <<cmd, cmdAge, pubAge, sector, timer, out, outAge, obstacle,
                   rawAge>>

OnCmd(c) ==
    /\ cmd' = c
    /\ cmdAge' = 0
    /\ rawAge' = 0
    /\ Publish(c)
    /\ UNCHANGED <<scan, scanAge, timer, unsafeFor>>

CmdExpired == cmdAge = None \/ cmdAge > CmdTimeout

\* mutant: the command is dropped but its time stamp stays
TickExpire_KeepTime ==
    /\ cmd # None
    /\ CmdExpired
    /\ cmd' = None
    /\ out' = Stop
    /\ outAge' = 0
    /\ obstacle' = FALSE
    /\ UNCHANGED <<cmdAge, pubAge, sector>>

\* mutant: the expired command is kept and a zero Twist repeated for ever
TickExpire_Repeat ==
    /\ cmd # None
    /\ CmdExpired
    /\ out' = Stop
    /\ outAge' = 0
    /\ obstacle' = FALSE
    /\ UNCHANGED <<cmd, cmdAge, pubAge, sector>>

(* _on_tick when the held command has expired: one zero Twist, then silence. *)
TickExpire ==
    /\ cmd # None
    /\ CmdExpired
    /\ cmd' = None
    /\ cmdAge' = None
    /\ out' = Stop
    /\ outAge' = 0
    /\ obstacle' = FALSE
    /\ UNCHANGED <<pubAge, sector>>

\* mutant: a tick never re-gates (the command is gated on arrival only)
TickRegate_Never ==
    /\ cmd # None
    /\ ~CmdExpired
    /\ ~(pubAge < ControlPeriod)
    /\ UNCHANGED <<cmd, cmdAge, out, outAge, pubAge, obstacle, sector>>

(* _on_tick with a live command that was not gated within the last period. *)
TickRegate ==
    /\ cmd # None
    /\ ~CmdExpired
    /\ ~(pubAge < ControlPeriod)
    /\ Publish(cmd)
    /\ UNCHANGED <<cmd, cmdAge>>

(* _on_tick's early returns: nothing held, or gated on arrival just now. *)
TickIdle ==
    /\ \/ cmd = None
       \/ ~CmdExpired /\ pubAge < ControlPeriod
    /\ UNCHANGED <<cmd, cmdAge, out, outAge, pubAge, obstacle, sector>>

OnTick ==
    /\ timer = ControlPeriod
    /\ timer' = 0
    /\ TickExpire \/ TickRegate \/ TickIdle
    /\ UNCHANGED <<scan, scanAge, rawAge, unsafeFor>>

(* One unit of time passes; a due timer runs first. *)
Elapse ==
    /\ timer < ControlPeriod
    /\ timer' = timer + 1
    /\ scanAge' = Older(scanAge)
    /\ cmdAge' = Older(cmdAge)
    /\ pubAge' = Older(pubAge)
    /\ outAge' = Older(outAge)
    /\ rawAge' = Older(rawAge)
    /\ unsafeFor' = IF Passable(scan, scanAge') THEN 0 ELSE Older(unsafeFor)
    /\ UNCHANGED <<scan, cmd, sector, out, obstacle>>

Next ==
    \/ \E m \in Scans : OnScan(m)
    \/ \E c \in Cmds : OnCmd(c)
    \/ OnTick
    \/ Elapse

Spec == Init /\ [][Next]_vars

-----------------------------------------------------------------------------
(* Properties *)

Geometries == {m.geom : m \in Scans}

\* Types; a scan and a command are held exactly while their arrival times are
\* known (_on_scan, _on_cmd, _on_tick).
TypeOK ==
    /\ scan \in Scans \cup {None}
    /\ scanAge \in Age \cup {None}
    /\ scan = None <=> scanAge = None
    /\ cmd \in Cmds \cup {None}
    /\ cmdAge \in Age \cup {None}
    /\ cmd = None <=> cmdAge = None
    /\ pubAge \in Age \cup {None}
    /\ sector \in [key : Geometries, indices : SUBSET Nat] \cup {None}
    /\ timer \in 0 .. ControlPeriod
    /\ out \in Twist
    /\ outAge \in Age
    /\ obstacle \in BOOLEAN
    /\ rawAge \in Age
    /\ unsafeFor \in Age

\* The brake acts on a robot that is already moving: once the way ahead has
\* been impassable (an obstacle inside the stop distance, or no fresh scan) for
\* two control periods, the chassis is not being told to go forward, whether
\* or not the command source ever speaks again (_on_tick, _publish).
BrakeLatency == unsafeFor >= 2 * ControlPeriod => out.lin <= 0

\* No step forwards a forward command past an impassable scan: the cached
\* sector of _sector_indices never stands in for another scan geometry, and it
\* is the sector ahead wherever the seam of the bearings lies.
GateSound ==
    [][(out' # out \/ outAge' < outAge \/ sector' # sector)
           => (out'.lin > 0 => Passable(scan, scanAge))]_vars

\* A dead source stops the robot here and is then silence to the firmware: its
\* own watchdog trips at most one command timeout, one period and one firmware
\* timeout after the last raw command (_on_tick's single zero Twist).
DeadSourceSilence ==
    /\ rawAge > CmdTimeout + ControlPeriod => out = Stop
    /\ rawAge > CmdTimeout + ControlPeriod + Watchdog => outAge > Watchdog

\* While a command is held the chassis sees its rotation and its reverse
\* unchanged, and ~/obstacle says exactly whether its forward part was cut.
BackOut ==
    cmd # None => /\ out.ang = cmd.ang
                  /\ cmd.lin <= 0 => out.lin = cmd.lin
                  /\ obstacle <=> out.lin # cmd.lin

\* _on_tick subtracts _pub_time from the clock: while a command is held there
\* is a time to subtract.
PubTimeSet == cmd # None => pubAge # None
=============================================================================
