------------------------------- MODULE GnssLoc ------------------------------
(***************************************************************************)
(* The two adapters between the UM982 driver and the localization filters: *)
(* confidence_gate.cpp and heading_to_imu.cpp.  Both are functions of the  *)
(* message they receive; what the gate keeps is for its log only.          *)
(* Variances are in square centimetres, angles in degrees.                 *)
(***************************************************************************)
EXTENDS Integers

CONSTANTS
    MaxSigma,           \* max_horizontal_sigma_m
    Inflation,          \* covariance_inflation
    RejectNoFix,        \* reject_on_no_fix
    YawOffset,          \* yaw_offset
    Invert              \* invert

ASSUME LocAssumption ==
    /\ {MaxSigma, Inflation} \subseteq Nat
    /\ {RejectNoFix, Invert} \subseteq BOOLEAN
    /\ YawOffset \in Int

Larger(a, b) == IF a > b THEN a ELSE b

Degraded(fix) ==
    \/ fix.status = "NO_FIX"
    \/ fix.type = "UNKNOWN"
    \/ Larger(fix.east, fix.north) > MaxSigma * MaxSigma

\* ConfidenceGate::callback: the messages it publishes for one fix.
Gated(fix) ==
    IF fix.status = "NO_FIX" /\ RejectNoFix THEN {}
    ELSE IF ~Degraded(fix) THEN {fix}
    ELSE {[fix EXCEPT !.east = @ * Inflation, !.north = @ * Inflation,
                      !.type = "APPROXIMATED"]}

\* HeadingToImu::callback: the yaw it publishes for a baseline's yaw.
ImuYaw(yaw) == (YawOffset + (IF Invert THEN -yaw ELSE yaw)) % 360
=============================================================================
