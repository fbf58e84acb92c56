----------------------------- MODULE SimSensors -----------------------------
(***************************************************************************)
(* gnss_heading_sim.py and odom_sim.py: what the simulated sensors lack.   *)
(* A fix leaves with metric noise and the covariance that goes with it,    *)
(* the heading is made from ground truth, the wheel odometry gets the      *)
(* firmware's covariances.  Noise is any of -Tails .. Tails deviations.    *)
(***************************************************************************)
EXTENDS Integers, Sequences

CONSTANTS
    Sigmas,         \* what horizontal_stddev_m may be set to at run time
    StartSigma,     \* its value at launch
    Tails,          \* how many standard deviations of noise are drawn
    PoseDiagonal,   \* pose_covariance_diagonal
    TwistDiagonal   \* twist_covariance_diagonal

Nothing == <<>>

VARIABLES
    sigmaParam,     \* the parameter horizontal_stddev_m
    fix,            \* the newest fix on /um982_driver/fix
    latestYaw,      \* _latest_yaw
    headingMsg,     \* the newest message on /gnss/heading
    odom            \* the covariances of the newest message on /odom

sensors == <<sigmaParam, fix, latestYaw, headingMsg, odom>>

GnssInit ==
    /\ sigmaParam = StartSigma
    /\ fix = Nothing /\ latestYaw = Nothing /\ headingMsg = Nothing

OdomInit == odom = {}

SensorsInit == GnssInit /\ OdomInit

\* The same again, when the simulator is started anew.
SensorsLaunch ==
    /\ sigmaParam' = StartSigma
    /\ fix' = Nothing /\ latestYaw' = Nothing /\ headingMsg' = Nothing /\ odom' = {}

\* The operator's `ros2 param set`
SetSigma(v) ==
    /\ sigmaParam' = v
    /\ UNCHANGED <<fix, latestYaw, headingMsg, odom>>

Fix(xy, east, north, sigma) ==
    [xy |-> <<xy[1] + east * sigma, xy[2] + north * sigma>>,
     known |-> TRUE, status |-> 0, sigma |-> sigma]

\* _on_fix: the parameter is read anew for every fix.
GnssOnFix(xy, east, north) ==
    /\ fix' = Fix(xy, east, north, sigmaParam)
    /\ UNCHANGED <<sigmaParam, latestYaw, headingMsg, odom>>

GnssOnTruth(yaw) ==
    /\ latestYaw' = yaw
    /\ UNCHANGED <<sigmaParam, fix, headingMsg, odom>>

\* The timer, silent until there is a pose; only the yaw is available.
PublishHeading ==
    /\ latestYaw # Nothing
    /\ headingMsg' = latestYaw
    /\ UNCHANGED <<sigmaParam, fix, latestYaw, odom>>

Diag == <<0, 7, 14, 21, 28, 35>>

\* zip: the entries there is a value for, the others stay 0.
Stamped(part, values) ==
    {<<part, Diag[k], values[k]>> : k \in DOMAIN Diag \cap DOMAIN values}

OnOdomSim ==
    /\ odom' = Stamped("pose", PoseDiagonal) \cup Stamped("twist", TwistDiagonal)
    /\ UNCHANGED <<sigmaParam, fix, latestYaw, headingMsg>>
=============================================================================
