--------------------------- MODULE SimRouteDriver ---------------------------
(***************************************************************************)
(* sim_route_driver.py: drives a teach pass along the generator's own      *)
(* centerline by ground truth, for a number of laps.  Its subscription and *)
(* its timer share one callback group, so each callback is one step.       *)
(* Speeds are counted in quarters of speed_ms, the least the ramp gives.   *)
(***************************************************************************)
EXTENDS RoutePath

CONSTANTS
    Road,           \* the samples of the centerline file, the first repeated
    RoadLength,     \* length_m
    Search,         \* how many points _advance looks at (120)
    Lookahead,      \* lookahead_m
    Ramp,           \* start_ramp_m
    Laps

ASSUME DriverAssumption ==
    /\ Len(Road) > 2 /\ RoadLength \in Nat \ {0}
    /\ Search \in Nat \ {0} /\ Lookahead \in Nat /\ Ramp \in Nat /\ Laps \in Nat \ {0}

VARIABLES
    index, travelled, lastXy, drvPose, done,    \* _index .. _done
    drvCmd,                                     \* the newest Twist
    finishedMsg                                 \* ~/finished, latched

driver == <<index, travelled, lastXy, drvPose, done, drvCmd, finishedMsg>>

\* _load: the closing sample of a loop is dropped.
Points == Front(Road)
Count == Len(Points)
Point(i) == Points[(i % Count) + 1]

DriverInit ==
    /\ index = 0 /\ travelled = 0
    /\ lastXy = <<>> /\ drvPose = <<>>
    /\ done = FALSE
    /\ drvCmd = [speed |-> 0, turn |-> 0]
    /\ finishedMsg = FALSE

\* main is done: nothing of the node is left.
DriverGone ==
    /\ index' = 0 /\ travelled' = 0
    /\ lastXy' = <<>> /\ drvPose' = <<>>
    /\ done' = FALSE
    /\ drvCmd' = [speed |-> 0, turn |-> 0]
    /\ finishedMsg' = FALSE

\* _on_truth
OnTruth(xy) ==
    /\ drvPose' = xy
    /\ travelled' = IF lastXy = <<>> THEN travelled
                    ELSE travelled + Hypot(Minus(xy, lastXy))
    /\ lastXy' = xy
    /\ UNCHANGED <<index, done, drvCmd, finishedMsg>>

\* mutant: the whole loop is searched for the nearest point
Closest_Anywhere(xy) ==
    LET d(i) == LET v == Minus(xy, Point(i)) IN Dot(v, v)
        idx == 0 .. Count - 1
        least == Min({d(i) : i \in idx})
    IN  Min({i \in idx : d(i) = least})

\* The first half of _advance: the nearest point, looking forward only.
Closest(xy) ==
    LET d(i) == LET v == Minus(xy, Point(i)) IN Dot(v, v)
        idx == index .. index + Search - 1
        least == Min({d(i) : i \in idx})
    IN  Min({i \in idx : d(i) = least}) % Count

\* Its second half: out along the points until the look-ahead is used up.
Target(from) ==
    LET gone(k) == SumFunction([j \in 0 .. k - 1 |->
                        Hypot(Minus(Point(from + j + 1), Point(from + j)))])
    IN  (from + Min({k \in 0 .. Count : gone(k) >= Lookahead})) % Count

\* The ramp of the first metres: a quarter, or the share already driven.
Speed == IF Ramp > 0 /\ travelled < Ramp THEN Max({1, (4 * travelled) \div Ramp}) ELSE 4

\* The side of the robot's heading the target is on, heading along the road.
TurnTo(from, goal) ==
    LET ahead == Minus(Point(from + 1), Point(from))
        to == Minus(Point(goal), drvPose)
        side == ahead[1] * to[2] - ahead[2] * to[1]
    IN  IF side > 0 THEN 1 ELSE IF side < 0 THEN -1 ELSE 0

\* _control and _finish.  The clamp of omega keeps the curvature and leaves a
\* speed above 0, so it is left out.
DriverControl ==
    /\ drvPose # <<>>
    /\ ~done
    /\ \/ /\ travelled >= Laps * RoadLength
          /\ done' = TRUE
          /\ drvCmd' = [speed |-> 0, turn |-> 0]
          /\ finishedMsg' = TRUE
          /\ UNCHANGED index
       \/ /\ travelled < Laps * RoadLength
          /\ index' = Closest(drvPose)
          /\ drvCmd' = [speed |-> Speed, turn |-> TurnTo(index', Target(index'))]
          /\ UNCHANGED <<done, finishedMsg>>
    /\ UNCHANGED <<travelled, lastXy, drvPose>>
=============================================================================
