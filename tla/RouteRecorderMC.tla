-------------------------- MODULE RouteRecorderMC ---------------------------
EXTENDS RouteRecorder

mcPlaces == 0 .. 1
mcRoad == 0 .. 2
mcSources == {"odometry_global", "fix_lever_arm"}
mcOdometry == {"odometry_global"}
mcOneWay == {1}
mcBothWays == {1, -1}
mcFix(st, sg) == [status |-> st, sigma |-> sg]
mcFixes == {mcFix(-1, 3), mcFix(0, 3)}
=============================================================================
