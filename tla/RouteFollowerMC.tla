-------------------------- MODULE RouteFollowerMC ---------------------------
EXTENDS RouteFollower

mcFix(k, st, e, n) == [known |-> k, status |-> st, east |-> e, north |-> n]
mcGood == mcFix(TRUE, 2, 1, 1)
mcNorth == mcFix(TRUE, 1, 1, 2)      \* degraded on one axis only
mcNoCov == mcFix(FALSE, 0, 0, 0)
mcNoFix == mcFix(TRUE, -1, 1, 1)

mcTwoFixes == {mcGood, mcNoFix}
mcFewFixes == {mcGood, mcNorth, mcNoCov}

mcRet(st, lat) == [station |-> st, lat |-> lat]
\* Offsets at 0, 4 and 8; a return blocks what it is within 4 of.
mcCentre == mcRet(3, 0)
mcBetween == mcRet(3, 2)
mcShoulder == mcRet(3, 6)
mcScans == {{}, {mcCentre}, {mcBetween}, {mcShoulder}, {mcBetween, mcShoulder}}
mcWalls == {{}, {mcRet(3, -5)}}     \* blocks the centre, not the shoulder

mcNoNoise == {0}
mcNoiseBack == {-1, 0}
mcOneSpeed == {1}
mcSpeeds == {1, 2}
mcTurns == {1}
mcStraight == {0}
=============================================================================
