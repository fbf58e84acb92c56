---------------------------- MODULE ScanSafetyMC ----------------------------
EXTENDS ScanSafety

mcA == [angle_min |-> -180, angle_increment |-> 90, beams |-> 4]
mcB == [angle_min |-> 0, angle_increment |-> 90, beams |-> 4]

mcScan(g, near, r) ==
    [geom |-> g, range_max |-> 1200,
     ranges |-> [i \in 0 .. g.beams - 1 |-> IF i = near THEN r ELSE 300]]

\* Robot-forward (180 degrees) is beam 0 of geometry A and beam 2 of B.
mcScans ==
    {mcScan(mcA, 0, 300),     \* clear
     mcScan(mcA, 0, 30),      \* an obstacle ahead
     mcScan(mcA, 2, 30),      \* an obstacle behind
     mcScan(mcB, 2, 49),      \* ahead, at another scan geometry
     mcScan(mcB, 0, 30)}      \* behind, at that geometry

mcFwd == [lin |-> 1, ang |-> 1]
mcCmds == {mcFwd, [lin |-> -1, ang |-> 0], [lin |-> 0, ang |-> 1]}
=============================================================================
