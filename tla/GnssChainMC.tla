----------------------------- MODULE GnssChainMC ----------------------------
EXTENDS GnssChain

\* No fix: empty fields and the placeholder heading.  A single-point fix, one
\* axis of which happens to be good.  A fixed solution.  The robot's yaw is
\* 30 degrees, so that of its baseline is 120 and its compass heading 330.
Says(position, q, hdop, east, north, heading, headingQuality, status) ==
    [count |-> 17, lat |-> position, lon |-> position, quality |-> q,
     hdop |-> hdop, stdLon |-> east, stdLat |-> north, heading |-> heading,
     headingQuality |-> headingQuality, status |-> status,
     course |-> NoField, speed |-> 0, yaw |-> 30]

MCReport ==
    [none |-> Says(NoField, 0, NoField, NoField, NoField, 0, 0, "V"),
     single |-> Says(47, 1, 2, 4, 300, 0, 0, "A"),
     rtk |-> Says(47, 4, 2, 1, 1, 330, 3, "A")]

MCYawOffset == -90
MCOutputMessages == <<"GGA", "GST", "RMC", "VTG", "KSXT", "UNIHEADING">>
=============================================================================
