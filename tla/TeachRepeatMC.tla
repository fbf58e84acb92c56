--------------------------- MODULE TeachRepeatMC ----------------------------
EXTENDS TeachRepeat

\* A hairpin: two lanes 1.2 m apart, seven metres each, in decimetres.
mcRoad == <<<<0, 0>>, <<10, 0>>, <<20, 0>>, <<30, 0>>, <<40, 0>>, <<50, 0>>, <<60, 0>>, <<70, 0>>,
            <<76, 6>>,
            <<70, 12>>, <<60, 12>>, <<50, 12>>, <<40, 12>>, <<30, 12>>, <<20, 12>>, <<10, 12>>, <<0, 12>>,
            <<-6, 6>>,
            <<0, 0>>>>
mcSources == {SOURCE_ODOMETRY, SOURCE_RAW_ANTENNA}

\* A route recorded at the antenna is not repeated: its lap may be any of a few
\* steps aside on both lanes, away from the bends.
mcTeachAside == [source \in mcSources |->
    IF source = SOURCE_RAW_ANTENNA THEN {1, 3, 5, 12, 14} ELSE {3}]
mcRepeatAside == {5, 15}
mcSigmas == {0, 3}
mcDiagonal == <<1, 1, 1000000, 1000000, 1000000, 1>>
mcTwistDiagonal == <<1, 1000000, 1000000, 1000000, 1000000, 3>>

\* A parabola is its own least-squares fit, at the ends of an open path too.
ASSUME SmoothingExact ==
    LET curve == [k \in 1 .. 8 |-> <<10 * k, 2 * k * k>>]
    IN  SavitzkyGolay(curve, 5, FALSE) = curve
=============================================================================
