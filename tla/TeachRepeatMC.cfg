CONSTANTS
    Road <- mcRoad
    RoadLength = 172
    Search = 4
    Lookahead = 15
    Ramp = 20
    Laps = 1
    Sigmas <- mcSigmas
    StartSigma = 0
    Tails = 1
    PoseDiagonal <- mcDiagonal
    TwistDiagonal <- mcTwistDiagonal
    TeachAside <- mcTeachAside
    RepeatAside <- mcRepeatAside
    Sidestep = 8
    MaxLag = 2
    TaughtSources <- mcSources
    TaughtSigma = 41
    Step = 8
    Smooth = 5
    Window = 30
    Trigger = 40
    SigmaStop = 2
    Slack = 40
SPECIFICATION TeachSpec
INVARIANTS
    LapTaught
    LoadedIsPrefix
    StationTrue
CHECK_DEADLOCK FALSE
