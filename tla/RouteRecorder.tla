--------------------------- MODULE RouteRecorder ----------------------------
(***************************************************************************)
(* The teach half of teach-and-repeat (route_recorder.py, route_file.py):  *)
(* stations are buffered as the robot is driven, ~/save converts them to   *)
(* geodetic and writes the route file, ~/discard empties the buffer.       *)
(*                                                                         *)
(* Three callback groups run in parallel under a MultiThreadedExecutor:    *)
(* the subscriptions (one callback at a time, `pend`), the two services    *)
(* (one at a time, `serve`) and the toLL client.  A callback is therefore  *)
(* broken into the steps between which another thread can touch the        *)
(* shared buffer.  Places are integers on a line, the arm of the antenna   *)
(* is along the line, and yaw is one of the two directions 1 and -1.       *)
(***************************************************************************)
EXTENDS Integers, Sequences

CONSTANTS
    None,
    Sources,         \* the values of source to start with
    WantLoop,        \* loop
    Tolerance,       \* loop_closure_tolerance_m
    SampleDist,      \* sample_dist_m
    MinStations,     \* the 4 of save() and loads()
    Arm,             \* the antenna's lever arm
    FixedSigma, FloatSigma, SigmaInf,
    Places,          \* where the robot may drive
    Headings,        \* the directions it may face
    Fixes,           \* the fix qualities, as [status, sigma]
    MaxStations,     \* bound: stations buffered
    MaxDiscards      \* bound: calls of ~/discard

SourceOdometry == "odometry_global"
SourceLeverArm == "fix_lever_arm"
SourceRaw == "raw_antenna"

ASSUME RecorderAssumption ==
    /\ Sources \subseteq {SourceOdometry, SourceLeverArm, SourceRaw}
    /\ WantLoop \in BOOLEAN
    /\ Places \subseteq Int
    /\ Headings \subseteq {1, -1}
    /\ MinStations \in Nat \ {0}
    /\ MaxStations \in Nat /\ MaxDiscards \in Nat
    /\ Tolerance \in Int /\ SampleDist \in Int /\ Arm \in Int
    /\ None \notin Int

VARIABLES
    source,          \* _source, fixed at start-up
    robot, heading,  \* external: where base_link is
    yaw, fixClass, leverArm, anchor, stations,
    pend,            \* the subscription callback in progress, or None
    serve,           \* the service callback in progress, or None
    crashed,         \* an exception left a subscription callback
    file,            \* the file at output_path, or None
    epoch            \* history: discards begun so far

world == <<robot, heading>>
node == <<yaw, fixClass, leverArm>>
still == <<source, world, node>>
vars == <<still, anchor, stations, pend, serve, crashed, file, epoch>>

AbsInt(x) == IF x < 0 THEN -x ELSE x
Near(a, b) == AbsInt(a - b) <= Tolerance

-----------------------------------------------------------------------------
(* route_file.py *)

\* classify_fix over horizontal_sigma
ClassifyFix(m) ==
    IF m.status < 0 THEN "none"
    ELSE IF m.sigma <= 0 \/ m.sigma >= SigmaInf THEN "single"
    ELSE IF m.sigma <= FixedSigma THEN "fixed"
    ELSE IF m.sigma <= FloatSigma THEN "float"
    ELSE "single"

-----------------------------------------------------------------------------
(* Subscriptions *)

Antenna == robot + Arm * heading

SubtractLeverArm(lat) == lat - Arm * yaw

\* _consider's first test: a station without a fix is dropped.
Consider(pc, st) ==
    IF st.fix = "none" THEN None ELSE [pc |-> pc, st |-> st]

\* The robot drives to p, facing y, and odometry says so.
OnOdom(p, y) ==
    /\ pend = None
    /\ AbsInt(p - robot) <= 1
    /\ robot' = p
    /\ heading' = y
    /\ yaw' = y
    /\ pend' = IF source # SourceOdometry THEN None
               ELSE Consider("check", [at |-> p, x |-> p, yaw |-> y,
                                       fix |-> fixClass, epoch |-> epoch])
    /\ UNCHANGED <<source, fixClass, leverArm, anchor, stations, serve,
                   crashed, file, epoch>>

TryLeverArm ==
    /\ pend = None
    /\ source = SourceLeverArm
    /\ leverArm = None
    /\ leverArm' = Arm
    /\ UNCHANGED <<source, world, yaw, fixClass, anchor, stations, pend, serve,
                   crashed, file, epoch>>

OnFix(m) ==
    LET st == [at |-> IF source = SourceLeverArm THEN SubtractLeverArm(Antenna)
                      ELSE Antenna,
               x |-> None, yaw |-> yaw, fix |-> ClassifyFix(m), epoch |-> epoch]
    IN  /\ pend = None
        /\ fixClass' = ClassifyFix(m)
        /\ pend' = IF \/ source = SourceOdometry
                      \/ yaw = None
                      \/ source = SourceLeverArm /\ leverArm = None
                   THEN None
                   ELSE [pc |-> "anchor", st |-> st]
        /\ UNCHANGED <<source, world, yaw, leverArm, anchor, stations, serve,
                       crashed, file, epoch>>

\* _local_metric sets the anchor if there is none ...
LocalAnchor ==
    /\ pend # None
    /\ pend.pc = "anchor"
    /\ anchor' = IF anchor = None THEN pend.st.at ELSE anchor
    /\ pend' = [pend EXCEPT !.pc = "local"]
    /\ UNCHANGED <<still, stations, serve, crashed, file, epoch>>

\* ... and then reads it; a discard in between leaves None to unpack.
LocalMetric ==
    /\ pend # None
    /\ pend.pc = "local"
    /\ crashed' = (anchor = None)
    /\ pend' = IF anchor = None THEN None
               ELSE Consider("check", [pend.st EXCEPT !.x = pend.st.at - anchor])
    /\ UNCHANGED <<still, anchor, stations, serve, file, epoch>>

\* mutant: the buffer is indexed without looking
CheckBuffer_Blind ==
    /\ pend # None
    /\ pend.pc = "check"
    /\ pend' = [pend EXCEPT !.pc = "compare"]
    /\ UNCHANGED <<still, anchor, stations, serve, crashed, file, epoch>>

\* if self._stations: ...
CheckBuffer ==
    /\ pend # None
    /\ pend.pc = "check"
    /\ pend' = [pend EXCEPT !.pc = IF stations = <<>> THEN "append" ELSE "compare"]
    /\ UNCHANGED <<still, anchor, stations, serve, crashed, file, epoch>>

Triggered(st, previous) ==
    \/ AbsInt(st.x - previous.x) >= SampleDist
    \/ st.yaw # previous.yaw

\* previous = self._stations[-1], which a discard may have emptied.
ComparePrevious ==
    /\ pend # None
    /\ pend.pc = "compare"
    /\ crashed' = (stations = <<>>)
    /\ pend' = IF stations = <<>> THEN None
               ELSE IF Triggered(pend.st, stations[Len(stations)])
               THEN [pend EXCEPT !.pc = "append"]
               ELSE None
    /\ UNCHANGED <<still, anchor, stations, serve, file, epoch>>

AppendStation ==
    /\ pend # None
    /\ pend.pc = "append"
    /\ Len(stations) < MaxStations
    /\ stations' = Append(stations, pend.st)
    /\ pend' = None
    /\ UNCHANGED <<still, anchor, serve, crashed, file, epoch>>

-----------------------------------------------------------------------------
(* Services *)

\* mutant: discard is not in the service's callback group
DiscardBegin_NoGroup ==
    /\ epoch < MaxDiscards
    /\ stations' = <<>>
    /\ epoch' = epoch + 1
    /\ serve' = IF serve = None THEN [pc |-> "unanchor"] ELSE serve
    /\ UNCHANGED <<still, anchor, pend, crashed, file>>

\* mutant: only the anchor is thrown away
DiscardBegin_KeepBuffer ==
    /\ serve = None
    /\ epoch < MaxDiscards
    /\ epoch' = epoch + 1
    /\ serve' = [pc |-> "unanchor"]
    /\ UNCHANGED <<still, anchor, stations, pend, crashed, file>>

\* _on_discard empties the buffer ...
DiscardBegin ==
    /\ serve = None
    /\ epoch < MaxDiscards
    /\ stations' = <<>>
    /\ epoch' = epoch + 1
    /\ serve' = [pc |-> "unanchor"]
    /\ UNCHANGED <<still, anchor, pend, crashed, file>>

\* ... and then forgets the anchor.
DiscardEnd ==
    /\ serve # None
    /\ serve.pc = "unanchor"
    /\ anchor' = None
    /\ serve' = None
    /\ UNCHANGED <<still, stations, pend, crashed, file, epoch>>

\* mutant: save writes whatever there is
SaveBegin_NoMinimum ==
    /\ serve = None
    /\ stations # <<>>
    /\ serve' = [pc |-> "convert", geo |-> <<>>]
    /\ UNCHANGED <<still, anchor, stations, pend, crashed, file, epoch>>

\* save() refuses a short buffer.  Geodetic stations are copied at once; map
\* stations are converted one toLL call at a time.
SaveBegin ==
    /\ serve = None
    /\ Len(stations) >= MinStations
    /\ serve' = IF source = SourceOdometry
                THEN [pc |-> "convert", geo |-> <<>>]
                ELSE [pc |-> "datum", geo |-> [i \in DOMAIN stations |-> stations[i].at]]
    /\ UNCHANGED <<still, anchor, stations, pend, crashed, file, epoch>>

\* Any wait on toLL may time out: save() raises and ~/save answers no.
TollTimeout ==
    /\ serve # None
    /\ serve.pc \in {"datum", "convert"}
    /\ serve' = None
    /\ UNCHANGED <<still, anchor, stations, pend, crashed, file, epoch>>

\* The datum call of a geodetic source is answered, or toLL is not there.
DatumKnown ==
    /\ serve # None
    /\ serve.pc = "datum"
    /\ serve' = [serve EXCEPT !.pc = "zip"]
    /\ UNCHANGED <<still, anchor, stations, pend, crashed, file, epoch>>

\* The next station of the live buffer is converted; at its end, go on.
ConvertNext ==
    /\ serve # None
    /\ serve.pc = "convert"
    /\ serve' = IF Len(serve.geo) < Len(stations)
                THEN [serve EXCEPT !.geo =
                        Append(@, stations[Len(serve.geo) + 1].at)]
                ELSE [serve EXCEPT !.pc = "zip"]
    /\ UNCHANGED <<still, anchor, stations, pend, crashed, file, epoch>>

\* zip(self._stations, geodetic): as long as the shorter of the two.
ZipSamples ==
    /\ serve # None
    /\ serve.pc = "zip"
    /\ LET n == IF Len(serve.geo) < Len(stations) THEN Len(serve.geo)
                ELSE Len(stations)
       IN  serve' = [pc |-> "loop",
                     samples |-> [i \in 1 .. n |->
                        [lat |-> serve.geo[i], st |-> stations[i]]]]
    /\ UNCHANGED <<still, anchor, stations, pend, crashed, file, epoch>>

\* _resolve_loop reads the ends of the live buffer.
ResolveLoop ==
    /\ serve # None
    /\ serve.pc = "loop"
    /\ serve' = [pc |-> "write", samples |-> serve.samples,
                 loop |-> WantLoop /\ Near(stations[Len(stations)].x, stations[1].x)]
    /\ UNCHANGED <<still, anchor, stations, pend, crashed, file, epoch>>

\* The file is opened, written and closed; nothing else of the node reads it.
WriteFile ==
    /\ serve # None
    /\ serve.pc = "write"
    /\ file' = [samples |-> serve.samples, loop |-> serve.loop]
    /\ serve' = None
    /\ UNCHANGED <<still, anchor, stations, pend, crashed, epoch>>

-----------------------------------------------------------------------------
Init ==
    /\ source \in Sources
    /\ robot = 0 /\ heading = 1
    /\ yaw = None /\ fixClass = "none" /\ leverArm = None
    /\ anchor = None /\ stations = <<>>
    /\ pend = None /\ serve = None
    /\ crashed = FALSE
    /\ file = None
    /\ epoch = 0

Subscribe ==
    \/ \E p \in Places, y \in Headings : OnOdom(p, y)
    \/ \E m \in Fixes : OnFix(m)
    \/ TryLeverArm
    \/ LocalAnchor
    \/ LocalMetric
    \/ CheckBuffer
    \/ ComparePrevious
    \/ AppendStation

SaveStep ==
    \/ DatumKnown
    \/ ConvertNext
    \/ ZipSamples
    \/ ResolveLoop
    \/ WriteFile

Serve ==
    \/ DiscardBegin
    \/ DiscardEnd
    \/ SaveBegin
    \/ TollTimeout
    \/ SaveStep

Next == ~crashed /\ (Subscribe \/ Serve)

Spec == Init /\ [][Next]_vars

-----------------------------------------------------------------------------
(* Properties *)

Station == [at : Int, x : Int, yaw : {1, -1},
            fix : {"none", "single", "float", "fixed"}, epoch : 0 .. MaxDiscards]

\* Types; a station is complete, local coordinates included, before _consider
\* looks at the buffer.
TypeOK ==
    /\ source \in Sources
    /\ robot \in Int /\ heading \in {1, -1}
    /\ yaw \in {1, -1, None}
    /\ fixClass \in {"none", "single", "float", "fixed"}
    /\ anchor \in Int \cup {None}
    /\ stations \in Seq(Station) /\ Len(stations) <= MaxStations
    /\ pend # None /\ pend.pc \in {"check", "compare", "append"}
          => pend.st \in Station
    /\ crashed \in BOOLEAN
    /\ epoch \in 0 .. MaxDiscards

\* While a save is in progress the buffer only grows under it: conversions,
\* pairing and the file always speak of the same stations (save, _to_geodetic).
SavePairsStations ==
    serve # None =>
        /\ serve.pc \in {"convert", "zip"} =>
              /\ Len(serve.geo) <= Len(stations)
              /\ \A i \in DOMAIN serve.geo : serve.geo[i] = stations[i].at
        /\ serve.pc \in {"loop", "write"} =>
              \A i \in DOMAIN serve.samples :
                  /\ serve.samples[i].st = stations[i]
                  /\ serve.samples[i].lat = stations[i].at

\* A route that was written has enough stations for a spline, every one taken on
\* a fix and apart from the one before it.  For the sources that measure from an
\* anchor this needs a recording that was never discarded: a callback caught in
\* the middle of one brings a station of the old frame into the new buffer.
RouteUsable ==
    file # None /\ (source = SourceOdometry \/ epoch = 0) =>
        /\ Len(file.samples) >= MinStations
        /\ \A i \in DOMAIN file.samples : file.samples[i].st.fix # "none"
        /\ \A i \in 2 .. Len(file.samples) :
              \/ AbsInt(file.samples[i].lat - file.samples[i - 1].lat) >= SampleDist
              \/ file.samples[i].st.yaw # file.samples[i - 1].st.yaw

\* Only a ~/discard can make a subscription callback raise: a recording that is
\* never discarded never loses the node (_consider, _local_metric).
FaultNeedsDiscard == crashed => epoch > 0

\* After a ~/discard the buffer is that of a new recording but for its first
\* station: the one subscription callback in progress may still bring what it
\* saw before, and nothing else does (_on_discard, _consider).
DiscardStartsOver ==
    \A i \in DOMAIN stations : i > 1 => stations[i].epoch = epoch
=============================================================================
