------------------------------ MODULE GnssChain -----------------------------
(***************************************************************************)
(* From the receiver to the filters: the UM982 driver, the confidence gate *)
(* on its fixes and the yaw adapter on its headings.  The adapters answer  *)
(* every message with a function of it, so they are read off the message   *)
(* the driver publishes.                                                   *)
(***************************************************************************)
EXTENDS Um982Driver, GnssLoc

\* The gate: a threshold below half the estimate for a float solution, an
\* inflation that inflates, and no heading without a solved baseline
\* (confidence_gate.yaml, um982_driver_node.cpp).
ASSUME GateAssumption ==
    /\ 2 * MaxSigma < 30 /\ Inflation > 1
    /\ MinHeadingQuality > 0 /\ GstStale > 0

\* The receiver: what it reports are numbers or empty fields; it claims a fix
\* only with a position and a fixed solution only when it has one, and without
\* one both its sigmas are empty or one of them is beyond the gate's threshold.
ASSUME ReceiverAssumption ==
    \A s \in Skies :
        LET r == Report[s]
        IN  /\ r.quality \in Int \cup {NoField} /\ r.hdop \in Int \cup {NoField}
            /\ r.stdLat \in Nat \cup {NoField} /\ r.stdLon \in Nat \cup {NoField}
            /\ r.quality \in 1 .. 6 => r.lat # NoField /\ r.lon # NoField
            /\ s # "rtk" =>
                /\ r.quality # 4
                /\ \/ r.stdLat = NoField /\ r.stdLon = NoField
                   \/ \E std \in {r.stdLat, r.stdLon} : std # NoField /\ std > MaxSigma

\* The mount: the compass heading of a solved baseline is that of the robot's
\* yaw, seen through the angle between the two (heading_to_imu.yaml).
ASSUME MountAssumption ==
    \A s \in Skies :
        LET r == Report[s]
        IN  /\ r.headingQuality \in 0 .. 255 \cup {NoField}
            /\ r.headingQuality \notin {0, NoField} /\ r.heading # NoField =>
                /\ r.heading \in Int
                /\ r.yaw = IF Invert THEN (YawOffset - 90 + r.heading) % 360
                           ELSE (YawOffset + 90 - r.heading) % 360

\* What the global filter receives for the messages in `pub`.
Fixes == {m \in pub : m.topic = "fix"}
EkfFixes == UNION {Gated(m) : m \in Fixes}
EkfYaws == {ImuYaw(m.yaw) : m \in {h \in pub : h.topic = "heading"}}

\* The fixes the filter receives as the driver published them.
AtFaceValue == Fixes \cap EkfFixes

-----------------------------------------------------------------------------
(* Properties *)

\* Claimed at confidence_gate.cpp:21: only RTK-Fixed passes.  A fix that reaches
\* the filter at face value has a position and a receiver behind it that had a
\* fixed solution less than two seconds before.
GateTruth ==
    [][\A m \in AtFaceValue' : m.position /\ since < GstStale]_pub

\* The variances that the empty fields of a recent GST become.
EmptySigmas(m) == m.type = "KNOWN" /\ m.east = 0 /\ m.north = 0

\* It has one unless the receiver sent its last GST with empty fields, which the
\* gate cannot tell from a perfect fix: old sigmas, damaged lines, a single-point
\* solution with one good axis and the (0, 0) of a missing position do not pass.
GatePassesFixed ==
    [][\A m \in AtFaceValue' : m.position /\ (since < GstStale \/ EmptySigmas(m))]_pub

\* Every yaw the filter receives is the robot's: the receiver's compass
\* heading of a sideways baseline is turned twice on the way, and the
\* placeholder of an unsolved baseline never gets through.
YawTrue == [][\A y \in EkfYaws' : y = Report[sky].yaw]_pub

\* A receiver that keeps its fixed solution, behind a driver that stays up,
\* gets its position to the filter at face value, again and again.
RtkReachesEkf ==
    <>[](/\ sky = "rtk" /\ logs = Kinds
         /\ lc = "active" /\ cb = "idle" /\ fd = "ok")
        => []<>(\E m \in AtFaceValue : m.status = "GBAS_FIX")

=============================================================================
