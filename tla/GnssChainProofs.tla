--------------------------- MODULE GnssChainProofs --------------------------
(***************************************************************************)
(* Proofs about the chain from the UM982 receiver to the filters, for      *)
(* every receiver, number of things it may see, age limit and gate that    *)
(* the assumptions of GnssChain admit.                                     *)
(***************************************************************************)
EXTENDS GnssChain, TLAPS

-----------------------------------------------------------------------------
(* What the receiver says at a sky *)

Said(s, name) == IF Report[s][name] = NoField THEN 0 ELSE Report[s][name]

\* The GGA and the GST the parsers make of it.
GgaAt(s) ==
    [position |-> Report[s].lat # NoField /\ Report[s].lon # NoField,
     quality |-> IF Said(s, "quality") \in 0 .. 8 THEN Said(s, "quality") ELSE 0,
     hdop |-> Said(s, "hdop")]
GstAt(s) == [lat |-> Said(s, "stdLat"), lon |-> Said(s, "stdLon"), age |-> 0]

LEMMA SaidNumbers ==
    ASSUME NEW s \in Skies
    PROVE  /\ Said(s, "quality") \in Int /\ Said(s, "hdop") \in Int
           /\ Said(s, "stdLat") \in Nat /\ Said(s, "stdLon") \in Nat
  BY ReceiverAssumption DEF Said

\* An intact sentence of the receiver.
Hears ==
    /\ UNCHANGED receiver
    /\ \E kind \in Kinds : handle_sentence(SentenceOf(kind, sky, TRUE))

\* The topics of what a sentence leads to, and what it leaves of a GST.
LEMMA Heard ==
    ASSUME Hears
    PROVE  /\ \A f \in pub' : f.topic = "fix" => f = Fix(GgaAt(sky))
           /\ \A h \in pub' : h.topic = "heading" =>
                /\ Report[sky].heading # NoField
                /\ Report[sky].headingQuality # NoField
                /\ Report[sky].headingQuality % 256 >= MinHeadingQuality
                /\ h.yaw = (90 - Report[sky].heading) % 360
           /\ gst' \in {gst, GstAt(sky)}
  <1>1. PICK kind \in Kinds : handle_sentence(SentenceOf(kind, sky, TRUE))
    BY DEF Hears
  <1>2. PICK s : s = SentenceOf(kind, sky, TRUE)
    OBVIOUS
  <1>3. s.sum = TRUE /\ s.id = kind /\ s.count = Report[sky].count /\ s.fields = Report[sky]
    BY <1>2 DEF SentenceOf
  <1>4. PICK raw : raw = Published([topic |-> "nmea", id |-> s.id])
    OBVIOUS
  <1>5. \A m \in raw : m.topic = "nmea"
    BY <1>4 DEF Published
  <1>6. CASE s.family = "unicore"
    BY <1>1, <1>2, <1>6 DEF handle_sentence
  <1>7. CASE s.family # "unicore" /\ \E gga \in parse_gga(s) : publish_gga(gga, raw)
    <2>1. PICK gga \in parse_gga(s) : publish_gga(gga, raw)
      BY <1>7
    <2>2. gga = GgaAt(sky)
      BY <1>3 DEF parse_gga, Optional, Value, parse_latlon, GgaAt, Said
    <2>3. pub' = raw \cup Published(Fix(gga)) /\ gst' = gst
      BY <2>1 DEF publish_gga
    <2>4. Fix(gga).topic = "fix"
      BY DEF Fix
    <2>5. \A m \in pub' : m.topic = "nmea" \/ (m.topic = "fix" /\ m = Fix(gga))
      BY <1>5, <2>3, <2>4 DEF Published
    <2> QED
      BY <2>2, <2>3, <2>5
  <1>8. CASE /\ s.family # "unicore"
             /\ pub' = raw \cup UNION (  {publish_rmc(r) : r \in parse_rmc(s)}
                                       \cup {publish_vtg(v) : v \in parse_vtg(s)}
                                       \cup {publish_ksxt(k) : k \in parse_ksxt(s)})
             /\ gst' \in parse_gst(s) \/ gst' = gst
    <2>1. \A r \in parse_rmc(s) : \A m \in publish_rmc(r) : m.topic = "time"
      BY DEF publish_rmc, Published
    <2>2. \A v \in parse_vtg(s) : \A m \in publish_vtg(v) : m.topic = "velocity"
      BY DEF publish_vtg, Published
    <2>3. ASSUME NEW k \in parse_ksxt(s), NEW h \in publish_ksxt(k)
          PROVE  /\ h.topic = "heading"
                 /\ Report[sky].heading # NoField
                 /\ Report[sky].headingQuality # NoField
                 /\ Report[sky].headingQuality % 256 >= MinHeadingQuality
                 /\ h.yaw = (90 - Report[sky].heading) % 360
      <3>1. /\ k.heading = Report[sky].heading
            /\ k.quality = IF Report[sky].count > 11
                           THEN (IF Report[sky].headingQuality = NoField THEN 0
                                 ELSE Report[sky].headingQuality) % 256
                           ELSE 0
        BY <1>3 DEF parse_ksxt, Optional, Value
      <3>2. /\ k.heading # NoField /\ k.quality >= MinHeadingQuality
            /\ h = [topic |-> "heading", yaw |-> (90 - k.heading) % 360]
        BY <2>3 DEF publish_ksxt, Published
      <3>3. MinHeadingQuality \in Nat /\ MinHeadingQuality > 0 /\ 0 % 256 = 0
        BY GateAssumption, DriverAssumption
      <3>4. k.quality # 0
        BY <3>2, <3>3
      <3>5. Report[sky].headingQuality # NoField /\ k.quality = Report[sky].headingQuality % 256
        BY <3>1, <3>3, <3>4
      <3> QED
        BY <3>1, <3>2, <3>5
    <2>4. ASSUME NEW m \in pub'
          PROVE  \/ m \in raw
                 \/ \E r \in parse_rmc(s) : m \in publish_rmc(r)
                 \/ \E v \in parse_vtg(s) : m \in publish_vtg(v)
                 \/ \E k \in parse_ksxt(s) : m \in publish_ksxt(k)
      BY <1>8, <2>4
    <2>5. \A m \in pub' : m.topic # "fix"
      BY <1>5, <2>1, <2>2, <2>3, <2>4
    <2>6. ASSUME NEW h \in pub', h.topic = "heading"
          PROVE  /\ Report[sky].heading # NoField
                 /\ Report[sky].headingQuality # NoField
                 /\ Report[sky].headingQuality % 256 >= MinHeadingQuality
                 /\ h.yaw = (90 - Report[sky].heading) % 360
      <3>1. \E k \in parse_ksxt(s) : h \in publish_ksxt(k)
        BY <1>5, <2>1, <2>2, <2>4, <2>6
      <3> QED
        BY <3>1, <2>3
    <2>7. gst' \in {gst, GstAt(sky)}
      BY <1>3, <1>8 DEF parse_gst, Optional, Value, GstAt, Said
    <2> QED
      BY <2>5, <2>6, <2>7
  <1>9. \/ s.family = "unicore"
        \/ s.family # "unicore" /\ \E gga \in parse_gga(s) : publish_gga(gga, raw)
        \/ /\ s.family # "unicore"
           /\ pub' = raw \cup UNION (  {publish_rmc(r) : r \in parse_rmc(s)}
                                     \cup {publish_vtg(v) : v \in parse_vtg(s)}
                                     \cup {publish_ksxt(k) : k \in parse_ksxt(s)})
           /\ gst' \in parse_gst(s) \/ gst' = gst
    BY <1>1, <1>2, <1>3, <1>4 DEF handle_sentence, Verified
  <1> QED
    BY <1>6, <1>7, <1>8, <1>9

\* A sentence that was damaged leads to nothing.
LEMMA Damaged ==
    ASSUME NEW kind, NEW at, handle_sentence(SentenceOf(kind, at, FALSE))
    PROVE  pub' = {} /\ gst' = gst
  <1>1. ~SentenceOf(kind, at, FALSE).sum
    BY DEF SentenceOf
  <1> QED
    BY <1>1 DEF handle_sentence, Verified

\* Every step hears an intact sentence, or publishes nothing new and is the
\* clock's, the receiver's or leaves the sigmas and the sky alone.
Looks == (\E s \in Skies : Sees(s)) /\ UNCHANGED <<gst, pub>>
Rests == UNCHANGED <<gst, since, sky>> /\ pub' \in {pub, {}}

LEMMA Steps ==
    ASSUME [Next]_vars
    PROVE  Hears \/ Looks \/ (Tick /\ pub' = pub) \/ Rests
  <1> USE DEF node, snapshot, receiver
  <1>1. CASE Clears \/ LosesCorrections
    BY <1>1 DEF Clears, LosesCorrections, Looks
  <1>2. CASE Restarts \/ Unplugged
    <2>1. "none" \in Skies
      BY DriverAssumption
    <2> QED
      BY <1>2, <2>1 DEF Restarts, Unplugged, Resets, Looks
  <1>3. CASE Plugged
    BY <1>3 DEF Plugged, Rests
  <1>4. CASE Tick
    BY <1>4 DEF Tick
  <1>5. CASE on_configure \/ on_activate \/ on_deactivate \/ Deactivated \/ on_cleanup
    BY <1>5 DEF on_configure, on_activate, on_deactivate, Deactivated, on_cleanup, Rests
  <1>6. CASE Stop \/ Stopped \/ on_rtcm \/ produce_diagnostics
    BY <1>6 DEF Stop, Stopped, on_rtcm, produce_diagnostics, Rests
  <1>7. CASE Test \/ Enter \/ ReadPiece
    BY <1>7 DEF Test, Enter, ReadPiece, Goto, Rests
  <1>8. CASE \E k \in Kinds : ReadSentence(k)
    BY <1>8 DEF ReadSentence, Goto, Hears
  <1>9. CASE \E k \in Kinds : ReadDamaged(k)
    <2>1. PICK k \in Kinds : ReadDamaged(k)
      BY <1>9
    <2>2. PICK at \in Skies : handle_sentence(SentenceOf(k, at, FALSE))
      BY <2>1 DEF ReadDamaged
    <2>3. pub' = {} /\ gst' = gst
      BY <2>2, Damaged
    <2> QED
      BY <2>1, <2>3 DEF ReadDamaged, Goto, Rests
  <1>10. CASE UNCHANGED vars
    BY <1>10 DEF vars, Rests
  <1> QED
    BY <1>1, <1>2, <1>3, <1>4, <1>5, <1>6, <1>7, <1>8, <1>9, <1>10
    DEF Next, External, Executor, IoStep

-----------------------------------------------------------------------------
(* The sigmas *)

\* Sigmas that count as recent are those of something the receiver saw; if it
\* was a fixed solution, the last one is no older than they are.
SigmasTrue ==
    /\ sky \in Skies
    /\ since \in Nat
    /\ gst \in [lat : Nat, lon : Nat, age : Nat]
    /\ sky = "rtk" => since = 0
    /\ gst.age < GstStale =>
        \E s \in Skies :
            /\ gst.lat = Said(s, "stdLat") /\ gst.lon = Said(s, "stdLon")
            /\ s = "rtk" => since <= gst.age

LEMMA InitSigmas == Init => SigmasTrue
  <1> SUFFICES ASSUME Init PROVE SigmasTrue
    OBVIOUS
  <1>1. GstStale \in Nat /\ "none" \in Skies
    BY DriverAssumption
  <1>2. sky = "none" /\ since = GstStale /\ gst = [lat |-> 0, lon |-> 0, age |-> GstStale]
    BY DEF Init, NoGst
  <1> QED
    BY <1>1, <1>2 DEF SigmasTrue

LEMMA NextSigmas == SigmasTrue /\ [Next]_vars => SigmasTrue'
  <1> SUFFICES ASSUME SigmasTrue, [Next]_vars PROVE SigmasTrue'
    OBVIOUS
  <1>0. GstStale \in Nat
    BY DriverAssumption
  <1>1. CASE Hears
    <2>1. sky \in Skies /\ UNCHANGED <<sky, since>> /\ gst' \in {gst, GstAt(sky)}
      BY <1>1, Heard DEF Hears, receiver, SigmasTrue
    <2>2. CASE gst' = gst
      BY <2>1, <2>2 DEF SigmasTrue
    <2>3. CASE gst' = GstAt(sky)
      <3>1. /\ gst'.lat = Said(sky, "stdLat") /\ gst'.lon = Said(sky, "stdLon")
            /\ gst'.age = 0 /\ gst' \in [lat : Nat, lon : Nat, age : Nat]
        BY <2>1, <2>3, SaidNumbers DEF GstAt
      <3>2. sky = "rtk" => since <= 0
        BY DEF SigmasTrue
      <3> QED
        BY <2>1, <3>1, <3>2 DEF SigmasTrue
    <2> QED
      BY <2>1, <2>2, <2>3
  <1>2. CASE Looks
    <2>1. PICK s \in Skies : Sees(s)
      BY <1>2 DEF Looks
    <2>2. gst' = gst /\ sky' = s /\ since' \in Nat /\ since' <= since /\ (s = "rtk" => since' = 0)
      BY <1>2, <2>1 DEF Looks, Sees, SigmasTrue
    <2> QED
      BY <1>0, <2>2 DEF SigmasTrue
  <1>3. CASE Tick
    <2>1. /\ gst' = [gst EXCEPT !.age = Older(gst.age)] /\ sky' = sky
          /\ since' = IF sky = "rtk" THEN 0 ELSE Older(since)
      BY <1>3 DEF Tick
    <2>2. /\ gst'.lat = gst.lat /\ gst'.lon = gst.lon /\ gst'.age = Older(gst.age)
          /\ gst' \in [lat : Nat, lon : Nat, age : Nat] /\ gst.age \in Nat
      BY <1>0, <2>1 DEF SigmasTrue, Older
    <2>3. since' \in Nat /\ since' <= since + 1 /\ (sky' = "rtk" => since' = 0)
      BY <1>0, <2>1 DEF SigmasTrue, Older
    <2>4. gst'.age < GstStale => gst.age < GstStale /\ gst'.age = gst.age + 1
      BY <1>0, <2>2 DEF Older
    <2>5. ASSUME gst'.age < GstStale
          PROVE  \E s \in Skies : /\ gst'.lat = Said(s, "stdLat") /\ gst'.lon = Said(s, "stdLon")
                                  /\ s = "rtk" => since' <= gst'.age
      <3>1. PICK s \in Skies : /\ gst.lat = Said(s, "stdLat") /\ gst.lon = Said(s, "stdLon")
                               /\ s = "rtk" => since <= gst.age
        BY <2>4, <2>5 DEF SigmasTrue
      <3>2. s = "rtk" => since' <= gst'.age
        BY <2>2, <2>3, <2>4, <2>5, <3>1 DEF SigmasTrue
      <3> QED
        BY <2>2, <3>1, <3>2
    <2> QED
      BY <2>1, <2>2, <2>3, <2>5 DEF SigmasTrue
  <1>4. CASE Rests
    BY <1>4 DEF Rests, SigmasTrue
  <1> QED
    BY <1>1, <1>2, <1>3, <1>4, Steps

\* The sigmas the driver joins with a position are those of something the
\* receiver saw, and their age tells how old its fixed solution can be (last_gst_).
THEOREM InvariantHolds == Spec => []SigmasTrue
  BY InitSigmas, NextSigmas, PTL DEF Spec

-----------------------------------------------------------------------------
(* The gate *)

LEMMA SquareGrows ==
    ASSUME NEW a \in Nat, NEW b \in Nat, a > b
    PROVE  a * a > b * b
  <1>1. a * a >= a * b /\ a * b >= b * b /\ (a * a > a * b \/ b * b < a * b)
    BY Z3
  <1> QED
    BY <1>1

LEMMA Estimates ==
    ASSUME NEW q \in 0 .. 8, NEW h \in Nat \ {0}, NEW x, x = quality_to_sigma(q) * h
    PROVE  /\ (x * x) \div 4 \in Nat /\ (x * x) \div 4 >= 1
           /\ q # 4 => (x * x) \div 4 >= 225
  <1>1. /\ quality_to_sigma(q) \in Nat /\ quality_to_sigma(q) >= 2
        /\ q # 4 => quality_to_sigma(q) >= 30
    BY DEF quality_to_sigma
  <1>2. PICK c \in Nat : c = quality_to_sigma(q)
    BY <1>1
  <1>3. x \in Nat /\ x >= c
    BY <1>2, Z3
  <1>4. x * x >= c * c
    BY <1>2, <1>3, SquareGrows
  <1>5. x * x \in Nat /\ c * c >= 4 /\ (q # 4 => c * c >= 900)
    BY <1>1, <1>2, <1>3, SquareGrows
  <1> QED
    BY <1>4, <1>5

\* What the gate passes as it came is not degraded.
LEMMA PassedIsGood ==
    ASSUME NEW s \in Skies, NEW f, f = Fix(GgaAt(s)), f \in Gated(f),
           gst \in [lat : Nat, lon : Nat, age : Nat]
    PROVE  ~Degraded(f)
  <1>1. PICK g : g = GgaAt(s)
    OBVIOUS
  <1>2. g.quality \in 0 .. 8 /\ g.hdop \in Int
    BY <1>1, SaidNumbers DEF GgaAt
  <1>3. PICK h \in Nat \ {0} : h = IF g.hdop > 1 THEN g.hdop ELSE 1
    BY <1>2
  <1>4. PICK x : x = quality_to_sigma(g.quality) * h
    OBVIOUS
  <1>5. (x * x) \div 4 \in Nat /\ (x * x) \div 4 >= 1
    BY <1>2, <1>4, Estimates
  <1>6. f.type = "APPROXIMATED" => f.east = (x * x) \div 4
    BY <1>1, <1>3, <1>4 DEF Fix
  <1>7. SUFFICES ASSUME Degraded(f) PROVE FALSE
    OBVIOUS
  <1>8. f = [f EXCEPT !.east = @ * Inflation, !.north = @ * Inflation, !.type = "APPROXIMATED"]
    BY <1>7 DEF Gated
  <1>9. DOMAIN f = {"topic", "status", "position", "type", "east", "north"}
    BY DEF Fix
  <1>10. f.type = "APPROXIMATED" /\ f.east = f.east * Inflation
    BY <1>8, <1>9
  <1>11. PICK e \in Nat : e = f.east /\ e >= 1
    BY <1>5, <1>6, <1>10
  <1>12. Inflation \in Nat /\ Inflation > 1
    BY GateAssumption, LocAssumption
  <1>13. e = e * Inflation
    BY <1>10, <1>11
  <1> QED
    BY <1>11, <1>12, <1>13, Z3

\* The gate on the fix of a sky: with a position, and either beyond doubt by
\* sigmas that are the receiver's and recent, or by a fixed solution right now.
LEMMA GoodIsRecent ==
    ASSUME SigmasTrue, NEW f, f = Fix(GgaAt(sky)), ~Degraded(f)
    PROVE  f.position /\ (since < GstStale \/ EmptySigmas(f))
  <1>0. /\ sky \in Skies /\ since \in Nat /\ GstStale \in Nat /\ GstStale > 0
        /\ gst.lat \in Nat /\ gst.lon \in Nat /\ gst.age \in Nat
        /\ MaxSigma \in Nat /\ 2 * MaxSigma < 30
    BY DriverAssumption, GateAssumption, LocAssumption DEF SigmasTrue
  <1>1. PICK g : g = GgaAt(sky)
    OBVIOUS
  <1>2. /\ g.quality \in 0 .. 8 /\ g.hdop \in Int
        /\ g.quality # 0 => g.quality = Report[sky].quality
        /\ g.position = (Report[sky].lat # NoField /\ Report[sky].lon # NoField)
    BY <1>0, <1>1, SaidNumbers DEF GgaAt, Said
  <1>3. g.quality \in 1 .. 6
    <2>1. Status(g.quality) # "NO_FIX"
      BY <1>1 DEF Degraded, Fix
    <2> QED
      BY <1>2, <2>1 DEF Status
  <1>4. f.position
    <2>1. Report[sky].lat # NoField /\ Report[sky].lon # NoField
      BY <1>0, <1>2, <1>3, ReceiverAssumption
    <2> QED
      BY <1>1, <1>2, <2>1 DEF Fix
  <1>5. PICK limit \in Nat : limit = MaxSigma * MaxSigma /\ limit < 225
    <2>1. MaxSigma * MaxSigma \in Nat /\ 15 * 15 > MaxSigma * MaxSigma
      BY <1>0, SquareGrows
    <2> QED
      BY <2>1
  <1>6. f.east \in Nat /\ f.north \in Nat => f.east <= limit /\ f.north <= limit
    BY <1>5 DEF Degraded, Larger
  <1>7. CASE FreshGst
    <2>1. f.east = gst.lon * gst.lon /\ f.north = gst.lat * gst.lat
      BY <1>7 DEF Fix
    <2>2. gst.lon * gst.lon <= limit /\ gst.lat * gst.lat <= limit
      <3>1. gst.lon * gst.lon \in Nat /\ gst.lat * gst.lat \in Nat
        BY <1>0
      <3> QED
        BY <1>6, <2>1, <3>1
    <2>3. gst.lon <= MaxSigma /\ gst.lat <= MaxSigma
      <3>1. ASSUME NEW a \in Nat, a * a <= limit PROVE a <= MaxSigma
        <4>1. a > MaxSigma => a * a > MaxSigma * MaxSigma
          BY <1>0, SquareGrows
        <4> QED
          BY <1>0, <1>5, <3>1, <4>1
      <3> QED
        BY <1>0, <2>2, <3>1
    <2>4. PICK s \in Skies : /\ gst.lat = Said(s, "stdLat") /\ gst.lon = Said(s, "stdLon")
                             /\ s = "rtk" => since <= gst.age
      BY <1>7 DEF SigmasTrue, FreshGst
    <2>5. CASE s = "rtk"
      BY <1>0, <1>4, <1>7, <2>4, <2>5 DEF FreshGst
    <2>6. CASE s # "rtk"
      <3>1. gst.lon = 0 /\ gst.lat = 0
        <4>1. \/ Report[s].stdLat = NoField /\ Report[s].stdLon = NoField
              \/ \E std \in {Report[s].stdLat, Report[s].stdLon} :
                    std # NoField /\ std > MaxSigma
          BY <2>6, ReceiverAssumption
        <4> QED
          BY <1>0, <2>3, <2>4, <4>1 DEF Said
      <3>2. f.type = "KNOWN"
        BY <1>7 DEF Fix
      <3> QED
        BY <1>4, <2>1, <3>1, <3>2 DEF EmptySigmas
    <2> QED
      BY <2>5, <2>6
  <1>8. CASE ~FreshGst
    <2>1. CASE sky = "rtk"
      BY <1>0, <1>4, <2>1 DEF SigmasTrue
    <2>2. CASE sky # "rtk"
      <3>1. g.quality # 4
        BY <1>0, <1>2, <2>2, ReceiverAssumption
      <3>2. PICK h \in Nat \ {0} : h = IF g.hdop > 1 THEN g.hdop ELSE 1
        BY <1>2
      <3>3. PICK x : x = quality_to_sigma(g.quality) * h
        OBVIOUS
      <3>4. (x * x) \div 4 \in Nat /\ (x * x) \div 4 >= 225
        BY <1>2, <3>1, <3>3, Estimates
      <3>5. f.east = (x * x) \div 4 /\ f.north = (x * x) \div 4
        BY <1>1, <1>8, <3>2, <3>3 DEF Fix
      <3> QED
        BY <1>5, <1>6, <3>4, <3>5
    <2> QED
      BY <2>1, <2>2
  <1> QED
    BY <1>7, <1>8

LEMMA GateStep ==
    ASSUME SigmasTrue, [Next]_vars, pub' # pub, NEW m \in AtFaceValue'
    PROVE  m.position /\ (since < GstStale \/ EmptySigmas(m))
  <1>1. m \in pub' /\ m.topic = "fix"
    BY DEF AtFaceValue, Fixes
  <1>2. Hears
    BY <1>1, Steps DEF Looks, Rests
  <1>3. PICK f : f = Fix(GgaAt(sky))
    OBVIOUS
  <1>4. m = f
    BY <1>1, <1>2, <1>3, Heard
  <1>5. PICK from \in pub' : from.topic = "fix" /\ m \in Gated(from)
    BY DEF AtFaceValue, EkfFixes, Fixes
  <1>6. from = f
    BY <1>2, <1>3, <1>5, Heard
  <1>7. sky \in Skies /\ gst \in [lat : Nat, lon : Nat, age : Nat]
    BY DEF SigmasTrue
  <1>8. ~Degraded(f)
    BY <1>3, <1>4, <1>5, <1>6, <1>7, PassedIsGood
  <1> QED
    BY <1>3, <1>4, <1>8, GoodIsRecent

\* What reaches the filter at face value has a position and a fixed solution less
\* than GstStale before, or the zero variances of a GST with empty fields
\* (publish_gga, ConfidenceGate::callback).
THEOREM GateIsTrue == Spec => GatePassesFixed
  <1>1. SigmasTrue /\ [Next]_vars
            => [\A m \in AtFaceValue' : m.position /\ (since < GstStale \/ EmptySigmas(m))]_pub
    BY GateStep
  <1> QED
    BY InvariantHolds, <1>1, PTL DEF Spec, GatePassesFixed

-----------------------------------------------------------------------------
(* The yaw *)

\* Division with remainder.
LEMMA DivMod ==
    ASSUME NEW x \in Int, NEW n \in Nat \ {0}
    PROVE  \E k \in Int, r \in 0 .. n - 1 : r = x % n /\ x = k * n + r
  <1>1. x \div n \in Int /\ x % n \in 0 .. n - 1
    OBVIOUS
  <1>2. PICK k \in Int, r \in Int : k = x \div n /\ r = x % n
    BY <1>1
  <1>3. x = k * n + r
    BY <1>2, Z3
  <1> QED
    BY <1>1, <1>2, <1>3

\* Turning by a whole number of turns first changes nothing, either way round.
LEMMA TurnedTwice ==
    ASSUME NEW a \in Int, NEW x \in Int
    PROVE  /\ (a + (x % 360)) % 360 = (a + x) % 360
           /\ (a - (x % 360)) % 360 = (a - x) % 360
  <1>1. PICK k \in Int, r \in 0 .. 359 : r = x % 360 /\ x = k * 360 + r
    <2>1. PICK n \in Nat \ {0} : n = 360
      OBVIOUS
    <2> QED
      BY <2>1, DivMod
  <1>2. (a + r) % 360 = (a + (k * 360 + r)) % 360
    OBVIOUS
  <1>3. (a - r) % 360 = (a - (k * 360 + r)) % 360
    OBVIOUS
  <1> QED
    BY <1>1, <1>2, <1>3

LEMMA YawStep ==
    ASSUME SigmasTrue, [Next]_vars, pub' # pub, NEW y \in EkfYaws'
    PROVE  y = Report[sky].yaw
  <1>1. PICK h \in pub' : h.topic = "heading" /\ y = ImuYaw(h.yaw)
    BY DEF EkfYaws
  <1>2. Hears
    BY <1>1, Steps DEF Looks, Rests
  <1>3. PICK r : r = Report[sky]
    OBVIOUS
  <1>4. /\ r.heading # NoField /\ r.headingQuality # NoField
        /\ r.headingQuality % 256 >= MinHeadingQuality
        /\ h.yaw = (90 - r.heading) % 360
    BY <1>1, <1>2, <1>3, Heard
  <1>5. sky \in Skies /\ YawOffset \in Int /\ Invert \in BOOLEAN /\ MinHeadingQuality \in Nat
    BY DriverAssumption, LocAssumption DEF SigmasTrue
  <1>6. r.headingQuality # 0
    BY <1>4, <1>5, GateAssumption
  <1>7. /\ r.heading \in Int
        /\ r.yaw = IF Invert THEN (YawOffset - 90 + r.heading) % 360
                   ELSE (YawOffset + 90 - r.heading) % 360
    BY <1>3, <1>4, <1>5, <1>6, MountAssumption
  <1>8. PICK c \in Int, b \in Int : c = r.heading /\ b = 90 - c
    BY <1>7
  <1>9. CASE Invert
    <2>1. y = (YawOffset - (b % 360)) % 360
      BY <1>1, <1>4, <1>5, <1>8, <1>9 DEF ImuYaw
    <2>2. YawOffset - b = YawOffset - 90 + c
      BY <1>5, <1>8
    <2>3. y = (YawOffset - b) % 360
      BY <1>5, <2>1, TurnedTwice
    <2>4. r.yaw = (YawOffset - 90 + c) % 360
      BY <1>7, <1>8, <1>9
    <2> QED
      BY <1>3, <2>2, <2>3, <2>4
  <1>10. CASE ~Invert
    <2>1. y = (YawOffset + (b % 360)) % 360
      BY <1>1, <1>4, <1>10, <1>8 DEF ImuYaw
    <2>2. YawOffset + b = YawOffset + 90 - c
      BY <1>5, <1>8
    <2>3. y = (YawOffset + b) % 360
      BY <1>5, <2>1, TurnedTwice
    <2>4. r.yaw = (YawOffset + 90 - c) % 360
      BY <1>7, <1>8, <1>10
    <2> QED
      BY <1>3, <2>2, <2>3, <2>4
  <1> QED
    BY <1>9, <1>10

\* Every yaw the filter receives is the robot's at that moment (publish_ksxt,
\* HeadingToImu::callback).
THEOREM YawIsTrue == Spec => YawTrue
  <1>1. SigmasTrue /\ [Next]_vars => [\A y \in EkfYaws' : y = Report[sky].yaw]_pub
    BY YawStep
  <1> QED
    BY InvariantHolds, <1>1, PTL DEF Spec, YawTrue
=============================================================================
