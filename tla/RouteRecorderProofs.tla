------------------------ MODULE RouteRecorderProofs -------------------------
(***************************************************************************)
(* Proofs about the route recorder, for every set of places, headings and  *)
(* fixes and every distance: what a discard, a save and a callback in      *)
(* progress may do to each other; and about the route file, from the       *)
(* stations taught to what the follower accepts.                           *)
(***************************************************************************)
EXTENDS RouteRecorder, TeachRepeat, SequenceTheorems, TLAPS

FixClass == {"none", "single", "float", "fixed"}

\* A station as a subscription callback begins to build it.
Draft == [at : Int, x : Int \cup {None}, yaw : {1, -1}, fix : FixClass,
          epoch : 0 .. MaxDiscards]

SavedSample == [lat : Int, st : Station]

\* Local coordinates are the map's, or measured from the anchor; the anchor of
\* a recording that was never discarded is never replaced.
Framed(st) ==
    IF source = SourceOdometry THEN st.x = st.at
    ELSE epoch = 0 => anchor \in Int /\ st.x = st.at - anchor

\* What the subscription callback in progress has established.  A discard
\* under it leaves it nothing but an empty buffer.
Pending ==
    pend # None =>
        /\ pend \in [pc : {"anchor", "local", "check", "compare", "append"},
                     st : Draft]
        /\ pend.st.epoch # epoch => stations = <<>>
        /\ pend.pc \in {"anchor", "local"} => source # SourceOdometry
        /\ pend.pc = "local" => anchor # None \/ epoch > 0
        /\ pend.pc \in {"check", "compare", "append"} =>
              pend.st \in Station /\ pend.st.fix # "none" /\ Framed(pend.st)
        /\ pend.pc = "compare" => stations # <<>> \/ epoch > 0
        /\ pend.pc = "append" =>
              stations = <<>> \/ Triggered(pend.st, stations[Len(stations)])

\* The buffer: every station on a fix and apart from the one before.
Recorded ==
    /\ \A i \in 1 .. Len(stations) :
          stations[i].fix # "none" /\ Framed(stations[i])
    /\ \A i \in 2 .. Len(stations) : Triggered(stations[i], stations[i - 1])

\* The conversions of a save in progress, of the beginning of the buffer.
Converting ==
    /\ serve \in [pc : {"datum", "convert", "zip"}, geo : Seq(Int)]
    /\ Len(stations) >= MinStations
    /\ Len(serve.geo) <= Len(stations)
    /\ serve.pc # "convert" => Len(serve.geo) >= MinStations
    /\ \A i \in 1 .. Len(serve.geo) : serve.geo[i] = stations[i].at

\* Its samples, once paired.
Paired ==
    /\ serve.pc \in {"loop", "write"}
    /\ serve.samples \in Seq(SavedSample)
    /\ Len(serve.samples) >= MinStations
    /\ Len(serve.samples) <= Len(stations)
    /\ \A i \in 1 .. Len(serve.samples) :
          serve.samples[i] = [lat |-> stations[i].at, st |-> stations[i]]

\* The service callback in progress.
Saving ==
    serve # None => \/ serve.pc = "unanchor" /\ epoch > 0
                    \/ Converting
                    \/ Paired

\* The route on disk.
Written ==
    file # None =>
        /\ file.samples \in Seq(SavedSample)
        /\ Len(file.samples) >= MinStations
        /\ \A i \in 1 .. Len(file.samples) :
              /\ file.samples[i].lat = file.samples[i].st.at
              /\ file.samples[i].st.fix # "none"
              /\ Framed(file.samples[i].st)
        /\ \A i \in 2 .. Len(file.samples) :
              Triggered(file.samples[i].st, file.samples[i - 1].st)

IInv ==
    /\ TypeOK
    /\ Pending
    /\ Recorded
    /\ DiscardStartsOver
    /\ Saving
    /\ Written
    /\ FaultNeedsDiscard

-----------------------------------------------------------------------------
\* What a step does to the frame stations are measured in: nothing while they
\* count on it.
FrameStable ==
    /\ source' = source
    /\ \/ epoch' > 0 /\ epoch' # 0
       \/ epoch' = epoch /\ (anchor = None \/ anchor' = anchor)

\* A station keeps its frame over a step that leaves the frame alone.
LEMMA FramedKept ==
    ASSUME NEW st, Framed(st), FrameStable
    PROVE  Framed(st)'
BY RecorderAssumption DEF Framed, FrameStable

\* So does the whole buffer ...
LEMMA RecordedKept ==
    ASSUME Recorded, FrameStable, stations' = stations
    PROVE  Recorded'
  <1>1. ASSUME NEW i \in 1 .. Len(stations)
        PROVE  stations[i].fix # "none" /\ Framed(stations[i])'
    <2>1. Framed(stations[i])
      BY DEF Recorded
    <2> QED
      BY <2>1, RecorderAssumption DEF Framed, FrameStable, Recorded
  <1> QED
    BY <1>1 DEF Recorded, Triggered

\* ... and the route on disk.
LEMMA WrittenKept ==
    ASSUME Written, FrameStable, file' = file
    PROVE  Written'
  <1> SUFFICES ASSUME file # None PROVE Written'
    BY DEF Written
  <1>1. ASSUME NEW i \in 1 .. Len(file.samples)
        PROVE  Framed(file.samples[i].st)'
    BY FramedKept, RecorderAssumption DEF Written, Framed, FrameStable
  <1> QED
    BY <1>1 DEF Written, Triggered

\* A save in progress does not notice that the buffer grows.
LEMMA SavingKept ==
    ASSUME TypeOK, Saving, serve' = serve, epoch' = epoch,
           \/ stations' = stations
           \/ \E st \in Station : stations' = Append(stations, st)
    PROVE  Saving'
  <1> SUFFICES ASSUME serve # None PROVE Saving'
    BY DEF Saving
  <1>1. /\ Len(stations') >= Len(stations)
        /\ \A i \in 1 .. Len(stations) : stations'[i] = stations[i]
        /\ Len(stations) \in Nat /\ Len(stations') \in Nat
    BY DEF TypeOK
  <1>2. CASE Converting
    <2>1. /\ serve.geo \in Seq(Int) /\ Len(serve.geo) <= Len(stations)
          /\ Len(serve.geo) \in Nat /\ Len(stations) >= MinStations
      BY <1>2 DEF Converting
    <2>2. \A i \in 1 .. Len(serve.geo) : serve.geo[i] = stations'[i].at
      BY <1>1, <1>2, <2>1 DEF Converting
    <2>3. Len(stations') >= MinStations /\ Len(serve.geo) <= Len(stations')
      BY <1>1, <2>1, RecorderAssumption
    <2>4. Converting'
      BY <1>2, <2>2, <2>3 DEF Converting
    <2> QED
      BY <2>4 DEF Saving
  <1>3. CASE Paired
    <2>1. Len(serve.samples) \in Nat /\ Len(serve.samples) <= Len(stations)
      BY <1>3 DEF Paired
    <2>2. \A i \in 1 .. Len(serve.samples) :
             serve.samples[i] = [lat |-> stations'[i].at, st |-> stations'[i]]
      BY <1>1, <1>3, <2>1 DEF Paired
    <2>3. Len(serve.samples) <= Len(stations')
      BY <1>1, <2>1
    <2>4. Paired'
      BY <1>3, <2>2, <2>3 DEF Paired
    <2> QED
      BY <2>4 DEF Saving
  <1> QED
    BY <1>2, <1>3 DEF Saving

\* A subscription step that leaves the buffer alone disturbs only the callback
\* itself.
LEMMA BufferUntouched ==
    ASSUME IInv, UNCHANGED <<source, stations, serve, file, epoch>>,
           anchor = None \/ anchor' = anchor
    PROVE  Recorded' /\ DiscardStartsOver' /\ Saving' /\ Written'
  <1>1. FrameStable
    BY DEF FrameStable
  <1>2. Recorded' /\ Written'
    BY <1>1, RecordedKept, WrittenKept DEF IInv
  <1>3. Saving'
    BY SavingKept DEF IInv
  <1>4. DiscardStartsOver'
    BY DEF IInv, DiscardStartsOver
  <1> QED
    BY <1>2, <1>3, <1>4

\* The recorder starts idle, with an empty buffer.
LEMMA InitIInv == Init => IInv
  <1> SUFFICES ASSUME Init PROVE IInv
    OBVIOUS
  <1>1. stations = <<>> /\ Len(stations) = 0 /\ stations \in Seq(Station)
    BY DEF Init
  <1>2. TypeOK
    <2>1. epoch \in 0 .. MaxDiscards /\ Len(stations) <= MaxStations
      BY <1>1, RecorderAssumption DEF Init
    <2>2. /\ source \in Sources /\ robot \in Int /\ heading \in {1, -1}
          /\ yaw \in {1, -1, None} /\ anchor \in Int \cup {None}
          /\ fixClass \in {"none", "single", "float", "fixed"}
      BY DEF Init
    <2>3. crashed \in BOOLEAN /\ pend = None
      BY DEF Init
    <2> QED
      BY <1>1, <2>1, <2>2, <2>3 DEF TypeOK
  <1>3. Recorded /\ DiscardStartsOver
    BY <1>1 DEF Recorded, DiscardStartsOver
  <1>4. Pending /\ Saving /\ Written /\ FaultNeedsDiscard
    BY DEF Init, Pending, Saving, Written, FaultNeedsDiscard
  <1> QED
    BY <1>2, <1>3, <1>4 DEF IInv

\* Every fix has a class.
LEMMA ClassifyType ==
    ASSUME NEW m
    PROVE  ClassifyFix(m) \in FixClass
  <1>1. \/ ClassifyFix(m) = "none" \/ ClassifyFix(m) = "single"
        \/ ClassifyFix(m) = "fixed" \/ ClassifyFix(m) = "float"
    BY Zenon DEF ClassifyFix
  <1> QED
    BY <1>1 DEF FixClass

\* The subscription callbacks.
LEMMA SubscribeIInv ==
    ASSUME IInv, ~crashed, Subscribe
    PROVE  IInv'
  <1> USE RecorderAssumption
  <1>1. ASSUME NEW p \in Places, NEW y \in Headings, OnOdom(p, y)
        PROVE  IInv'
    <2> DEFINE st == [at |-> p, x |-> p, yaw |-> y, fix |-> fixClass, epoch |-> epoch]
    <2>1. p \in Int /\ y \in {1, -1}
      OBVIOUS
    <2>2. st \in Station /\ st \in Draft
      BY <2>1 DEF Station, Draft, FixClass, IInv, TypeOK
    <2>3. Pending'
      <3>1. CASE pend' = None
        BY <3>1 DEF Pending
      <3>2. CASE pend' = [pc |-> "check", st |-> st] /\ st.fix # "none"
                 /\ source = SourceOdometry
        BY <3>2, <2>2, <1>1 DEF Pending, OnOdom, Framed
      <3> QED
        BY <3>1, <3>2, <1>1 DEF OnOdom, Consider
    <2>4. TypeOK'
      BY <1>1, <2>1, <2>2, <2>3 DEF OnOdom, IInv, TypeOK, Pending
    <2>5. Recorded' /\ DiscardStartsOver' /\ Saving' /\ Written'
      BY <1>1, BufferUntouched DEF OnOdom
    <2> QED
      BY <2>3, <2>4, <2>5, <1>1 DEF OnOdom, IInv, FaultNeedsDiscard
  <1>2. ASSUME NEW m \in Fixes, OnFix(m)
        PROVE  IInv'
    <2> DEFINE at == IF source = SourceLeverArm THEN SubtractLeverArm(Antenna)
                     ELSE Antenna
               st == [at |-> at, x |-> None, yaw |-> yaw,
                      fix |-> ClassifyFix(m), epoch |-> epoch]
    <2>1. ASSUME yaw # None
          PROVE  st \in Draft
      <3>1. yaw \in {1, -1} /\ heading \in {1, -1} /\ robot \in Int
        BY <2>1 DEF IInv, TypeOK
      <3>2. Arm * yaw \in Int /\ Arm * heading \in Int
        BY <3>1
      <3>3. at \in Int
        BY <3>1, <3>2 DEF SubtractLeverArm, Antenna
      <3> QED
        BY <3>1, <3>3, ClassifyType DEF Draft, IInv, TypeOK
    <2>2. Pending'
      <3>1. CASE pend' = None
        BY <3>1 DEF Pending
      <3>2. CASE pend' = [pc |-> "anchor", st |-> st] /\ yaw # None
                 /\ source # SourceOdometry
        BY <3>2, <2>1, <1>2 DEF Pending, OnFix
      <3> QED
        BY <3>1, <3>2, <1>2 DEF OnFix
    <2>3. TypeOK'
      <3>1. fixClass' \in FixClass
        BY <1>2, ClassifyType DEF OnFix
      <3> QED
        BY <1>2, <2>2, <3>1 DEF OnFix, IInv, TypeOK, Pending, FixClass, world
    <2>4. Recorded' /\ DiscardStartsOver' /\ Saving' /\ Written'
      BY <1>2, BufferUntouched DEF OnFix
    <2> QED
      BY <2>2, <2>3, <2>4, <1>2 DEF OnFix, IInv, FaultNeedsDiscard
  <1>3. CASE TryLeverArm
    <2>1. Recorded' /\ DiscardStartsOver' /\ Saving' /\ Written'
      BY <1>3, BufferUntouched DEF TryLeverArm
    <2>2. TypeOK' /\ Pending' /\ FaultNeedsDiscard'
      BY <1>3 DEF TryLeverArm, IInv, TypeOK, Pending, FaultNeedsDiscard, world
    <2> QED
      BY <2>1, <2>2 DEF IInv
  <1>4. CASE LocalAnchor
    <2>1. /\ pend.st \in Draft /\ source # SourceOdometry
          /\ pend.st.epoch # epoch => stations = <<>>
      BY <1>4 DEF LocalAnchor, IInv, Pending
    <2>2. anchor' \in Int /\ anchor' # None
      BY <1>4, <2>1 DEF LocalAnchor, Draft, IInv, TypeOK
    <2>3. pend' = [pc |-> "local", st |-> pend.st]
      BY <1>4 DEF LocalAnchor, IInv, Pending
    <2>4. Pending'
      BY <1>4, <2>1, <2>2, <2>3 DEF LocalAnchor, Pending, still
    <2>5. Recorded' /\ DiscardStartsOver' /\ Saving' /\ Written'
      BY <1>4, BufferUntouched DEF LocalAnchor, still
    <2>6. TypeOK' /\ FaultNeedsDiscard'
      BY <1>4, <2>2, <2>3, <2>4
         DEF LocalAnchor, IInv, TypeOK, FaultNeedsDiscard, Pending, still, world, node
    <2> QED
      BY <2>4, <2>5, <2>6 DEF IInv
  <1>5. CASE LocalMetric
    <2>0. PICK st : st = [pend.st EXCEPT !.x = pend.st.at - anchor]
      OBVIOUS
    <2>1. /\ pend.st \in Draft /\ source # SourceOdometry
          /\ pend.st.epoch # epoch => stations = <<>>
          /\ anchor # None \/ epoch > 0
      BY <1>5 DEF LocalMetric, IInv, Pending
    <2>2. Pending'
      <3>1. CASE pend' = None
        BY <3>1 DEF Pending
      <3>2. CASE pend' = [pc |-> "check", st |-> st] /\ st.fix # "none"
                 /\ anchor # None
        <4>1. anchor \in Int /\ anchor' = anchor
          BY <1>5, <3>2 DEF LocalMetric, IInv, TypeOK
        <4>2. st = [at |-> pend.st.at, x |-> pend.st.at - anchor,
                    yaw |-> pend.st.yaw, fix |-> pend.st.fix,
                    epoch |-> pend.st.epoch]
          BY <2>0, <2>1 DEF Draft
        <4>3. pend.st.at - anchor \in Int
          BY <2>1, <4>1 DEF Draft
        <4>4. /\ st \in Station /\ st \in Draft /\ st.epoch = pend.st.epoch
              /\ st.x = st.at - anchor
          BY <2>1, <4>2, <4>3 DEF Draft, Station, FixClass
        <4>5. Framed(st)'
          BY <4>1, <4>4, <2>1, <1>5 DEF LocalMetric, Framed, still
        <4> QED
          BY <3>2, <4>4, <4>5, <2>1, <1>5 DEF Pending, LocalMetric, still
      <3> QED
        BY <3>1, <3>2, <2>0, <1>5 DEF LocalMetric, Consider
    <2>3. Recorded' /\ DiscardStartsOver' /\ Saving' /\ Written'
      BY <1>5, BufferUntouched DEF LocalMetric, still
    <2>4. TypeOK' /\ FaultNeedsDiscard'
      BY <1>5, <2>1, <2>2
         DEF LocalMetric, IInv, TypeOK, FaultNeedsDiscard, Pending, still, world, node
    <2> QED
      BY <2>2, <2>3, <2>4 DEF IInv
  <1>6. CASE CheckBuffer
    <2>1. /\ pend \in [pc : {"check"}, st : Draft]
          /\ pend.st \in Station /\ pend.st.fix # "none" /\ Framed(pend.st)
          /\ pend.st.epoch # epoch => stations = <<>>
      BY <1>6 DEF CheckBuffer, IInv, Pending
    <2>2. /\ pend' = [pc |-> pend'.pc, st |-> pend.st]
          /\ pend'.pc = IF stations = <<>> THEN "append" ELSE "compare"
      BY <1>6, <2>1 DEF CheckBuffer
    <2>3. Framed(pend.st)'
      BY <1>6, <2>1, <2>2 DEF CheckBuffer, Framed, still
    <2>4. Pending'
      BY <1>6, <2>1, <2>2, <2>3 DEF CheckBuffer, Pending, still
    <2>5. Recorded' /\ DiscardStartsOver' /\ Saving' /\ Written'
      BY <1>6, BufferUntouched DEF CheckBuffer, still
    <2>6. TypeOK' /\ FaultNeedsDiscard'
      BY <1>6, <2>4
         DEF CheckBuffer, IInv, TypeOK, FaultNeedsDiscard, Pending, still, world, node
    <2> QED
      BY <2>4, <2>5, <2>6 DEF IInv
  <1>7. CASE ComparePrevious
    <2>1. /\ pend \in [pc : {"compare"}, st : Draft]
          /\ pend.st \in Station /\ pend.st.fix # "none" /\ Framed(pend.st)
          /\ pend.st.epoch # epoch => stations = <<>>
          /\ stations # <<>> \/ epoch > 0
      BY <1>7 DEF ComparePrevious, IInv, Pending
    <2>2. Pending'
      <3>1. CASE pend' = None
        BY <3>1 DEF Pending
      <3>2. CASE /\ pend' = [pend EXCEPT !.pc = "append"]
                 /\ Triggered(pend.st, stations[Len(stations)])
        <4>1. pend' = [pc |-> "append", st |-> pend.st]
          BY <3>2, <2>1
        <4>2. Framed(pend.st)'
          BY <1>7, <2>1, <4>1 DEF ComparePrevious, Framed, still
        <4>3. Triggered(pend.st, stations[Len(stations)])'
          BY <1>7, <3>2, <4>1 DEF ComparePrevious, Triggered
        <4> QED
          BY <1>7, <2>1, <4>1, <4>2, <4>3 DEF ComparePrevious, Pending, still
      <3> QED
        BY <3>1, <3>2, <1>7 DEF ComparePrevious
    <2>3. Recorded' /\ DiscardStartsOver' /\ Saving' /\ Written'
      BY <1>7, BufferUntouched DEF ComparePrevious, still
    <2>4. TypeOK' /\ FaultNeedsDiscard'
      BY <1>7, <2>1, <2>2
         DEF ComparePrevious, IInv, TypeOK, FaultNeedsDiscard, Pending, still,
             world, node
    <2> QED
      BY <2>2, <2>3, <2>4 DEF IInv
  <1>8. CASE AppendStation
    <2>1. PICK st : st = pend.st
      OBVIOUS
    <2>2. /\ st \in Station /\ st.fix # "none" /\ Framed(st)
          /\ st.epoch # epoch => stations = <<>>
          /\ stations = <<>> \/ Triggered(st, stations[Len(stations)])
      BY <1>8, <2>1 DEF AppendStation, IInv, Pending
    <2>3. FrameStable
      BY <1>8 DEF AppendStation, FrameStable, still
    <2>4. /\ stations \in Seq(Station) /\ stations' = Append(stations, st)
          /\ stations' \in Seq(Station) /\ Len(stations') = Len(stations) + 1
          /\ Len(stations) \in Nat
          /\ \A i \in 1 .. Len(stations) : stations'[i] = stations[i]
          /\ stations'[Len(stations) + 1] = st
      BY <1>8, <2>1, <2>2 DEF AppendStation, IInv, TypeOK
    <2>5. Recorded'
      <3>1. ASSUME NEW i \in 1 .. Len(stations')
            PROVE  (stations[i].fix # "none" /\ Framed(stations[i]))'
        <4>1. PICK each : each = stations'[i]
          OBVIOUS
        <4>2. each.fix # "none" /\ Framed(each)
          BY <2>2, <2>4, <4>1 DEF IInv, Recorded
        <4>3. Framed(each)'
          BY <4>2, <2>3, FramedKept
        <4> QED
          BY <4>1, <4>2, <4>3 DEF Framed
      <3>2. ASSUME NEW i \in 2 .. Len(stations')
            PROVE  Triggered(stations'[i], stations'[i - 1])
        <4>1. CASE i <= Len(stations)
          <5>1. /\ stations'[i] = stations[i] /\ stations'[i - 1] = stations[i - 1]
                /\ i \in 2 .. Len(stations)
            BY <2>4, <4>1
          <5> QED
            BY <5>1 DEF IInv, Recorded
        <4>2. CASE i = Len(stations) + 1
          <5>1. /\ stations # <<>> /\ i - 1 = Len(stations)
                /\ Len(stations) \in 1 .. Len(stations)
            BY <2>4, <4>2
          <5>2. stations'[i] = st /\ stations'[i - 1] = stations[Len(stations)]
            BY <2>4, <4>2, <5>1
          <5> QED
            BY <2>2, <5>1, <5>2
        <4> QED
          BY <2>4, <4>1, <4>2
      <3> QED
        BY <3>1, <3>2 DEF Recorded, Triggered
    <2>6. DiscardStartsOver'
      BY <1>8, <2>2, <2>4 DEF AppendStation, IInv, DiscardStartsOver
    <2>7. Saving'
      BY <1>8, <2>2, <2>4, SavingKept DEF AppendStation, IInv
    <2>8. Written'
      BY <1>8, <2>3, WrittenKept DEF AppendStation, IInv
    <2>9. TypeOK' /\ FaultNeedsDiscard' /\ Pending'
      BY <1>8, <2>4
         DEF AppendStation, IInv, TypeOK, FaultNeedsDiscard, Pending, still,
             world, node
    <2> QED
      BY <2>5, <2>6, <2>7, <2>8, <2>9 DEF IInv
  <1> QED
    BY <1>1, <1>2, <1>3, <1>4, <1>5, <1>6, <1>7, <1>8 DEF Subscribe

\* A service step that leaves the buffer and the anchor alone disturbs only
\* the save in progress and the file.
LEMMA CallbackUntouched ==
    ASSUME IInv, UNCHANGED <<still, anchor, stations, pend, crashed, epoch>>
    PROVE  TypeOK' /\ Pending' /\ Recorded' /\ DiscardStartsOver' /\ FaultNeedsDiscard'
  <1>1. FrameStable
    BY DEF FrameStable, still
  <1>2. Recorded'
    BY <1>1, RecordedKept DEF IInv
  <1>3. TypeOK'
    BY DEF IInv, TypeOK, still, world, node
  <1>4. Pending'
    BY DEF IInv, Pending, Framed, Triggered, still
  <1>5. DiscardStartsOver' /\ FaultNeedsDiscard'
    BY DEF IInv, DiscardStartsOver, FaultNeedsDiscard
  <1> QED
    BY <1>2, <1>3, <1>4, <1>5

\* The two services.
LEMMA ServeIInv ==
    ASSUME IInv, ~crashed, Serve
    PROVE  IInv'
  <1> USE RecorderAssumption
  <1>1. CASE DiscardBegin
    <2>1. epoch' \in 1 .. MaxDiscards /\ epoch' > 0 /\ epoch' # 0
      BY <1>1 DEF DiscardBegin, IInv, TypeOK
    <2>2. stations' = <<>> /\ stations' \in Seq(Station) /\ Len(stations') = 0
      BY <1>1 DEF DiscardBegin
    <2>3. FrameStable
      BY <1>1, <2>1 DEF DiscardBegin, FrameStable, still
    <2>4. TypeOK'
      BY <1>1, <2>1, <2>2 DEF DiscardBegin, IInv, TypeOK, still, world, node
    <2>5. Pending'
      BY <1>1, <2>1, <2>2 DEF DiscardBegin, IInv, Pending, Framed, still
    <2>6. Recorded' /\ DiscardStartsOver' /\ FaultNeedsDiscard'
      BY <1>1, <2>1, <2>2 DEF DiscardBegin, Recorded, DiscardStartsOver, FaultNeedsDiscard
    <2>7. Saving'
      BY <1>1, <2>1 DEF DiscardBegin, Saving
    <2>8. Written'
      BY <1>1, <2>3, WrittenKept DEF DiscardBegin, IInv
    <2> QED
      BY <2>4, <2>5, <2>6, <2>7, <2>8 DEF IInv
  <1>2. CASE DiscardEnd
    <2>1. epoch > 0 /\ epoch' = epoch /\ epoch # 0
      BY <1>2 DEF DiscardEnd, IInv, Saving, Converting, Paired, TypeOK
    <2>2. FrameStable
      BY <1>2, <2>1 DEF DiscardEnd, FrameStable, still
    <2>3. TypeOK'
      BY <1>2 DEF DiscardEnd, IInv, TypeOK, still, world, node
    <2>4. Pending'
      BY <1>2, <2>1 DEF DiscardEnd, IInv, Pending, Framed, Triggered, still
    <2>5. Recorded' /\ Written'
      BY <1>2, <2>2, RecordedKept, WrittenKept DEF DiscardEnd, IInv
    <2>6. DiscardStartsOver' /\ FaultNeedsDiscard' /\ Saving'
      BY <1>2 DEF DiscardEnd, IInv, DiscardStartsOver, FaultNeedsDiscard, Saving
    <2> QED
      BY <2>3, <2>4, <2>5, <2>6 DEF IInv
  <1>3. ASSUME UNCHANGED <<still, anchor, stations, pend, crashed, epoch>>,
               Saving', Written'
        PROVE  IInv'
    BY <1>3, CallbackUntouched DEF IInv
  <1>4. ASSUME UNCHANGED <<still, anchor, file, epoch>>
        PROVE  Written'
    BY <1>4, WrittenKept DEF FrameStable, still, IInv
  <1>5. stations \in Seq(Station) /\ Len(stations) \in Nat
    BY DEF IInv, TypeOK
  <1>6. CASE SaveBegin
    <2>1. CASE source = SourceOdometry
      <3>1. serve' = [pc |-> "convert", geo |-> <<>>] /\ stations' = stations
        BY <1>6, <2>1 DEF SaveBegin
      <3>2. Converting'
        BY <1>5, <1>6, <3>1 DEF SaveBegin, Converting
      <3> QED
        BY <1>3, <1>4, <1>6, <3>2 DEF SaveBegin, Saving
    <2>2. CASE source # SourceOdometry
      <3>1. PICK geo : geo = [i \in DOMAIN stations |-> stations[i].at]
        OBVIOUS
      <3>2. serve' = [pc |-> "datum", geo |-> geo] /\ stations' = stations
        BY <1>6, <2>2, <3>1 DEF SaveBegin
      <3>3. /\ geo \in Seq(Int) /\ Len(geo) = Len(stations)
            /\ \A i \in 1 .. Len(geo) : geo[i] = stations[i].at
        <4>1. DOMAIN stations = 1 .. Len(stations)
          BY <1>5
        <4>2. ASSUME NEW i \in 1 .. Len(stations) PROVE stations[i].at \in Int
          <5>1. stations[i] \in Station
            BY <1>5
          <5> QED
            BY <5>1 DEF Station
        <4>3. geo \in [1 .. Len(stations) -> Int]
          BY <3>1, <4>1, <4>2
        <4>4. geo \in Seq(Int) /\ Len(geo) = Len(stations)
          BY <1>5, <4>3
        <4> QED
          BY <3>1, <4>1, <4>4
      <3>4. Converting'
        BY <1>5, <1>6, <3>2, <3>3 DEF SaveBegin, Converting
      <3> QED
        BY <1>3, <1>4, <1>6, <3>4 DEF SaveBegin, Saving
    <2> QED
      BY <2>1, <2>2
  <1>7. CASE TollTimeout
    BY <1>3, <1>4, <1>7 DEF TollTimeout, Saving
  <1>8. CASE DatumKnown
    <2>1. Converting
      BY <1>8 DEF DatumKnown, IInv, Saving, Paired
    <2>2. serve' = [pc |-> "zip", geo |-> serve.geo] /\ serve.pc = "datum"
      BY <1>8, <2>1 DEF DatumKnown, Converting
    <2>3. Converting'
      BY <1>8, <2>1, <2>2 DEF DatumKnown, Converting
    <2> QED
      BY <1>3, <1>4, <1>8, <2>3 DEF DatumKnown, Saving
  <1>9. CASE ConvertNext
    <2>1. Converting /\ serve.pc = "convert" /\ stations' = stations
      BY <1>9 DEF ConvertNext, IInv, Saving, Paired
    <2>2. serve.geo \in Seq(Int) /\ Len(serve.geo) \in Nat
      BY <2>1 DEF Converting
    <2>3. CASE Len(serve.geo) < Len(stations)
      <3>1. PICK geo : geo = Append(serve.geo, stations[Len(serve.geo) + 1].at)
        OBVIOUS
      <3>2. serve' = [pc |-> "convert", geo |-> geo]
        BY <1>9, <2>1, <2>3, <3>1 DEF ConvertNext, Converting
      <3>3. stations[Len(serve.geo) + 1].at \in Int
        <4>1. Len(serve.geo) + 1 \in 1 .. Len(stations)
          BY <1>5, <2>2, <2>3
        <4>2. stations[Len(serve.geo) + 1] \in Station
          BY <1>5, <4>1
        <4> QED
          BY <4>2 DEF Station
      <3>4. /\ geo \in Seq(Int) /\ Len(geo) = Len(serve.geo) + 1
            /\ \A i \in 1 .. Len(geo) : geo[i] = stations[i].at
        BY <2>1, <2>2, <3>1, <3>3 DEF Converting
      <3>5. Converting'
        BY <1>5, <2>1, <2>2, <2>3, <3>2, <3>4 DEF Converting
      <3> QED
        BY <1>3, <1>4, <1>9, <3>5 DEF ConvertNext, Saving
    <2>4. CASE ~(Len(serve.geo) < Len(stations))
      <3>1. serve' = [pc |-> "zip", geo |-> serve.geo]
        BY <1>9, <2>1, <2>4 DEF ConvertNext, Converting
      <3>2. Converting'
        BY <1>5, <2>1, <2>2, <2>4, <3>1 DEF Converting
      <3> QED
        BY <1>3, <1>4, <1>9, <3>2 DEF ConvertNext, Saving
    <2> QED
      BY <2>3, <2>4
  <1>10. CASE ZipSamples
    <2>1. Converting /\ serve.pc = "zip" /\ stations' = stations
      BY <1>10 DEF ZipSamples, IInv, Saving, Paired
    <2>2. /\ Len(serve.geo) \in Nat /\ Len(serve.geo) <= Len(stations)
          /\ Len(serve.geo) >= MinStations
      BY <2>1 DEF Converting
    <2>3. PICK n : n = IF Len(serve.geo) < Len(stations) THEN Len(serve.geo)
                       ELSE Len(stations)
      OBVIOUS
    <2>4. n = Len(serve.geo) /\ n \in Nat
      BY <1>5, <2>2, <2>3
    <2>5. PICK samples : samples = [i \in 1 .. n |-> [lat |-> serve.geo[i],
                                                     st |-> stations[i]]]
      OBVIOUS
    <2>6. serve' = [pc |-> "loop", samples |-> samples]
      BY <1>10, <2>3, <2>5 DEF ZipSamples
    <2>7. \A i \in 1 .. n : /\ samples[i] = [lat |-> stations[i].at, st |-> stations[i]]
                            /\ samples[i] \in SavedSample
      <3> SUFFICES ASSUME NEW i \in 1 .. n
                   PROVE  /\ samples[i] = [lat |-> stations[i].at, st |-> stations[i]]
                          /\ samples[i] \in SavedSample
        OBVIOUS
      <3>1. i \in 1 .. Len(serve.geo) /\ i \in 1 .. Len(stations)
        BY <1>5, <2>2, <2>4
      <3>2. serve.geo[i] = stations[i].at
        BY <2>1, <3>1 DEF Converting
      <3>3. stations[i] \in Station /\ stations[i].at \in Int
        <4>1. stations[i] \in Station
          BY <1>5, <3>1
        <4> QED
          BY <4>1 DEF Station
      <3>4. samples[i] = [lat |-> stations[i].at, st |-> stations[i]]
        BY <2>5, <3>2
      <3> QED
        BY <3>3, <3>4 DEF SavedSample
    <2>8. samples \in Seq(SavedSample) /\ Len(samples) = n
      <3>1. samples \in [1 .. n -> SavedSample]
        BY <2>5, <2>7
      <3> QED
        BY <2>4, <3>1
    <2>9. Paired'
      BY <2>1, <2>2, <2>4, <2>6, <2>7, <2>8 DEF Paired
    <2> QED
      BY <1>3, <1>4, <1>10, <2>9 DEF ZipSamples, Saving
  <1>11. CASE ResolveLoop
    <2>1. Paired /\ stations' = stations /\ serve'.pc = "write"
             /\ serve'.samples = serve.samples
      BY <1>11 DEF ResolveLoop, IInv, Saving, Converting
    <2>2. Paired'
      BY <2>1 DEF Paired
    <2> QED
      BY <1>3, <1>4, <1>11, <2>2 DEF ResolveLoop, Saving
  <1>12. CASE WriteFile
    <2>1. Paired /\ UNCHANGED <<still, anchor, stations, pend, crashed, epoch>>
      BY <1>12 DEF WriteFile, IInv, Saving, Converting
    <2>2. PICK samples : samples = serve.samples
      OBVIOUS
    <2>3. file'.samples = samples
      BY <1>12, <2>2 DEF WriteFile
    <2>4. /\ samples \in Seq(SavedSample) /\ Len(samples) \in Nat
          /\ Len(samples) >= MinStations /\ Len(samples) <= Len(stations)
          /\ \A i \in 1 .. Len(samples) :
                samples[i] = [lat |-> stations[i].at, st |-> stations[i]]
      BY <2>1, <2>2 DEF Paired
    <2>5. ASSUME NEW i \in 1 .. Len(samples)
          PROVE  /\ samples[i].lat = samples[i].st.at
                 /\ samples[i].st.fix # "none"
                 /\ samples[i].st = stations[i]
                 /\ Framed(samples[i].st)
      <3>1. i \in 1 .. Len(stations) /\ samples[i].st = stations[i]
            /\ samples[i].lat = stations[i].at
        <4>1. i \in 1 .. Len(stations)
          BY <1>5, <2>4
        <4>2. samples[i] = [lat |-> stations[i].at, st |-> stations[i]]
          BY <2>4
        <4> QED
          BY <4>1, <4>2
      <3> QED
        BY <3>1 DEF IInv, Recorded
    <2>6. ASSUME NEW i \in 2 .. Len(samples)
          PROVE  Triggered(samples[i].st, samples[i - 1].st)
      <3>1. i \in 2 .. Len(stations) /\ i \in 1 .. Len(samples)
            /\ i - 1 \in 1 .. Len(samples)
        BY <1>5, <2>4
      <3>2. samples[i].st = stations[i] /\ samples[i - 1].st = stations[i - 1]
        BY <2>5, <3>1
      <3>3. Triggered(stations[i], stations[i - 1])
        BY <3>1 DEF IInv, Recorded
      <3> QED
        BY <3>2, <3>3
    <2>7. Written'
      <3>1. \A i \in 1 .. Len(samples) : Framed(samples[i].st)'
        BY <2>1, <2>5 DEF Framed, still
      <3> QED
        BY <2>3, <2>4, <2>5, <2>6, <3>1 DEF Written, Triggered, Framed
    <2>8. Saving'
      BY <1>12 DEF WriteFile, Saving
    <2> QED
      BY <1>3, <2>1, <2>7, <2>8
  <1> QED
    BY <1>1, <1>2, <1>6, <1>7, <1>8, <1>9, <1>10, <1>11, <1>12 DEF Serve, SaveStep

\* Every step of the recorder preserves the invariant.
LEMMA NextIInv == IInv /\ [Next]_vars => IInv'
  <1> SUFFICES ASSUME IInv, [Next]_vars PROVE IInv'
    OBVIOUS
  <1>1. CASE Next
    BY <1>1, SubscribeIInv, ServeIInv DEF Next
  <1>2. CASE UNCHANGED vars
    <2>1. UNCHANGED <<still, anchor, stations, pend, serve, crashed, file, epoch>>
      BY <1>2 DEF vars
    <2>2. Saving'
      BY <2>1, SavingKept DEF IInv
    <2>3. Written'
      BY <2>1, WrittenKept DEF FrameStable, still, IInv
    <2> QED
      BY <2>1, <2>2, <2>3, CallbackUntouched DEF IInv
  <1> QED
    BY <1>1, <1>2

\* The inductive invariant holds throughout.
THEOREM InvariantHolds == Spec => []IInv
BY InitIInv, NextIInv, PTL DEF Spec

\* Whatever callbacks and services run beside each other, a save pairs each
\* station with its own conversion (save, _to_geodetic).
THEOREM SavesPairStations == Spec => []SavePairsStations
  <1>1. IInv => SavePairsStations
    <2> SUFFICES ASSUME IInv, serve # None PROVE SavePairsStations
      BY DEF SavePairsStations
    <2>1. CASE serve.pc = "unanchor"
      BY <2>1 DEF SavePairsStations
    <2>2. CASE Converting
      <3>1. serve.geo \in Seq(Int) /\ serve.pc \in {"datum", "convert", "zip"}
        BY <2>2 DEF Converting
      <3>2. DOMAIN serve.geo = 1 .. Len(serve.geo)
        BY <3>1
      <3> QED
        BY <2>2, <3>1, <3>2 DEF Converting, SavePairsStations
    <2>3. CASE Paired
      <3>1. /\ DOMAIN serve.samples = 1 .. Len(serve.samples)
            /\ ~(serve.pc \in {"convert", "zip"})
        BY <2>3 DEF Paired
      <3>2. \A i \in 1 .. Len(serve.samples) :
                serve.samples[i].st = stations[i] /\ serve.samples[i].lat = stations[i].at
        <4> TAKE i \in 1 .. Len(serve.samples)
        <4>1. serve.samples[i] = [lat |-> stations[i].at, st |-> stations[i]]
          BY <2>3 DEF Paired
        <4> QED
          BY <4>1
      <3> QED
        BY <3>1, <3>2 DEF SavePairsStations
    <2> QED
      BY <2>1, <2>2, <2>3 DEF IInv, Saving
  <1> QED
    BY <1>1, InvariantHolds, PTL

\* A route on disk is long enough, on fixes and spaced, for every distance.
THEOREM RoutesAreUsable == Spec => []RouteUsable
  <1>1. ASSUME IInv, file # None, source = SourceOdometry \/ epoch = 0
        PROVE  /\ Len(file.samples) >= MinStations
               /\ \A i \in DOMAIN file.samples : file.samples[i].st.fix # "none"
               /\ \A i \in 2 .. Len(file.samples) :
                     \/ AbsInt(file.samples[i].lat - file.samples[i - 1].lat) >= SampleDist
                     \/ file.samples[i].st.yaw # file.samples[i - 1].st.yaw
    <2>1. /\ file.samples \in Seq(SavedSample)
          /\ Len(file.samples) \in Nat
          /\ DOMAIN file.samples = 1 .. Len(file.samples)
      BY <1>1 DEF IInv, Written
    <2>2. ASSUME NEW i \in 2 .. Len(file.samples)
          PROVE  \/ AbsInt(file.samples[i].lat - file.samples[i - 1].lat) >= SampleDist
                 \/ file.samples[i].st.yaw # file.samples[i - 1].st.yaw
      <3>1. i \in 1 .. Len(file.samples) /\ i - 1 \in 1 .. Len(file.samples)
        BY <2>1
      <3>2. /\ file.samples[i] \in SavedSample /\ file.samples[i - 1] \in SavedSample
            /\ file.samples[i].lat = file.samples[i].st.at
            /\ file.samples[i - 1].lat = file.samples[i - 1].st.at
            /\ Framed(file.samples[i].st) /\ Framed(file.samples[i - 1].st)
            /\ Triggered(file.samples[i].st, file.samples[i - 1].st)
        BY <1>1, <2>1, <3>1 DEF IInv, Written
      <3>3. file.samples[i].st.x - file.samples[i - 1].st.x
              = file.samples[i].lat - file.samples[i - 1].lat
        <4>1. PICK here, before : here = file.samples[i] /\ before = file.samples[i - 1]
          OBVIOUS
        <4>2. /\ here \in SavedSample /\ before \in SavedSample
              /\ here.lat = here.st.at /\ before.lat = before.st.at
              /\ Framed(here.st) /\ Framed(before.st)
          BY <3>2, <4>1, Zenon
        <4>3. here.st.x - before.st.x = here.lat - before.lat
          BY <1>1, <4>2 DEF Framed, SavedSample, Station
        <4> QED
          BY <4>1, <4>3, Zenon
      <3> QED
        BY <3>2, <3>3 DEF Triggered
    <2> QED
      BY <1>1, <2>1, <2>2 DEF IInv, Written
  <1>2. IInv => RouteUsable
    BY <1>1 DEF RouteUsable
  <1> QED
    BY <1>2, InvariantHolds, PTL

\* A recording that is never discarded never raises in a subscription callback
\* (_consider, _local_metric).
THEOREM FaultsNeedDiscard == Spec => []FaultNeedsDiscard
BY InvariantHolds, PTL DEF IInv

\* After a discard at most the first station is of before it.
THEOREM DiscardsStartOver == Spec => []DiscardStartsOver
BY InvariantHolds, PTL DEF IInv

-----------------------------------------------------------------------------
(* The file a teach pass is saved to and what the follower makes of it, for *)
(* every road, lap and crash.  The file is the beginning of what dumps      *)
(* writes, or ends in a line YAML refuses; line by line, so that the        *)
(* position of a line says what it is.                                      *)

\* A sequence, of whatever it holds.
IsSeq(q) == q \in Seq(Range(q))

\* The lines are the first of what dumps writes for what was taught.
AsDumped(text) ==
    Len(text) <= Len(Text) /\ \A k \in 1 .. Len(text) : text[k] = Text[k]

TornAt(text) == \E k \in DOMAIN text : text[k] = Torn

\* What the phases of the validation leave in the file and in the follower.
TeachIInv ==
    /\ IsSeq(taught) /\ IsSeq(disk)
    /\ phase = "save" => AsDumped(disk) /\ Len(disk) < Len(Text)
    /\ phase \in {"load", "build", "repeat"} => AsDumped(disk) \/ TornAt(disk)
    /\ phase \in {"build", "repeat"} => route = loads(disk) /\ Accepted(route)

\* The keys of the six lines before the samples.
HeadKeys == <<"version", "source", "loop", "lane_half_width_m", "datum", "samples">>

\* A sequence with one element more.
OneMore(q, e, r) ==
    /\ IsSeq(r) /\ Len(r) = Len(q) + 1
    /\ \A k \in 1 .. Len(q) : r[k] = q[k]
    /\ r[Len(q) + 1] = e

LEMMA AppendOne ==
  ASSUME NEW q, IsSeq(q), NEW e
  PROVE  OneMore(q, e, Append(q, e))
  <1> DEFINE S == Range(q) \cup {e}
  <1>1. q \in Seq(S)
    BY SeqMonotonic DEF IsSeq
  <1>2. /\ Append(q, e) \in Seq(S)
        /\ Len(Append(q, e)) = Len(q) + 1
        /\ \A k \in 1 .. Len(q) : Append(q, e)[k] = q[k]
        /\ Append(q, e)[Len(q) + 1] = e
    <2>1. e \in S
      OBVIOUS
    <2> HIDE DEF S
    <2> QED
      BY <1>1, <2>1, AppendProperties
  <1>3. IsSeq(Append(q, e))
    BY <1>2, SeqOfRange DEF IsSeq
  <1> QED
    BY <1>2, <1>3 DEF OneMore

LEMMA CutIsPrefix ==
  ASSUME NEW q, NEW m \in Nat, NEW n \in 0 .. m, q = [k \in 1 .. m |-> q[k]],
         NEW p, p = [k \in 1 .. n |-> q[k]]
  PROVE  IsPrefix(p, q)
  <1>1. Len(p) = n /\ Len(q) = m
    OBVIOUS
  <1>2. \A k \in 1 .. n : p[k] = q[k]
    OBVIOUS
  <1>3. SubSeq(p, 1, n) = [k \in 1 .. n |-> p[k]] /\ SubSeq(q, 1, n) = [k \in 1 .. n |-> q[k]]
    OBVIOUS
  <1> QED
    BY <1>1, <1>2, <1>3 DEF IsPrefix

\* The lines dumps writes: six keys, each once, and then the samples.
Dumped(r, text) ==
    /\ Len(text) = 6 + Len(r.samples)
    /\ \A k \in 1 .. 6 : text[k].key = HeadKeys[k]
    /\ text[1].value = SchemaVersion
    /\ text[2].value = r.source
    /\ text[3].value = r.loop
    /\ \A k \in 1 .. Len(r.samples) :
          text[6 + k] = Entry("sample", Rounded(r.samples[k]))

LEMMA DumpsLines ==
  ASSUME NEW r, IsSeq(r.samples)
  PROVE  Dumped(r, dumps(r))
  <1> DEFINE head == <<Entry("version", SchemaVersion),
                       Entry("source", r.source),
                       Entry("loop", r.loop),
                       Entry("lane_half_width_m", r.lane),
                       Entry("datum", r.datum),
                       Entry("samples", 0)>>
             n == Len(r.samples)
             tail == [k \in 1 .. n |-> Entry("sample", Rounded(r.samples[k]))]
             S == {head[k] : k \in 1 .. 6} \cup {tail[k] : k \in 1 .. n}
  <1>1. n \in Nat
    BY LenProperties DEF IsSeq
  <1>2. head \in Seq(S) /\ Len(head) = 6
    OBVIOUS
  <1>3. tail \in Seq(S) /\ Len(tail) = n
    <2>1. tail \in [1 .. n -> S]
      <3>1. \A k \in 1 .. n : tail[k] \in S
        OBVIOUS
      <3> QED
        BY <3>1
    <2> HIDE DEF tail, S, n
    <2> QED
      BY <1>1, <2>1
  <1>4. dumps(r) = head \o tail
    BY DEF dumps
  <1>5. /\ Len(dumps(r)) = 6 + n
        /\ \A k \in 1 .. 6 : dumps(r)[k] = head[k]
        /\ \A k \in 1 .. n : dumps(r)[6 + k] = tail[k]
    <2> HIDE DEF head, tail, S, n
    <2>1. /\ Len(head \o tail) = 6 + n
          /\ \A i \in 1 .. 6 + n : (head \o tail)[i] = IF i <= 6 THEN head[i] ELSE tail[i - 6]
      <3>1. /\ Len(head \o tail) = Len(head) + Len(tail)
            /\ \A i \in 1 .. Len(head) + Len(tail) :
                  (head \o tail)[i] = IF i <= Len(head) THEN head[i] ELSE tail[i - Len(head)]
        BY <1>2, <1>3, ConcatProperties
      <3> QED
        BY <3>1, <1>2, <1>3, Zenon
    <2>2. ASSUME NEW k \in 1 .. 6 PROVE (head \o tail)[k] = head[k]
      <3>1. k \in 1 .. 6 + n /\ k <= 6
        BY <1>1
      <3> QED
        BY <2>1, <3>1, Zenon
    <2>3. ASSUME NEW k \in 1 .. n PROVE (head \o tail)[6 + k] = tail[k]
      <3>1. 6 + k \in 1 .. 6 + n /\ ~(6 + k <= 6) /\ (6 + k) - 6 = k
        BY <1>1
      <3> QED
        BY <2>1, <3>1, Zenon
    <2> QED
      BY <1>4, <2>1, <2>2, <2>3, Zenon
  <1>6. /\ \A k \in 1 .. 6 : head[k].key = HeadKeys[k]
        /\ head[1].value = SchemaVersion
        /\ head[2].value = r.source
        /\ head[3].value = r.loop
    BY DEF Entry, HeadKeys
  <1> QED
    <2>1. \A k \in 1 .. n : dumps(r)[6 + k] = Entry("sample", Rounded(r.samples[k]))
      BY <1>5
    <2>2. 1 \in 1 .. 6 /\ 2 \in 1 .. 6 /\ 3 \in 1 .. 6
      OBVIOUS
    <2> HIDE DEF head, tail, S
    <2>3. /\ \A k \in 1 .. 6 : dumps(r)[k].key = HeadKeys[k]
          /\ dumps(r)[1] = head[1] /\ dumps(r)[2] = head[2] /\ dumps(r)[3] = head[3]
      BY <1>5, <1>6, <2>2, Zenon
    <2> QED
      BY <1>5, <1>6, <2>1, <2>3, Zenon DEF Dumped

\* What a file that is the beginning of such lines is worth: each key is where
\* dumps put it, so the samples are what follows the sixth line.
Reads(r, text, taken) ==
    /\ Len(text) >= 6
    /\ taken.source = r.source /\ taken.loop = r.loop
    /\ Len(taken.samples) = Len(text) - 6
    /\ taken.samples = [k \in 1 .. Len(text) - 6 |-> Rounded(r.samples[k])]

LEMMA LoadsLines ==
  ASSUME NEW r, IsSeq(r.samples), NEW full, Dumped(r, full),
         NEW text, IsSeq(text), Len(text) <= Len(full),
         \A k \in 1 .. Len(text) : text[k] = full[k],
         ~loads(text).refused
  PROVE  /\ Reads(r, text, loads(text))
         /\ Len(loads(text).samples) >= MinSamples
  <1>1. Len(text) \in Nat /\ DOMAIN text = 1 .. Len(text) /\ Len(r.samples) \in Nat
    BY LenProperties DEF IsSeq
  <1>2. \A k \in 1 .. Len(text) :
           \/ k \in 1 .. 6 /\ text[k].key = HeadKeys[k]
           \/ k > 6 /\ text[k].key = "sample"
    <2> TAKE k \in 1 .. Len(text)
    <2>1. CASE k <= 6
      BY <2>1, <1>1 DEF Dumped
    <2>2. CASE k > 6
      <3>1. k - 6 \in 1 .. Len(r.samples) /\ 6 + (k - 6) = k
        BY <2>2, <1>1 DEF Dumped
      <3>2. full[k] = Entry("sample", Rounded(r.samples[k - 6]))
        BY <3>1 DEF Dumped
      <3> QED
        BY <3>2, <2>2 DEF Entry
    <2> QED
      BY <1>1, <2>1, <2>2
  <1>3. \A k \in 1 .. Len(text) : /\ text[k].key = "samples" <=> k = 6
                                  /\ text[k].key = "source" <=> k = 2
                                  /\ text[k].key = "loop" <=> k = 3
    BY <1>1, <1>2 DEF HeadKeys
  <1>4. /\ Len(SamplesOf(text)) >= MinSamples
        /\ loads(text) = [refused |-> FALSE,
                          source |-> Get(text, "source", SOURCE_ODOMETRY),
                          loop |-> Get(text, "loop", FALSE),
                          lane |-> Get(text, "lane_half_width_m", 2),
                          datum |-> Get(text, "datum", 0),
                          samples |-> SamplesOf(text)]
    <2> DEFINE bad == \/ Torn \in Range(text)
                      \/ Get(text, "version", 0) # SchemaVersion
                      \/ ~Has(text, "datum")
                      \/ Len(SamplesOf(text)) < MinSamples
    <2>1. ~bad
      <3>1. bad => loads(text) = Refused
        BY Zenon DEF loads
      <3>2. Refused.refused
        BY DEF Refused
      <3> QED
        BY <3>1, <3>2
    <2>2. Len(SamplesOf(text)) \in Nat
      <3>1. CASE Has(text, "samples")
        <4>1. \E i \in DOMAIN text : text[i].key = "samples"
          BY <3>1 DEF Has
        <4>2. LineOf(text, "samples") \in DOMAIN text
          BY <4>1 DEF LineOf
        <4>3. LineOf(text, "samples") \in 1 .. Len(text)
          BY <4>2, <1>1
        <4>4. Len(text) - LineOf(text, "samples") \in Nat
          BY <4>3, <1>1
        <4> DEFINE first == LineOf(text, "samples")
        <4>5. SamplesOf(text) = [k \in 1 .. Len(text) - first |-> text[first + k].value]
          BY <3>1 DEF SamplesOf
        <4> HIDE DEF first
        <4> QED
          BY <4>4, <4>5 DEF first
      <3>2. CASE ~Has(text, "samples")
        BY <3>2 DEF SamplesOf
      <3> QED
        BY <3>1, <3>2
    <2>3. Len(SamplesOf(text)) >= MinSamples
      BY <2>1, <2>2 DEF MinSamples
    <2> QED
      BY <2>1, <2>3, Zenon DEF loads
  <1>5. Has(text, "samples")
    BY <1>4 DEF SamplesOf, MinSamples
  <1>6. Len(text) >= 6
    BY <1>1, <1>3, <1>5 DEF Has
  <1>7. LineOf(text, "samples") = 6
    BY <1>1, <1>3, <1>6 DEF LineOf
  <1>8. SamplesOf(text) = [k \in 1 .. Len(text) - 6 |-> text[6 + k].value]
    BY <1>5, <1>7 DEF SamplesOf
  <1>9. \A k \in 1 .. Len(text) - 6 : text[6 + k].value = Rounded(r.samples[k])
    <2> TAKE k \in 1 .. Len(text) - 6
    <2>1. 6 + k \in 1 .. Len(text) /\ k \in 1 .. Len(r.samples)
      BY <1>1, <1>6 DEF Dumped
    <2>2. full[6 + k] = Entry("sample", Rounded(r.samples[k]))
      BY <2>1 DEF Dumped
    <2>3. text[6 + k] = Entry("sample", Rounded(r.samples[k]))
      BY <2>1, <2>2
    <2> QED
      BY <2>3 DEF Entry
  <1>10. SamplesOf(text) = [k \in 1 .. Len(text) - 6 |-> Rounded(r.samples[k])]
    BY <1>8, <1>9, Zenon
  <1>11. Len(SamplesOf(text)) = Len(text) - 6
    BY <1>1, <1>6, <1>10
  <1>12. LineOf(text, "source") = 2 /\ LineOf(text, "loop") = 3
    BY <1>1, <1>3, <1>6 DEF LineOf
  <1>13. Has(text, "source") /\ Has(text, "loop")
    <2>1. 2 \in 1 .. Len(text) /\ 3 \in 1 .. Len(text)
      BY <1>1, <1>6
    <2>2. text[2].key = "source" /\ text[3].key = "loop"
      BY <1>3, <2>1
    <2> QED
      BY <1>1, <2>1, <2>2 DEF Has
  <1>14. Get(text, "source", SOURCE_ODOMETRY) = r.source /\ Get(text, "loop", FALSE) = r.loop
    <2>1. 2 \in 1 .. Len(text) /\ 3 \in 1 .. Len(text)
      BY <1>1, <1>6
    <2>2. text[2].value = r.source /\ text[3].value = r.loop
      BY <2>1 DEF Dumped
    <2> QED
      BY <1>12, <1>13, <2>2 DEF Get
  <1> QED
    <2>1. /\ loads(text).source = r.source /\ loads(text).loop = r.loop
          /\ loads(text).samples = SamplesOf(text)
      <3>1. /\ loads(text).source = Get(text, "source", SOURCE_ODOMETRY)
            /\ loads(text).loop = Get(text, "loop", FALSE)
            /\ loads(text).samples = SamplesOf(text)
        BY <1>4
      <3> QED
        BY <3>1, <1>14, Zenon
    <2>2. Reads(r, text, loads(text))
      BY <2>1, <1>6, <1>10, <1>11, Zenon DEF Reads
    <2> QED
      BY <2>1, <2>2, <1>4

LEMMA TornRefused ==
  ASSUME NEW text, TornAt(text)
  PROVE  loads(text).refused
  BY DEF TornAt, loads, Refused, Range

\* The route the vehicle taught, as it is handed to dumps.
Taught == [source |-> taughtSource, loop |-> TRUE, lane |-> 2, datum |-> 0, samples |-> taught]

LEMMA TextIs ==
  ASSUME IsSeq(taught)
  PROVE  Dumped(Taught, Text) /\ Len(Text) \in Nat
  <1>1. Taught.samples = taught /\ Text = dumps(Taught)
    BY DEF Taught, Text
  <1>2. Dumped(Taught, Text)
    BY <1>1, DumpsLines
  <1>3. Len(taught) \in Nat
    BY LenProperties DEF IsSeq
  <1> QED
    BY <1>1, <1>2, <1>3 DEF Dumped

LEMMA TeachInvInit == TeachInit => TeachIInv
  <1> SUFFICES ASSUME TeachInit PROVE TeachIInv
    OBVIOUS
  <1>1. IsSeq(taught)
    <2>1. taught \in Seq({Sample(Point(0))})
      BY DEF TeachInit
    <2> QED
      BY <2>1, SeqOfRange DEF IsSeq
  <1>2. IsSeq(disk)
    <2>1. disk \in Seq({})
      BY DEF TeachInit
    <2> QED
      BY <2>1, SeqOfRange DEF IsSeq
  <1> QED
    BY <1>1, <1>2 DEF TeachInit, TeachIInv

LEMMA TeachInvStep == TeachIInv /\ [TeachNext]_teachVars => TeachIInv'
  <1> SUFFICES ASSUME TeachIInv, [TeachNext]_teachVars PROVE TeachIInv'
    OBVIOUS
  <1> DEFINE Kept == UNCHANGED <<taught, taughtSource, disk, route>>
  <1>0. ASSUME UNCHANGED <<taught, taughtSource>>
        PROVE  /\ IsSeq(taught') /\ Text' = Text
               /\ \A text : AsDumped(text)' <=> AsDumped(text)
    BY <1>0 DEF TeachIInv, Text, AsDumped
  <1>1. ASSUME Kept, UNCHANGED phase PROVE TeachIInv'
    BY <1>1 DEF TeachIInv, AsDumped, TornAt, Text, IsSeq
  <1>2. CASE TeachTruth
    <2>1. phase' = "teach" /\ disk' = disk
      BY <1>2 DEF TeachTruth
    <2>2. IsSeq(taught')
      <3>1. taught' = taught \/ \E e : taught' = Append(taught, e)
        BY <1>2 DEF TeachTruth
      <3> QED
        <4>1. CASE taught' = taught
          BY <4>1, Zenon DEF TeachIInv
        <4>2. CASE \E e : taught' = Append(taught, e)
          <5>1. PICK e : taught' = Append(taught, e)
            BY <4>2
          <5>2. OneMore(taught, e, Append(taught, e))
            BY AppendOne DEF TeachIInv
          <5> QED
            BY <5>1, <5>2 DEF OneMore
        <4> QED
          BY <3>1, <4>1, <4>2
    <2> QED
      BY <2>1, <2>2 DEF TeachIInv
  <1>3. CASE Open
    <2>1. UNCHANGED <<taught, taughtSource>> /\ phase' = "save" /\ disk' = <<>>
      BY <1>3 DEF Open
    <2>2. IsSeq(disk') /\ Len(disk') = 0
      <3>1. disk' \in Seq({}) /\ Len(disk') = 0
        BY <2>1
      <3> QED
        BY <3>1, SeqOfRange DEF IsSeq
    <2>3. 0 < Len(Text)
      <3>1. Len(Text) = 6 + Len(taught) /\ Len(taught) \in Nat
        BY TextIs, LenProperties DEF TeachIInv, Dumped, Taught, IsSeq
      <3> QED
        BY <3>1
    <2>4. (AsDumped(disk) /\ Len(disk) < Len(Text))'
      BY <1>0, <2>1, <2>2, <2>3, TextIs DEF AsDumped, TeachIInv
    <2> QED
      BY <1>0, <2>1, <2>2, <2>4 DEF TeachIInv
  <1>4. CASE Write
    <2>1. /\ UNCHANGED <<taught, taughtSource>> /\ phase = "save"
          /\ disk' = Append(disk, Text[Len(disk) + 1])
          /\ phase' = IF Len(disk') = Len(Text) THEN "load" ELSE "save"
      BY <1>4 DEF Write
    <2>2. OneMore(disk, Text[Len(disk) + 1], disk')
      BY <2>1, AppendOne DEF TeachIInv
    <2>3. Len(disk) \in Nat /\ Len(Text) \in Nat /\ Len(disk') = Len(disk) + 1
      BY <2>2, TextIs, LenProperties DEF TeachIInv, IsSeq, OneMore
    <2>4. AsDumped(disk')
      <3>1. Len(disk') <= Len(Text)
        BY <2>1, <2>3 DEF TeachIInv
      <3>2. \A k \in 1 .. Len(disk') : k \in 1 .. Len(disk) \/ k = Len(disk) + 1
        BY <2>3
      <3>3. \A k \in 1 .. Len(disk') : disk'[k] = Text[k]
        BY <2>1, <2>2, <3>2 DEF OneMore, TeachIInv, AsDumped
      <3> QED
        BY <3>1, <3>3 DEF AsDumped
    <2>5. AsDumped(disk)'
      BY <1>0, <2>1, <2>4 DEF AsDumped
    <2>6. IsSeq(disk') /\ IsSeq(taught')
      BY <1>0, <2>1, <2>2 DEF OneMore
    <2>7. phase' = "save" => Len(disk') < Len(Text')
      BY <1>0, <2>1, <2>3, <2>4 DEF AsDumped
    <2> QED
      BY <2>1, <2>5, <2>6, <2>7 DEF TeachIInv
  <1>5. CASE Crash
    <2>1. /\ UNCHANGED <<taught, taughtSource>> /\ phase = "save" /\ phase' = "load"
          /\ disk' = disk \/ disk' = Append(disk, Torn)
      BY <1>5 DEF Crash
    <2>2. CASE disk' = disk
      BY <1>0, <2>1, <2>2 DEF TeachIInv, AsDumped
    <2>3. CASE disk' = Append(disk, Torn)
      <3>1. OneMore(disk, Torn, disk')
        BY <2>3, AppendOne DEF TeachIInv
      <3>2. Len(disk) \in Nat /\ DOMAIN disk' = 1 .. Len(disk) + 1
        BY <3>1, LenProperties DEF TeachIInv, IsSeq, OneMore
      <3>3. TornAt(disk')
        BY <3>1, <3>2 DEF TornAt, OneMore
      <3>4. TornAt(disk)'
        BY <3>3 DEF TornAt, Torn, Entry
      <3>5. IsSeq(disk')
        BY <3>1 DEF OneMore
      <3> QED
        BY <1>0, <2>1, <3>4, <3>5 DEF TeachIInv
    <2> QED
      BY <2>1, <2>2, <2>3
  <1>6. CASE LoadRoute
    <2>1. /\ UNCHANGED <<taught, taughtSource, disk>> /\ phase = "load"
          /\ \/ phase' = "stopped"
             \/ phase' = "build" /\ route' = loads(disk) /\ Accepted(loads(disk))
      BY <1>6 DEF LoadRoute
    <2>2. loads(disk)' = loads(disk)
      BY <2>1
    <2> QED
      BY <1>0, <2>1, <2>2 DEF TeachIInv, AsDumped, TornAt
  <1>7. CASE TryBuildPath
    <2>1. Kept /\ phase = "build" /\ phase' \in {"repeat", "stopped"}
      BY <1>7 DEF TryBuildPath
    <2> QED
      BY <1>0, <2>1 DEF TeachIInv, AsDumped, TornAt
  <1>8. CASE Teach \/ RepeatTruth \/ Follow \/ SimFix
    <2>1. Kept /\ UNCHANGED phase
      BY <1>8 DEF Teach, RepeatTruth, Follow, SimFix, follower
    <2> QED
      BY <2>1, <1>1
  <1>9. CASE \/ Sensor(PublishHeading) \/ Sensor(OnOdomSim)
             \/ phase = "repeat" /\ \E v \in Sigmas : Sensor(SetSigma(v))
    <2>1. Kept /\ UNCHANGED phase
      BY <1>9 DEF Sensor, follower
    <2> QED
      BY <2>1, <1>1
  <1>10. CASE UNCHANGED teachVars
    <2>1. Kept /\ UNCHANGED phase
      BY <1>10 DEF teachVars, follower
    <2> QED
      BY <2>1, <1>1
  <1> QED
    BY <1>2, <1>3, <1>4, <1>5, <1>6, <1>7, <1>8, <1>9, <1>10 DEF TeachNext

\* In every validation of teach and repeat, whatever was driven and wherever a
\* crash cut the file, what the follower accepts (loads, _load_route) is the
\* beginning of what was taught (save, dumps), rounded as it is written.
THEOREM OnlyTheTaughtLoads == TeachSpec => []LoadedIsPrefix
  <1>1. TeachIInv => LoadedIsPrefix
    <2> SUFFICES ASSUME TeachIInv, phase \in {"build", "repeat"}
                 PROVE  /\ taughtSource # SOURCE_RAW_ANTENNA
                        /\ route.loop
                        /\ Len(route.samples) >= MinSamples
                        /\ IsPrefix(route.samples, [k \in DOMAIN taught |-> Rounded(taught[k])])
                        /\ Len(disk) = Len(Text) => Len(route.samples) = Len(taught)
      BY DEF LoadedIsPrefix
    <2>1. route = loads(disk) /\ ~loads(disk).refused /\ is_base_link(route)
      BY DEF TeachIInv, Accepted
    <2>2. AsDumped(disk)
      BY <2>1, TornRefused DEF TeachIInv
    <2>3. Dumped(Taught, Text) /\ Taught.samples = taught /\ Taught.source = taughtSource /\ Taught.loop
      BY TextIs DEF TeachIInv, Taught
    <2>4. Reads(Taught, disk, route) /\ Len(route.samples) >= MinSamples
      BY <2>1, <2>2, <2>3, LoadsLines DEF TeachIInv, AsDumped
    <2>5. taughtSource # SOURCE_RAW_ANTENNA /\ route.loop
      BY <2>1, <2>3, <2>4 DEF Reads, is_base_link
    <2> DEFINE n == Len(disk) - 6
               rounded == [k \in DOMAIN taught |-> Rounded(taught[k])]
    <2>6. /\ Len(taught) \in Nat /\ DOMAIN taught = 1 .. Len(taught)
          /\ n \in 0 .. Len(taught)
          /\ Len(disk) = Len(Text) => n = Len(taught)
      <3>1. Len(disk) \in Nat /\ Len(taught) \in Nat /\ DOMAIN taught = 1 .. Len(taught)
        BY LenProperties DEF TeachIInv, IsSeq
      <3>2. Len(Text) = 6 + Len(taught) /\ Len(disk) >= 6 /\ Len(disk) <= Len(Text)
        BY <2>2, <2>3, <2>4 DEF Dumped, Reads, AsDumped
      <3> QED
        BY <3>1, <3>2
    <2>7. Len(route.samples) = n /\ route.samples = [k \in 1 .. n |-> Rounded(taught[k])]
      BY <2>3, <2>4 DEF Reads
    <2>8. IsPrefix(route.samples, rounded)
      <3> HIDE DEF n
      <3>1. \A k \in 1 .. n : Rounded(taught[k]) = rounded[k]
        <4>0. Len(taught) \in Nat /\ n \in 0 .. Len(taught)
          BY <2>6
        <4>1. \A k \in 1 .. n : k \in 1 .. Len(taught)
          BY <4>0
        <4>2. \A k \in 1 .. n : k \in DOMAIN taught
          BY <4>1, <2>6, Zenon
        <4> QED
          BY <4>2, Zenon
      <3>2. route.samples = [k \in 1 .. n |-> rounded[k]]
        BY <2>7, <3>1, Zenon
      <3>3. rounded = [k \in 1 .. Len(taught) |-> rounded[k]]
        BY <2>6
      <3> HIDE DEF rounded
      <3> QED
        BY <2>6, <3>2, <3>3, CutIsPrefix
    <2> QED
      BY <2>4, <2>5, <2>6, <2>7, <2>8
  <1> QED
    BY <1>1, TeachInvInit, TeachInvStep, PTL DEF TeachSpec

=============================================================================
