-------------------------- MODULE ScanSafetyProofs --------------------------
(***************************************************************************)
(* Proofs about the forward-obstacle brake, for every set of scans and     *)
(* commands and every timing that satisfies TimeAssumption.                *)
(***************************************************************************)
EXTENDS ScanSafety, TLAPS

\* A forward command on the wire is still held, was gated against a passable
\* way ahead when it was last published, and is re-gated in time.
MovingIsGated ==
    out.lin > 0 => /\ cmd # None
                   /\ unsafeFor <= pubAge
                   /\ pubAge < timer + ControlPeriod

\* A held command is not older than its timeout by more than the tick due next.
HeldIsYoung ==
    cmd # None => /\ cmdAge = rawAge
                  /\ cmdAge <= CmdTimeout + timer

\* Once nothing is held the last Twist was a stop, and silence has lasted since.
SilentAfterExpiry ==
    cmd = None => /\ out = Stop
                  /\ rawAge - outAge <= CmdTimeout + ControlPeriod

\* The cached sector is the sector of the geometry it is cached under.
CacheSound == sector # None => sector.indices = SectorOf(sector.key)

\* The history counter is zero whenever the newest scan shows a clear way.
UnsafeCounts == Passable(scan, scanAge) => unsafeFor = 0

IInv ==
    /\ TypeOK
    /\ MovingIsGated
    /\ HeldIsYoung
    /\ SilentAfterExpiry
    /\ CacheSound
    /\ UnsafeCounts
    /\ PubTimeSet
    /\ BackOut

-----------------------------------------------------------------------------
(* Lemmas about the helpers *)

\* An age keeps its type as time passes, grows by at most one and never shrinks.
LEMMA OlderType ==
    ASSUME NEW a \in Age \cup {None}
    PROVE  /\ Older(a) \in Age \cup {None}
           /\ Older(a) = None <=> a = None
           /\ a # None => /\ Older(a) \in Age
                          /\ a <= Older(a)
                          /\ Older(a) <= a + 1
                          /\ a < AgeCap => Older(a) = a + 1
                          /\ a = AgeCap => Older(a) = AgeCap
BY TimeAssumption, MessageAssumption DEF Older, Age

\* With a sound cache the indices used are those of the scan at hand.
LEMMA SectorIndicesSound ==
    ASSUME CacheSound, NEW m
    PROVE  SectorIndices(m) = SectorOf(m.geom)
BY DEF CacheSound, SectorIndices

\* A sector is a set of beam numbers.
LEMMA SectorOfType ==
    ASSUME NEW m \in Scans
    PROVE  SectorOf(m.geom) \in SUBSET Nat
BY GeometryAssumption DEF SectorOf

\* Wrapping an angle to [-180, 180) and comparing it with the half angle is
\* comparing the turn between them, either way round.
LEMMA WrapIsTurn ==
    ASSUME NEW x \in Int
    PROVE  (-HalfAngle <= WrapDeg(x) /\ WrapDeg(x) <= HalfAngle)
              <=> (x % 360 <= HalfAngle \/ 360 - (x % 360) <= HalfAngle)
BY GeometryAssumption DEF WrapDeg

\* The sector that is computed is the sector ahead, for any mount of the LiDAR.
LEMMA SectorIsAhead ==
    ASSUME NEW m \in Scans
    PROVE  SectorOf(m.geom) = Facing(m.geom)
  <1> DEFINE g == m.geom
  <1> DEFINE a(i) == g.angle_min + i * g.angle_increment - ForwardOffset
  <1> DEFINE wrapped(i) == -HalfAngle <= WrapDeg(a(i)) /\ WrapDeg(a(i)) <= HalfAngle
  <1> DEFINE turned(i) == a(i) % 360 <= HalfAngle \/ 360 - (a(i) % 360) <= HalfAngle
  <1>1. ASSUME NEW i \in 0 .. g.beams - 1
        PROVE  wrapped(i) <=> turned(i)
    <2>1. a(i) \in Int
      BY GeometryAssumption
    <2> HIDE DEF a
    <2> QED BY <2>1, WrapIsTurn
  <1>2. SectorOf(m.geom) = {i \in 0 .. g.beams - 1 : wrapped(i)}
    BY DEF SectorOf
  <1>3. Facing(m.geom) = {i \in 0 .. g.beams - 1 : turned(i)}
    BY DEF Facing
  <1> HIDE DEF wrapped, turned
  <1> QED
    BY <1>1, <1>2, <1>3

\* The gate forwards a forward command only past a fresh, clear scan.
LEMMA PublishFacts ==
    ASSUME IInv, NEW c \in Cmds, Publish(c)
    PROVE  /\ out' \in Twist
           /\ outAge' = 0
           /\ pubAge' = 0
           /\ obstacle' \in BOOLEAN
           /\ out'.lin > 0 => Passable(scan, scanAge)
           /\ out'.ang = c.ang
           /\ c.lin <= 0 => out'.lin = c.lin
           /\ obstacle' <=> out'.lin # c.lin
           /\ sector' \in [key : Geometries, indices : SUBSET Nat] \cup {None}
           /\ CacheSound'
  <1> DEFINE blocked ==
            /\ c.lin > 0
            /\ ~ScanFresh \/ ReturnBelowStop(scan, SectorOf(scan.geom))
  <1>1. SectorIndices(scan) = SectorOf(scan.geom)
    BY SectorIndicesSound DEF IInv
  <1>2. c.lin \in Int /\ c.ang \in Int
    BY MessageAssumption DEF Twist
  <1>3. /\ out' = [lin |-> IF blocked THEN 0 ELSE c.lin, ang |-> c.ang]
        /\ outAge' = 0
        /\ pubAge' = 0
        /\ obstacle' = blocked
        /\ sector' = IF c.lin > 0 /\ ScanFresh
                     THEN [key |-> scan.geom, indices |-> SectorOf(scan.geom)]
                     ELSE sector
    BY <1>1, Zenon DEF Publish
  <1>4. blocked \in BOOLEAN
    OBVIOUS
  <1>5. out' \in Twist /\ obstacle' \in BOOLEAN
    BY <1>2, <1>3, <1>4 DEF Twist
  <1>6. out'.lin > 0 => Passable(scan, scanAge)
    BY <1>2, <1>3, SectorIsAhead DEF Passable, ScanFresh, IInv, TypeOK
  <1>7. /\ out'.ang = c.ang
        /\ c.lin <= 0 => out'.lin = c.lin
        /\ obstacle' <=> out'.lin # c.lin
    <2>1. /\ out'.ang = c.ang
          /\ c.lin <= 0 => out'.lin = c.lin
          /\ blocked <=> out'.lin # c.lin
      <3> HIDE DEF blocked
      <3>1. blocked => c.lin > 0
        BY DEF blocked
      <3>2. out'.lin = IF blocked THEN 0 ELSE c.lin
        BY <1>3
      <3>3. out'.ang = c.ang
        BY <1>3
      <3> QED
        BY <1>2, <3>1, <3>2, <3>3
    <2> QED
      BY <1>3, <2>1, Zenon
  <1>8. sector' \in [key : Geometries, indices : SUBSET Nat] \cup {None}
    <2>1. CASE c.lin > 0 /\ ScanFresh
      <3>1. scan \in Scans
        BY <2>1 DEF IInv, TypeOK, ScanFresh
      <3> QED
        BY <2>1, <3>1, <1>3, SectorOfType DEF Geometries
    <2>2. CASE ~(c.lin > 0 /\ ScanFresh)
      BY <2>2, <1>3 DEF IInv, TypeOK
    <2> QED
      BY <2>1, <2>2
  <1>9. CacheSound'
    BY <1>3 DEF IInv, CacheSound, SectorOf
  <1> QED
    BY <1>3, <1>5, <1>6, <1>7, <1>8, <1>9

-----------------------------------------------------------------------------
(* The inductive invariant *)

\* The brake starts with the chassis at rest and nothing cached.
LEMMA InitIInv == Init => IInv
  <1> SUFFICES ASSUME Init PROVE IInv
    OBVIOUS
  <1> USE TimeAssumption, MessageAssumption DEF Init
  <1>1. TypeOK
    <2>1. Stop \in Twist
      BY DEF Stop, Twist
    <2>2. obstacle \in BOOLEAN
      OBVIOUS
    <2> QED
      BY <2>1, <2>2 DEF TypeOK, Age
  <1>2. MovingIsGated /\ HeldIsYoung /\ SilentAfterExpiry
    BY DEF MovingIsGated, HeldIsYoung, SilentAfterExpiry, Stop
  <1>3. CacheSound /\ UnsafeCounts /\ PubTimeSet /\ BackOut
    BY DEF CacheSound, UnsafeCounts, PubTimeSet, BackOut, Passable
  <1> QED
    BY <1>1, <1>2, <1>3 DEF IInv

\* A new scan changes what the way ahead looks like, not what was published.
LEMMA OnScanIInv ==
    ASSUME IInv, NEW m \in Scans, OnScan(m)
    PROVE  IInv'
  <1> USE TimeAssumption, MessageAssumption DEF OnScan, IInv
  <1>1. TypeOK'
    BY DEF TypeOK, Age
  <1>2. MovingIsGated'
    BY DEF MovingIsGated, PubTimeSet, TypeOK, Age, Twist
  <1>3. HeldIsYoung' /\ SilentAfterExpiry' /\ PubTimeSet' /\ BackOut'
    BY DEF HeldIsYoung, SilentAfterExpiry, PubTimeSet, BackOut
  <1>4. CacheSound'
    BY DEF CacheSound, SectorOf
  <1>5. UnsafeCounts'
    BY DEF UnsafeCounts, Passable
  <1> QED
    BY <1>1, <1>2, <1>3, <1>4, <1>5

\* A raw command is held and gated at once.
LEMMA OnCmdIInv ==
    ASSUME IInv, NEW c \in Cmds, OnCmd(c)
    PROVE  IInv'
  <1> USE TimeAssumption, MessageAssumption DEF IInv
  <1>1. /\ cmd' = c /\ cmdAge' = 0 /\ rawAge' = 0
        /\ Publish(c)
        /\ UNCHANGED <<scan, scanAge, timer, unsafeFor>>
    BY DEF OnCmd
  <1>2. /\ out' \in Twist /\ outAge' = 0 /\ pubAge' = 0 /\ obstacle' \in BOOLEAN
        /\ out'.lin > 0 => Passable(scan, scanAge)
        /\ out'.ang = c.ang
        /\ c.lin <= 0 => out'.lin = c.lin
        /\ obstacle' <=> out'.lin # c.lin
        /\ sector' \in [key : Geometries, indices : SUBSET Nat] \cup {None}
        /\ CacheSound'
    BY <1>1, PublishFacts
  <1>3. c # None
    OBVIOUS
  <1>4. TypeOK'
    BY <1>1, <1>2, <1>3 DEF TypeOK, Age
  <1>5. MovingIsGated'
    BY <1>1, <1>2, <1>3 DEF MovingIsGated, UnsafeCounts, TypeOK
  <1>6. HeldIsYoung' /\ SilentAfterExpiry' /\ PubTimeSet'
    BY <1>1, <1>2, <1>3 DEF HeldIsYoung, SilentAfterExpiry, PubTimeSet, TypeOK
  <1>7. BackOut'
    BY <1>1, <1>2 DEF BackOut
  <1>8. UnsafeCounts'
    BY <1>1 DEF UnsafeCounts, Passable, ReturnBelowStop, Facing
  <1> QED
    BY <1>2, <1>4, <1>5, <1>6, <1>7, <1>8

\* A tick expires, re-gates or leaves alone the held command.
LEMMA OnTickIInv ==
    ASSUME IInv, OnTick
    PROVE  IInv'
  <1> USE TimeAssumption, MessageAssumption DEF IInv
  <1>1. /\ timer = ControlPeriod
        /\ timer' = 0
        /\ UNCHANGED <<scan, scanAge, rawAge, unsafeFor>>
    BY DEF OnTick
  <1>2. UnsafeCounts'
    BY <1>1 DEF UnsafeCounts, Passable, ReturnBelowStop, Facing
  <1>3. CASE TickExpire
    <2> USE DEF TickExpire
    <2>1. TypeOK'
      <3>1. Stop \in Twist
        BY DEF Stop, Twist
      <3>2. obstacle' \in BOOLEAN
        BY <1>3
      <3> QED
        BY <1>1, <1>3, <3>1, <3>2 DEF TypeOK, Age
    <2>2. MovingIsGated' /\ HeldIsYoung' /\ PubTimeSet' /\ BackOut'
      BY <1>1, <1>3 DEF MovingIsGated, HeldIsYoung, PubTimeSet, BackOut, Stop
    <2>3. SilentAfterExpiry'
      BY <1>1, <1>3 DEF SilentAfterExpiry, HeldIsYoung, TypeOK, Age
    <2>4. CacheSound'
      BY <1>3 DEF CacheSound, SectorOf
    <2> QED
      BY <1>2, <2>1, <2>2, <2>3, <2>4
  <1>4. CASE TickRegate
    <2>1. cmd \in Cmds /\ cmd # None /\ ~CmdExpired /\ UNCHANGED <<cmd, cmdAge>>
      BY <1>4 DEF TickRegate, TypeOK
    <2>2. Publish(cmd)
      BY <1>4 DEF TickRegate
    <2>3. /\ out' \in Twist /\ outAge' = 0 /\ pubAge' = 0
          /\ obstacle' \in BOOLEAN
          /\ out'.lin > 0 => Passable(scan, scanAge)
          /\ out'.ang = cmd.ang
          /\ cmd.lin <= 0 => out'.lin = cmd.lin
          /\ obstacle' <=> out'.lin # cmd.lin
          /\ sector' \in [key : Geometries, indices : SUBSET Nat] \cup {None}
          /\ CacheSound'
      BY <2>1, <2>2, PublishFacts
    <2>4. TypeOK'
      BY <1>1, <2>1, <2>3 DEF TypeOK, Age
    <2>5. MovingIsGated' /\ PubTimeSet'
      BY <1>1, <2>1, <2>3 DEF MovingIsGated, UnsafeCounts, PubTimeSet, TypeOK
    <2>6. HeldIsYoung' /\ SilentAfterExpiry'
      BY <1>1, <2>1 DEF HeldIsYoung, SilentAfterExpiry, CmdExpired, TypeOK, Age
    <2>7. BackOut'
      BY <2>1, <2>3 DEF BackOut
    <2> QED
      BY <1>2, <2>3, <2>4, <2>5, <2>6, <2>7
  <1>5. CASE TickIdle
    <2>1. /\ cmd = None \/ (~CmdExpired /\ pubAge < ControlPeriod)
          /\ UNCHANGED <<cmd, cmdAge, out, outAge, pubAge, obstacle, sector>>
      BY <1>5 DEF TickIdle
    <2>2. TypeOK'
      BY <1>1, <2>1 DEF TypeOK
    <2>3. MovingIsGated'
      BY <1>1, <2>1 DEF MovingIsGated
    <2>4. HeldIsYoung'
      BY <1>1, <2>1 DEF HeldIsYoung, CmdExpired, TypeOK, Age
    <2>5. SilentAfterExpiry' /\ PubTimeSet' /\ BackOut'
      BY <1>1, <2>1 DEF SilentAfterExpiry, PubTimeSet, BackOut
    <2>6. CacheSound'
      BY <2>1 DEF CacheSound, SectorOf
    <2> QED
      BY <1>2, <2>2, <2>3, <2>4, <2>5, <2>6
  <1> QED
    BY <1>3, <1>4, <1>5 DEF OnTick

\* The passage of time ages every stamp alike.
LEMMA ElapseIInv ==
    ASSUME IInv, Elapse
    PROVE  IInv'
  <1> USE TimeAssumption, MessageAssumption DEF IInv
  <1>1. /\ timer < ControlPeriod /\ timer' = timer + 1
        /\ scanAge' = Older(scanAge) /\ cmdAge' = Older(cmdAge)
        /\ pubAge' = Older(pubAge) /\ outAge' = Older(outAge)
        /\ rawAge' = Older(rawAge)
        /\ unsafeFor' = IF Passable(scan, scanAge') THEN 0 ELSE Older(unsafeFor)
        /\ UNCHANGED <<scan, cmd, sector, out, obstacle>>
    BY DEF Elapse
  <1>2. /\ scanAge \in Age \cup {None} /\ cmdAge \in Age \cup {None}
        /\ pubAge \in Age \cup {None} /\ outAge \in Age
        /\ rawAge \in Age /\ unsafeFor \in Age
        /\ timer \in 0 .. ControlPeriod
        /\ None \notin Age
    BY DEF TypeOK, Age
  <1>3. unsafeFor' \in Age /\ unsafeFor' <= Older(unsafeFor)
    BY <1>1, <1>2, OlderType DEF Age
  <1>4. TypeOK'
    BY <1>1, <1>2, <1>3, OlderType DEF TypeOK
  <1>5. MovingIsGated'
    <2> SUFFICES ASSUME out.lin > 0
                 PROVE  cmd # None /\ unsafeFor' <= pubAge'
                        /\ pubAge' < timer' + ControlPeriod
      BY <1>1 DEF MovingIsGated
    <2>1. cmd # None /\ unsafeFor <= pubAge /\ pubAge < timer + ControlPeriod
      BY DEF MovingIsGated
    <2>2. pubAge \in Age
      BY <1>2, <2>1 DEF PubTimeSet
    <2>3. Older(unsafeFor) <= Older(pubAge)
      BY <1>2, <2>1, <2>2 DEF Older, Age
    <2>4. Older(pubAge) <= pubAge + 1
      BY <1>2, <2>2, OlderType
    <2>5. Older(pubAge) \in Age
      BY <1>2, <2>2, OlderType
    <2> QED
      BY <1>1, <1>2, <1>3, <2>1, <2>2, <2>3, <2>4, <2>5, OlderType DEF Age
  <1>6. HeldIsYoung'
    BY <1>1, <1>2, OlderType DEF HeldIsYoung, Age
  <1>7. SilentAfterExpiry'
    BY <1>1, <1>2, OlderType DEF SilentAfterExpiry, Age
  <1>8. PubTimeSet' /\ BackOut'
    BY <1>1, <1>2, OlderType DEF PubTimeSet, BackOut
  <1>9. CacheSound'
    BY <1>1 DEF CacheSound, SectorOf
  <1>10. UnsafeCounts'
    BY <1>1 DEF UnsafeCounts, Passable, ReturnBelowStop, Facing
  <1> QED
    BY <1>4, <1>5, <1>6, <1>7, <1>8, <1>9, <1>10

\* Every step of the node preserves the inductive invariant.
LEMMA NextIInv == IInv /\ [Next]_vars => IInv'
  <1> SUFFICES ASSUME IInv, [Next]_vars PROVE IInv'
    OBVIOUS
  <1>1. CASE UNCHANGED vars
    BY <1>1 DEF vars, IInv, TypeOK, MovingIsGated, HeldIsYoung,
       SilentAfterExpiry, CacheSound, UnsafeCounts, PubTimeSet, BackOut,
       Passable, ReturnBelowStop, Facing
  <1>2. CASE Next
    BY <1>2, OnScanIInv, OnCmdIInv, OnTickIInv, ElapseIInv DEF Next
  <1> QED
    BY <1>1, <1>2

\* The inductive invariant holds throughout.
THEOREM InvariantHolds == Spec => []IInv
BY InitIInv, NextIInv, PTL DEF Spec

-----------------------------------------------------------------------------
(* What follows from it *)

\* Every variable of the brake keeps its type (state of ScanSafetyNode).
THEOREM TypeCorrect == Spec => []TypeOK
  <1>1. IInv => TypeOK
    BY DEF IInv
  <1> QED
    BY <1>1, InvariantHolds, PTL

\* The brake stops a robot that is already moving within two control periods,
\* whatever the scans, the commands and the timing (_on_tick, _publish).
THEOREM BrakesInTime == Spec => []BrakeLatency
  <1>1. IInv => BrakeLatency
    <2> SUFFICES ASSUME IInv, unsafeFor >= 2 * ControlPeriod, out.lin > 0
                 PROVE  FALSE
      BY DEF BrakeLatency, IInv, TypeOK, Twist
    <2>1. cmd # None /\ unsafeFor <= pubAge /\ pubAge < timer + ControlPeriod
      BY DEF IInv, MovingIsGated
    <2>2. pubAge \in Age /\ unsafeFor \in Age /\ timer \in 0 .. ControlPeriod
      BY <2>1 DEF IInv, TypeOK, PubTimeSet
    <2> QED
      BY <2>1, <2>2, TimeAssumption DEF Age
  <1> QED
    BY <1>1, InvariantHolds, PTL

\* A source that falls silent is stopped, then silence to the firmware
\* (_on_tick's expiry branch), within the sum of the timeouts.
THEOREM DeadSourceStops == Spec => []DeadSourceSilence
  <1>1. IInv => DeadSourceSilence
    BY TimeAssumption
    DEF IInv, DeadSourceSilence, HeldIsYoung, SilentAfterExpiry, TypeOK, Age
  <1> QED
    BY <1>1, InvariantHolds, PTL

\* Reverse and rotation always reach the chassis (_publish).
THEOREM BacksOut == Spec => []BackOut
  <1>1. IInv => BackOut
    BY DEF IInv
  <1> QED
    BY <1>1, InvariantHolds, PTL

\* _on_tick never subtracts a missing time stamp.
THEOREM PubTimeKnown == Spec => []PubTimeSet
  <1>1. IInv => PubTimeSet
    BY DEF IInv
  <1> QED
    BY <1>1, InvariantHolds, PTL

\* No step forwards a forward command past an impassable scan, cached sector
\* or not (_publish, _sector_indices).
THEOREM GatesSoundly == Spec => GateSound
  <1> DEFINE Gated == (out' # out \/ outAge' < outAge \/ sector' # sector)
                          => (out'.lin > 0 => Passable(scan, scanAge))
  <1>1. IInv /\ [Next]_vars => [Gated]_vars
    <2> SUFFICES ASSUME IInv, Next PROVE Gated
      BY DEF vars
    <2>1. ASSUME NEW m \in Scans, OnScan(m) PROVE Gated
      BY <2>1 DEF OnScan, IInv, TypeOK, Age
    <2>2. ASSUME NEW c \in Cmds, OnCmd(c) PROVE Gated
      BY <2>2, PublishFacts DEF OnCmd
    <2>3. CASE OnTick
      <3>1. CASE TickExpire
        BY <3>1 DEF TickExpire, Stop
      <3>2. CASE TickRegate
        BY <3>2, PublishFacts DEF TickRegate, IInv, TypeOK
      <3>3. CASE TickIdle
        BY <3>3 DEF TickIdle, IInv, TypeOK, Age
      <3> QED
        BY <2>3, <3>1, <3>2, <3>3 DEF OnTick
    <2>4. CASE Elapse
      <3>1. outAge' \in Age /\ outAge <= outAge'
        BY <2>4, OlderType, MessageAssumption DEF Elapse, IInv, TypeOK, Age
      <3> QED
        BY <2>4, <3>1 DEF Elapse, IInv, TypeOK, Age
    <2> QED
      BY <2>1, <2>2, <2>3, <2>4 DEF Next
  <1> QED
    BY <1>1, InvariantHolds, PTL DEF Spec, GateSound

=============================================================================
