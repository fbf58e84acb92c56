------------------------ MODULE RouteFollowerProofs -------------------------
(***************************************************************************)
(* Proofs about the route follower, for every path, corridor, streak, fix  *)
(* threshold and set of scans: what a control cycle may command, and that  *)
(* progress along the path is the robot's own.                             *)
(***************************************************************************)
EXTENDS RouteFollower, TLAPS, WellFoundedInduction

-----------------------------------------------------------------------------
(* Arithmetic *)

\* Division with remainder.
LEMMA DivMod ==
    ASSUME NEW x \in Int, NEW n \in Nat \ {0}
    PROVE  \E k \in Int, r \in 0 .. n - 1 : r = x % n /\ x = k * n + r
  <1>1. x \div n \in Int /\ x % n \in 0 .. n - 1
    OBVIOUS
  <1>2. PICK k \in Int, r \in Int : k = x \div n /\ r = x % n
    BY <1>1
  <1>3. x = k * n + r
    BY <1>2, Z3
  <1> QED
    BY <1>1, <1>2, <1>3

\* The remainder is the only one in its range.
LEMMA ModUnique ==
    ASSUME NEW x \in Int, NEW k \in Int, NEW n \in Nat \ {0}, NEW r \in 0 .. n - 1,
           x = k * n + r
    PROVE  x % n = r
BY Z3

LEMMA MulMonotone ==
    ASSUME NEW a \in Nat, NEW b \in Nat, NEW c \in Nat, a <= b
    PROVE  a * c <= b * c /\ c * a <= c * b /\ a * c \in Nat
BY Z3

LEMMA DivMul ==
    ASSUME NEW a \in Nat, NEW b \in Nat \ {0}
    PROVE  (a \div b) * b <= a /\ a \div b \in Nat
BY Z3

\* A set of naturals that is not empty has a least element.
LEMMA LeastNatural ==
    ASSUME NEW S, S \subseteq Nat, S # {}
    PROVE  \E m \in S : \A k \in S : m <= k
  <1>1. \E x \in S : \A y \in S : ~(<<y, x>> \in OpToRel(<, Nat))
    BY NatLessThanWellFounded, WFMin
  <1>2. PICK x \in S : \A y \in S : ~(<<y, x>> \in OpToRel(<, Nat))
    BY <1>1
  <1>3. \A y \in S : ~(y < x)
    BY <1>2 DEF OpToRel
  <1> QED
    BY <1>3

-----------------------------------------------------------------------------
(* path.py *)

\* Path.project's measure and where it looks.
Dist(p, q) ==
    IF Loop THEN AbsInt(ForwardGap(WrapS(p), q)) ELSE AbsInt(p - q)

Searched(hint) ==
    IF hint = None THEN Stations
    ELSE {q \in Stations : AbsInt(ForwardGap(hint, q)) <= Window}

LEMMA ProjectIs ==
    ASSUME NEW p, NEW hint
    PROVE  Project(p, hint) =
             CHOOSE q \in Searched(hint) :
                 \A r \in Searched(hint) : Dist(p, q) <= Dist(p, r)
BY DEF Project, Searched, Dist

\* A wrapped position is a station.
LEMMA WrapType ==
    ASSUME NEW p \in Int PROVE WrapS(p) \in Stations /\ WrapS(p) \in Int
BY FollowerAssumption DEF WrapS, Stations, MinInt, MaxInt

LEMMA StationsInt == Stations \subseteq Int
BY FollowerAssumption DEF Stations

LEMMA GapType ==
    ASSUME NEW a \in Int, NEW b \in Int PROVE ForwardGap(a, b) \in Int
BY FollowerAssumption DEF ForwardGap

LEMMA DistType ==
    ASSUME NEW p \in Int, NEW q \in Int PROVE Dist(p, q) \in Nat
  <1>1. ForwardGap(WrapS(p), q) \in Int
    BY WrapType, GapType
  <1>2. AbsInt(ForwardGap(WrapS(p), q)) \in Nat /\ AbsInt(p - q) \in Nat
    BY <1>1 DEF AbsInt
  <1> QED
    BY <1>2 DEF Dist

\* From a station to itself there is no gap, and to no other.
LEMMA GapZero ==
    ASSUME NEW a \in Stations, NEW b \in Stations
    PROVE  ForwardGap(a, b) = 0 <=> a = b
  <1> USE FollowerAssumption
  <1>1. CASE ~Loop
    BY <1>1, StationsInt DEF ForwardGap
  <1>2. CASE Loop
    <2>1. a \in 0 .. Length - 1 /\ b \in 0 .. Length - 1
      BY <1>2 DEF Stations
    <2>2. PICK k \in Int, d \in 0 .. Length - 1 :
              d = (b - a) % Length /\ b - a = k * Length + d
      <3>1. b - a \in Int
        BY <2>1
      <3> QED
        BY <3>1, DivMod
    <2>3. ForwardGap(a, b) = 0 <=> d = 0
      BY <1>2, <2>2 DEF ForwardGap
    <2>4. a = b => d = 0
      <3> SUFFICES ASSUME a = b PROVE d = 0
        OBVIOUS
      <3>1. b - a = 0 * Length + 0 /\ b - a \in Int /\ 0 \in 0 .. Length - 1
        BY <2>1
      <3> QED
        BY <2>2, <3>1, ModUnique
    <2>5. d = 0 => a = b
      <3> SUFFICES ASSUME d = 0 PROVE a = b
        OBVIOUS
      <3>1. b - a = k * Length /\ b - a < Length /\ b - a > -Length
        BY <2>1, <2>2
      <3>2. k = 0
        BY <3>1, Z3
      <3> QED
        BY <2>1, <3>1, <3>2
    <2> QED
      BY <2>3, <2>4, <2>5
  <1> QED
    BY <1>1, <1>2

\* The gap between two positions less than half a loop apart is their
\* difference, seam or no seam.
LEMMA GapIsDifference ==
    ASSUME Loop, NEW a \in Int, NEW b \in Int,
           2 * (b - a) < Length, 2 * (a - b) < Length
    PROVE  ForwardGap(WrapS(a), WrapS(b)) = b - a
  <1> USE FollowerAssumption
  <1>1. PICK i \in Int, ra \in 0 .. Length - 1 : ra = a % Length /\ a = i * Length + ra
    BY DivMod
  <1>2. PICK j \in Int, rb \in 0 .. Length - 1 : rb = b % Length /\ b = j * Length + rb
    BY DivMod
  <1>3. ForwardGap(WrapS(a), WrapS(b)) =
            IF 2 * ((rb - ra) % Length) > Length THEN ((rb - ra) % Length) - Length
            ELSE (rb - ra) % Length
    BY <1>1, <1>2 DEF ForwardGap, WrapS
  <1>4. CASE b >= a
    <2>1. b - a \in 0 .. Length - 1 /\ i - j \in Int /\ rb - ra \in Int
      BY <1>1, <1>2, <1>4
    <2>2. rb - ra = (i - j) * Length + (b - a)
      BY <1>1, <1>2, Z3
    <2>3. (rb - ra) % Length = b - a
      BY <2>1, <2>2, ModUnique
    <2> QED
      BY <1>3, <2>1, <2>3
  <1>5. CASE b < a
    <2>1. b - a + Length \in 0 .. Length - 1 /\ i - j - 1 \in Int /\ rb - ra \in Int
      BY <1>1, <1>2, <1>5
    <2>2. rb - ra = (i - j - 1) * Length + (b - a + Length)
      BY <1>1, <1>2, Z3
    <2>3. (rb - ra) % Length = b - a + Length
      BY <2>1, <2>2, ModUnique
    <2> QED
      BY <1>3, <2>1, <2>3
  <1> QED
    BY <1>4, <1>5

\* The station of p is nearer to p than any other.
LEMMA WrapNearest ==
    ASSUME NEW p \in Int, NEW r \in Stations, r # WrapS(p)
    PROVE  Dist(p, WrapS(p)) < Dist(p, r)
  <1>1. CASE Loop
    <2>1. ForwardGap(WrapS(p), WrapS(p)) = 0 /\ ForwardGap(WrapS(p), r) # 0
      BY WrapType, GapZero
    <2>2. ForwardGap(WrapS(p), r) \in Int
      BY WrapType, StationsInt, GapType
    <2> QED
      BY <1>1, <2>1, <2>2 DEF Dist, AbsInt
  <1>2. CASE ~Loop
    BY <1>2, FollowerAssumption DEF Dist, WrapS, Stations, AbsInt, MinInt, MaxInt
  <1> QED
    BY <1>1, <1>2

\* Where the station of p is searched, Path.project finds it.
LEMMA ProjectFinds ==
    ASSUME NEW p \in Int, NEW hint, WrapS(p) \in Searched(hint)
    PROVE  Project(p, hint) = WrapS(p)
  <1> DEFINE Best(q) == \A r \in Searched(hint) : Dist(p, q) <= Dist(p, r)
  <1>1. Searched(hint) \subseteq Stations
    BY DEF Searched
  <1>2. ASSUME NEW r \in Searched(hint) PROVE Dist(p, WrapS(p)) <= Dist(p, r)
    <2>1. Dist(p, WrapS(p)) \in Nat /\ Dist(p, r) \in Nat
      BY <1>1, WrapType, StationsInt, DistType
    <2> QED
      BY <1>1, <2>1, WrapNearest
  <1>3. Best(WrapS(p))
    BY <1>2
  <1>4. ASSUME NEW q \in Searched(hint), Best(q) PROVE q = WrapS(p)
    <2>1. Dist(p, q) <= Dist(p, WrapS(p))
      BY <1>4
    <2>2. Dist(p, WrapS(p)) \in Nat /\ Dist(p, q) \in Nat
      BY <1>1, WrapType, StationsInt, DistType
    <2> QED
      BY <1>1, <2>1, <2>2, WrapNearest
  <1>5. Project(p, hint) = CHOOSE q \in Searched(hint) : Best(q)
    BY ProjectIs
  <1> HIDE DEF Best
  <1> QED
    BY <1>3, <1>4, <1>5

\* Whatever the window, Path.project returns a station.
LEMMA ProjectType ==
    ASSUME NEW p \in Int, NEW hint \in Stations \cup {None}
    PROVE  Project(p, hint) \in Stations
  <1> DEFINE Best(q) == \A r \in Searched(hint) : Dist(p, q) <= Dist(p, r)
  <1>1. Searched(hint) \subseteq Stations /\ Searched(hint) # {}
    <2>1. CASE hint = None
      <3>1. WrapS(p) \in Stations
        BY WrapType
      <3> QED
        BY <2>1, <3>1 DEF Searched
    <2>2. CASE hint # None
      <3>1. ForwardGap(hint, hint) = 0 /\ hint \in Stations
        BY <2>2, GapZero
      <3>2. AbsInt(0) <= Window
        BY FollowerAssumption DEF AbsInt
      <3> QED
        BY <2>2, <3>1, <3>2 DEF Searched
    <2> QED
      BY <2>1, <2>2
  <1>2. PICK D : D = {Dist(p, q) : q \in Searched(hint)}
    OBVIOUS
  <1>3. D \subseteq Nat /\ D # {}
    BY <1>1, <1>2, StationsInt, DistType
  <1>4. PICK m \in D : \A k \in D : m <= k
    BY <1>3, LeastNatural
  <1>5. PICK q \in Searched(hint) : m = Dist(p, q)
    BY <1>2, <1>4
  <1>6. Best(q)
    BY <1>2, <1>4, <1>5
  <1>7. Project(p, hint) = CHOOSE x \in Searched(hint) : Best(x)
    BY ProjectIs
  <1> HIDE DEF Best
  <1> QED
    BY <1>1, <1>6, <1>7

-----------------------------------------------------------------------------
(* The invariant behind motion: types, the corridor, and which fix is held *)

\* The commanded offset is never beyond the outermost candidate.
InCorridor == dcmd <= Widest

\* What is kept of the newest fix is its own sigma (_on_fix).
FixHeld == fixAge # None => lastFix \in Fixes /\ sigma = HorizontalSigma(lastFix)

IInv == TypeOK /\ InCorridor /\ FixHeld

\* The candidates are offsets that fit into the corridor.
LEMMA OffsetsFit ==
    /\ OffsetCount \in Nat
    /\ Widest \in Nat /\ Widest + Clearance <= HalfWidth
    /\ \A i \in Offsets : i \in Nat /\ Offset(i) \in Nat /\ Offset(i) <= Widest
  <1> USE FollowerAssumption
  <1>1. OffsetCount \in Nat /\ OffsetCount * OffsetStep \in Nat
          /\ OffsetCount * OffsetStep + Clearance <= HalfWidth
    <2>1. CASE OffsetStep <= 0
      BY <2>1 DEF OffsetCount
    <2>2. CASE OffsetStep > 0
      <3>1. HalfWidth - Clearance \in Nat /\ HalfWidth - Clearance > 0
        OBVIOUS
      <3>2. OffsetCount = (HalfWidth - Clearance) \div OffsetStep
        BY <2>2, <3>1 DEF OffsetCount
      <3>3. OffsetCount \in Nat /\ OffsetCount * OffsetStep <= HalfWidth - Clearance
        BY <2>2, <3>1, <3>2, DivMul
      <3>4. OffsetCount * OffsetStep \in Nat
        BY <3>3, MulMonotone
      <3> QED
        BY <3>1, <3>3, <3>4
    <2> QED
      BY <2>1, <2>2
  <1>2. ASSUME NEW i \in Offsets
        PROVE  i \in Nat /\ i * OffsetStep \in Nat /\ i * OffsetStep <= OffsetCount * OffsetStep
    <2>1. i \in Nat /\ i <= OffsetCount
      BY <1>1 DEF Offsets
    <2> QED
      BY <1>1, <2>1, MulMonotone
  <1> QED
    BY <1>1, <1>2 DEF Widest, Offset

\* horizontal_sigma of a message.
LEMMA SigmaType ==
    ASSUME NEW m \in Fixes PROVE HorizontalSigma(m) \in Nat
  <1>1. m.east \in Nat /\ m.north \in Nat
    BY FollowerAssumption
  <1> QED
    BY <1>1, FollowerAssumption DEF HorizontalSigma, MaxInt

\* The penalty is positive exactly on a fix that is fresh and good enough.
LEMMA PenaltyType ==
    ASSUME TypeOK
    PROVE  /\ FixPenalty \in Nat
           /\ FixPenalty # 0 => /\ fixAge # None /\ fixAge <= FixTimeout
                                /\ sigma < SigmaStop
                                /\ FixPenalty = SigmaStop - MaxInt(sigma, SigmaSlow)
  <1>1. sigma \in Nat /\ fixAge \in 0 .. FixTimeout + 1 \cup {None}
    BY DEF TypeOK
  <1> QED
    BY <1>1, FollowerAssumption DEF FixPenalty, MaxInt

LEMMA InitIInv == Init => IInv
  <1> SUFFICES ASSUME Init PROVE IInv
    OBVIOUS
  <1> USE FollowerAssumption
  <1>1. committed \in Offsets /\ clearStreak \in 0 .. ResumeCycles - 1
    BY OffsetsFit DEF Init, Offsets
  <1>2. /\ path \in BOOLEAN /\ lidarTf \in BOOLEAN /\ finished \in BOOLEAN
        /\ pose \in Int \cup {None} /\ seen \in Int \cup {None}
        /\ first \in Int \cup {None} /\ s \in Stations \cup {None}
        /\ scan \in Scans \cup {{}}
        /\ scanAge \in 0 .. ScanStale + 1 \cup {None}
        /\ fixAge \in 0 .. FixTimeout + 1 \cup {None}
    BY DEF Init
  <1>3. /\ travelled \in Int /\ pos \in Int /\ speed \in Nat /\ dcmd \in Nat
        /\ sigma \in Nat
        /\ cmd \in [lin : Nat, turn : Int]
    BY DEF Init, StopCmd
  <1>4. state \in {"driving", "retreating", "resuming", "blocked", "degraded",
                   "finished"}
    BY DEF Init
  <1>5. TypeOK
    BY <1>1, <1>2, <1>3, <1>4 DEF TypeOK
  <1>6. InCorridor /\ FixHeld
    BY OffsetsFit DEF Init, InCorridor, FixHeld
  <1> QED
    BY <1>5, <1>6 DEF IInv

\* Messages, time and the vehicle leave the control state alone.
LEMMA SurroundingsIInv == IInv /\ Surroundings => IInv' /\ UNCHANGED follow
  <1> SUFFICES ASSUME IInv, Surroundings PROVE IInv' /\ UNCHANGED follow
    OBVIOUS
  <1> USE FollowerAssumption
  <1>1. UNCHANGED follow
    BY DEF Surroundings, TryBuildPath, TryLidarTf, OnOdom, OnFix, OnScan, Advance, Elapse
  <1>2. /\ path' \in BOOLEAN /\ lidarTf' \in BOOLEAN
        /\ pose' \in Int \cup {None} /\ pos' \in Int
        /\ scan' \in Scans \cup {{}}
    <2>0. /\ path \in BOOLEAN /\ lidarTf \in BOOLEAN
          /\ pose \in Int \cup {None} /\ pos \in Int
          /\ scan \in Scans \cup {{}}
      BY DEF IInv, TypeOK
    <2>1. path' \in BOOLEAN /\ lidarTf' \in BOOLEAN
      BY <2>0 DEF Surroundings, TryBuildPath, TryLidarTf, OnOdom, OnFix, OnScan, Advance,
                  Elapse
    <2>2. pose' \in Int \cup {None} /\ pos' \in Int
      BY <2>0 DEF Surroundings, TryBuildPath, TryLidarTf, OnOdom, OnFix, OnScan, Advance,
                  Elapse
    <2>3. scan' \in Scans \cup {{}}
      BY <2>0 DEF Surroundings, TryBuildPath, TryLidarTf, OnOdom, OnFix, OnScan, Advance,
                  Elapse
    <2> QED
      BY <2>1, <2>2, <2>3
  <1>3. /\ sigma' \in Nat
        /\ scanAge' \in 0 .. ScanStale + 1 \cup {None}
        /\ fixAge' \in 0 .. FixTimeout + 1 \cup {None}
        /\ FixHeld'
    <2>0. /\ sigma \in Nat
          /\ scanAge \in 0 .. ScanStale + 1 \cup {None}
          /\ fixAge \in 0 .. FixTimeout + 1 \cup {None}
          /\ FixHeld
      BY DEF IInv, TypeOK
    <2>1. ASSUME UNCHANGED <<scanAge, sigma, fixAge, lastFix>>
          PROVE  /\ sigma' \in Nat
                 /\ scanAge' \in 0 .. ScanStale + 1 \cup {None}
                 /\ fixAge' \in 0 .. FixTimeout + 1 \cup {None}
                 /\ FixHeld'
      BY <2>0, <2>1 DEF FixHeld, HorizontalSigma
    <2>2. CASE TryBuildPath \/ TryLidarTf \/ (\E n \in Noise : OnOdom(n)) \/ Advance
      BY <2>1, <2>2 DEF TryBuildPath, TryLidarTf, OnOdom, Advance
    <2>3. ASSUME NEW m \in Fixes, OnFix(m)
          PROVE  /\ sigma' \in Nat
                 /\ scanAge' \in 0 .. ScanStale + 1 \cup {None}
                 /\ fixAge' \in 0 .. FixTimeout + 1 \cup {None}
                 /\ FixHeld'
      <3>1. sigma' = HorizontalSigma(m) /\ fixAge' = 0 /\ lastFix' = m /\ scanAge' = scanAge
        BY <2>3 DEF OnFix
      <3>2. HorizontalSigma(m) \in Nat
        BY SigmaType
      <3> QED
        BY <2>0, <3>1, <3>2 DEF FixHeld, HorizontalSigma
    <2>4. ASSUME NEW r \in Scans, OnScan(r)
          PROVE  /\ sigma' \in Nat
                 /\ scanAge' \in 0 .. ScanStale + 1 \cup {None}
                 /\ fixAge' \in 0 .. FixTimeout + 1 \cup {None}
                 /\ FixHeld'
      BY <2>0, <2>4 DEF OnScan, FixHeld, HorizontalSigma
    <2>5. CASE Elapse
      <3>1. /\ scanAge' \in 0 .. ScanStale + 1 \cup {None}
            /\ fixAge' \in 0 .. FixTimeout + 1 \cup {None}
            /\ fixAge' # None => fixAge # None
        BY <2>0, <2>5 DEF Elapse, Aged
      <3> QED
        BY <2>0, <2>5, <3>1 DEF Elapse, FixHeld, HorizontalSigma
    <2> QED
      BY <2>2, <2>3, <2>4, <2>5 DEF Surroundings
  <1>4. TypeOK'
    BY <1>1, <1>2, <1>3 DEF IInv, TypeOK, follow
  <1>5. InCorridor'
    BY <1>1 DEF IInv, InCorridor, follow
  <1> QED
    BY <1>1, <1>3, <1>4, <1>5 DEF IInv

-----------------------------------------------------------------------------
(* The control cycle *)

\* The least clear offset (_choose_offset).
Clear(here) == Offsets \ BlockedOffsets(here)
Least(clear) == CHOOSE i \in clear : \A j \in clear : i <= j

LEMMA LeastIsClear ==
    ASSUME NEW clear \in SUBSET Offsets, clear # {}
    PROVE  Least(clear) \in clear
  <1>1. clear \subseteq Nat
    BY OffsetsFit
  <1>2. \E m \in clear : \A k \in clear : m <= k
    BY <1>1, LeastNatural
  <1> QED
    BY <1>2 DEF Least

\* _choose_offset: the committed offset is clear, or the streak towards a
\* smaller clear one goes on.
LEMMA ChooseOffsetResult ==
    ASSUME TypeOK, NEW best \in Offsets, ChooseOffset(best)
    PROVE  /\ committed' \in Offsets
           /\ clearStreak' \in 0 .. ResumeCycles - 1
           /\ \/ committed' = best
              \/ clearStreak' \in 1 .. ResumeCycles - 1 /\ best < committed'
  <1>1. best \in Nat /\ committed \in Nat /\ committed \in Offsets
          /\ clearStreak \in 0 .. ResumeCycles - 1
    BY OffsetsFit DEF TypeOK
  <1> QED
    BY <1>1, FollowerAssumption DEF ChooseOffset

\* _ramp_toward never leaves the interval between where it is and its target.
LEMMA RampStays ==
    ASSUME NEW target \in Nat, dcmd \in Nat, speed \in Nat, RampToward(target)
    PROVE  /\ dcmd' \in Nat
           /\ dcmd' <= dcmd \/ dcmd' <= target
  <1>1. PICK step : step = MinInt(AbsInt(target - dcmd), MaxInt(speed, FloorSpeed))
    OBVIOUS
  <1>2. step \in Nat /\ step <= AbsInt(target - dcmd)
    BY <1>1, FollowerAssumption DEF MinInt, MaxInt, AbsInt
  <1>3. dcmd' = IF target - dcmd < 0 THEN dcmd - step ELSE dcmd + step
    BY <1>1 DEF RampToward
  <1> QED
    BY <1>2, <1>3 DEF AbsInt

\* The head of _control.
LEMMA LocaliseType ==
    ASSUME TypeOK, Localise
    PROVE  /\ s' \in Stations /\ travelled' \in Int
           /\ seen' \in Int /\ first' \in Int
  <1>1. pose \in Int /\ s \in Stations \cup {None}
    BY DEF TypeOK, Localise
  <1>2. s' \in Stations
    BY <1>1, ProjectType DEF Localise
  <1>3. travelled' \in Int
    <2>1. CASE s = None
      BY <2>1 DEF Localise, TypeOK
    <2>2. CASE s # None
      <3>1. s \in Int /\ s' \in Int
        BY <1>1, <1>2, <2>2, StationsInt
      <3>2. ForwardGap(s, s') \in Int
        BY <3>1, GapType
      <3> QED
        BY <2>2, <3>2 DEF Localise, TypeOK
    <2> QED
      BY <2>1, <2>2
  <1> QED
    BY <1>1, <1>2, <1>3 DEF Localise, TypeOK

\* What a cycle that drives on does.
LEMMA DriveResult ==
    ASSUME IInv, NEW v \in Speeds, NEW turn \in Turns, ControlDrive(v, turn)
    PROVE  /\ committed' \in Offsets /\ clearStreak' \in 0 .. ResumeCycles - 1
           /\ \/ committed' \notin BlockedOffsets(s')
              \/ /\ clearStreak' \in 1 .. ResumeCycles - 1
                 /\ \E i \in Clear(s') : i < committed'
           /\ dcmd' \in Nat /\ dcmd' <= Widest
           /\ cmd' \in [lin : Nat, turn : Int] /\ speed' = cmd'.lin
           /\ cmd' # StopCmd => FixPenalty # 0 /\ cmd'.lin = v * FixPenalty
  <1> USE FollowerAssumption
  <1>1. PICK best : best = Least(Clear(s'))
    OBVIOUS
  <1>2. best \in Clear(s') /\ best \in Offsets /\ best \notin BlockedOffsets(s')
    BY <1>1, LeastIsClear DEF ControlDrive, Clear
  <1>3. ChooseOffset(best) /\ RampToward(Offset(committed'))
    BY <1>1 DEF ControlDrive, Clear, Least
  <1>4. /\ committed' \in Offsets /\ clearStreak' \in 0 .. ResumeCycles - 1
        /\ \/ committed' = best
           \/ clearStreak' \in 1 .. ResumeCycles - 1 /\ best < committed'
    BY <1>2, <1>3, ChooseOffsetResult DEF IInv
  <1>5. Offset(committed') \in Nat /\ Offset(committed') <= Widest
    BY <1>4, OffsetsFit
  <1>6. dcmd \in Nat /\ speed \in Nat /\ dcmd <= Widest /\ Widest \in Nat
    BY OffsetsFit DEF IInv, TypeOK, InCorridor
  <1>7. dcmd' \in Nat /\ (dcmd' <= dcmd \/ dcmd' <= Offset(committed'))
    BY <1>3, <1>5, <1>6, RampStays
  <1>8. FixPenalty \in Nat /\ v \in Nat /\ turn \in Int /\ v * FixPenalty \in Nat
    BY PenaltyType, MulMonotone DEF IInv
  <1>9. cmd' = IF FixPenalty = 0 THEN StopCmd ELSE [lin |-> v * FixPenalty, turn |-> turn]
    BY DEF ControlDrive
  <1>10. /\ cmd' \in [lin : Nat, turn : Int]
         /\ cmd' # StopCmd => FixPenalty # 0 /\ cmd'.lin = v * FixPenalty
    BY <1>8, <1>9 DEF StopCmd
  <1> QED
    BY <1>2, <1>4, <1>5, <1>6, <1>7, <1>10 DEF ControlDrive

LEMMA ControlIInv == IInv /\ Control => IInv'
  <1> SUFFICES ASSUME IInv, Control PROVE IInv'
    OBVIOUS
  <1>1. Localise /\ UNCHANGED inputs
    BY DEF Control
  <1>2. /\ s' \in Stations /\ travelled' \in Int
        /\ seen' \in Int /\ first' \in Int
    BY <1>1, LocaliseType DEF IInv
  <1>3. FixHeld'
    BY <1>1 DEF IInv, FixHeld, inputs, HorizontalSigma
  <1>4. ASSUME committed' \in Offsets, clearStreak' \in 0 .. ResumeCycles - 1,
               dcmd' \in Nat, dcmd' <= Widest, speed' \in Nat,
               cmd' \in [lin : Nat, turn : Int], finished' \in BOOLEAN,
               state' \in {"driving", "retreating", "resuming", "blocked", "degraded",
                           "finished"}
        PROVE  IInv'
    <2>1. TypeOK'
      BY <1>1, <1>2, <1>4 DEF IInv, TypeOK, inputs
    <2>2. InCorridor'
      BY <1>4 DEF InCorridor
    <2> QED
      BY <1>3, <2>1, <2>2 DEF IInv
  <1>5. StopCmd \in [lin : Nat, turn : Int]
    BY DEF StopCmd
  <1>6. CASE ControlFinish \/ ControlBlocked
    BY <1>4, <1>5, <1>6 DEF ControlFinish, ControlBlocked, IInv, TypeOK, InCorridor
  <1>7. ASSUME NEW answer \in Pursue, ControlDrive(answer.v, answer.turn) PROVE IInv'
    <2>1. answer.v \in Speeds /\ answer.turn \in Turns
      BY DEF Pursue
    <2>2. /\ committed' \in Offsets /\ clearStreak' \in 0 .. ResumeCycles - 1
          /\ dcmd' \in Nat /\ dcmd' <= Widest
          /\ cmd' \in [lin : Nat, turn : Int] /\ speed' = cmd'.lin
      BY <1>7, <2>1, DriveResult
    <2>3. finished' \in BOOLEAN /\ speed' \in Nat
      BY <1>7, <2>2 DEF ControlDrive, IInv, TypeOK
    <2>4. state' \in {"driving", "retreating", "resuming", "blocked", "degraded",
                      "finished"}
      BY <1>7 DEF ControlDrive, StateOf
    <2> QED
      BY <1>4, <2>2, <2>3, <2>4
  <1> QED
    BY <1>6, <1>7 DEF Control

LEMMA NextIInv == IInv /\ [Next]_vars => IInv'
  <1> SUFFICES ASSUME IInv, [Next]_vars PROVE IInv'
    OBVIOUS
  <1>1. CASE UNCHANGED vars
    BY <1>1 DEF vars, inputs, follow, IInv, TypeOK, InCorridor, FixHeld, HorizontalSigma
  <1> QED
    BY <1>1, ControlIInv, SurroundingsIInv DEF Next

\* Types, corridor and fix, for every value of the constants.
THEOREM InvariantHolds == Spec => []IInv
BY InitIInv, NextIInv, PTL DEF Spec

\* The follower's variables keep their types.
THEOREM TypeCorrect == Spec => []TypeOK
BY InvariantHolds, PTL DEF IInv

\* The offset that is commanded never takes the robot's width out of the taught
\* corridor (_candidate_offsets, _choose_offset, _ramp_toward).
THEOREM StaysInCorridor == Spec => []CorridorKept
  <1>1. IInv => CorridorKept
    BY OffsetsFit, FollowerAssumption DEF IInv, TypeOK, InCorridor, CorridorKept
  <1> QED
    BY <1>1, InvariantHolds, PTL

-----------------------------------------------------------------------------
(* Action properties of the control cycle *)

\* A step that counts as a cycle and moves the vehicle drives on.
LEMMA MovingCycleDrives ==
    ASSUME IInv, [Next]_vars, ~UNCHANGED vars, ControlCycle, cmd' # StopCmd
    PROVE  \E v \in Speeds, turn \in Turns : ControlDrive(v, turn)
  <1>1. ~Surroundings
    BY SurroundingsIInv DEF ControlCycle, vars
  <1>2. Control
    BY <1>1 DEF Next
  <1>3. ~ControlFinish /\ ~ControlBlocked
    BY DEF ControlFinish, ControlBlocked
  <1>4. PICK answer \in Pursue : ControlDrive(answer.v, answer.turn)
    BY <1>2, <1>3 DEF Control
  <1> QED
    BY <1>4 DEF Pursue

\* No motion but on a fresh fix with a covariance below sigma_stop on both axes,
\* and never faster than the worse axis allows (_fix_penalty, horizontal_sigma).
THEOREM FixGoverns == Spec => FixGovernsMotion
  <1>1. ASSUME IInv, [Next]_vars, ~UNCHANGED vars, ControlCycle, cmd' # StopCmd
        PROVE  /\ lastFix # None
               /\ fixAge <= FixTimeout
               /\ lastFix.known /\ lastFix.status >= 0
               /\ \A axis \in {lastFix.east, lastFix.north} :
                     /\ axis < SigmaStop
                     /\ \E v \in Speeds :
                           cmd'.lin <= v * (SigmaStop - MaxInt(axis, SigmaSlow))
    <2> USE FollowerAssumption
    <2>1. PICK v \in Speeds, turn \in Turns : ControlDrive(v, turn)
      BY <1>1, MovingCycleDrives
    <2>2. FixPenalty # 0 /\ cmd'.lin = v * FixPenalty
      BY <1>1, <2>1, DriveResult
    <2>3. /\ fixAge # None /\ fixAge <= FixTimeout
          /\ sigma < SigmaStop /\ FixPenalty \in Nat
          /\ FixPenalty = SigmaStop - MaxInt(sigma, SigmaSlow)
      BY <1>1, <2>2, PenaltyType DEF IInv
    <2>4. lastFix \in Fixes /\ sigma = HorizontalSigma(lastFix)
      BY <1>1, <2>3 DEF IInv, FixHeld
    <2>5. lastFix.known \in BOOLEAN /\ lastFix.status \in Int
            /\ lastFix.east \in Nat /\ lastFix.north \in Nat
      BY <2>4
    <2>6. /\ lastFix.known /\ lastFix.status >= 0
          /\ sigma = MaxInt(lastFix.east, lastFix.north)
      BY <2>3, <2>4, <2>5 DEF HorizontalSigma
    <2>7. ASSUME NEW axis \in {lastFix.east, lastFix.north}
          PROVE  /\ axis < SigmaStop
                 /\ cmd'.lin <= v * (SigmaStop - MaxInt(axis, SigmaSlow))
      <3>1. axis \in Nat /\ axis <= sigma /\ sigma \in Nat
        BY <2>5, <2>6 DEF MaxInt
      <3>2. /\ SigmaStop - MaxInt(axis, SigmaSlow) \in Nat
            /\ FixPenalty <= SigmaStop - MaxInt(axis, SigmaSlow)
        BY <2>3, <3>1 DEF MaxInt
      <3>3. v \in Nat
        BY <2>1
      <3>4. v * FixPenalty <= v * (SigmaStop - MaxInt(axis, SigmaSlow))
        BY <2>3, <3>2, <3>3, MulMonotone
      <3> QED
        BY <2>2, <2>3, <3>1, <3>4
    <2>8. lastFix # None
      BY <2>4
    <2> QED
      BY <2>3, <2>6, <2>7, <2>8
  <1>2. IInv /\ [Next]_vars =>
          [ControlCycle /\ cmd' # StopCmd =>
              /\ lastFix # None
              /\ fixAge <= FixTimeout
              /\ lastFix.known /\ lastFix.status >= 0
              /\ \A axis \in {lastFix.east, lastFix.north} :
                    /\ axis < SigmaStop
                    /\ \E v \in Speeds :
                          cmd'.lin <= v * (SigmaStop - MaxInt(axis, SigmaSlow))]_vars
    BY <1>1
  <1> QED
    BY <1>2, InvariantHolds, PTL DEF Spec, FixGovernsMotion

\* A cycle that moves the vehicle heads for a clear offset, or the streak that
\* leads in to one has begun (_choose_offset).
THEOREM HeadsForClear == Spec => ClearOrReturning
  <1>1. IInv /\ [Next]_vars =>
          [ControlCycle /\ cmd' # StopCmd =>
              \/ committed' \notin BlockedOffsets(s')
              \/ /\ clearStreak' \in 1 .. ResumeCycles - 1
                 /\ \E i \in Offsets \ BlockedOffsets(s') : i < committed']_vars
    <2> SUFFICES ASSUME IInv, [Next]_vars, ~UNCHANGED vars, ControlCycle, cmd' # StopCmd
                 PROVE  \/ committed' \notin BlockedOffsets(s')
                        \/ /\ clearStreak' \in 1 .. ResumeCycles - 1
                           /\ \E i \in Offsets \ BlockedOffsets(s') : i < committed'
      OBVIOUS
    <2>1. PICK v \in Speeds, turn \in Turns : ControlDrive(v, turn)
      BY MovingCycleDrives
    <2> QED
      BY <2>1, DriveResult DEF Clear
  <1> QED
    BY <1>1, InvariantHolds, PTL DEF Spec, ClearOrReturning

-----------------------------------------------------------------------------
(* Progress along the path *)

\* x is a position measured no further than MaxGap from what odometry may say now.
InReach(x) == x # None => \A n \in Noise : pos + n - x <= MaxGap /\ x - (pos + n) <= MaxGap

\* The measured position and that of the last cycle belong to the vehicle, and
\* the cycles so far have counted every station between them.
Tracked ==
    /\ InReach(pose) /\ InReach(seen)
    /\ pose # None /\ seen # None => pose - seen <= MaxGap /\ seen - pose <= MaxGap
    /\ seen = None => s = None /\ first = None /\ travelled = 0 /\ ~finished
    /\ seen # None => first # None /\ s # None
    /\ ProgressIsReal

LEMMA InitTracked == Init => Tracked
BY DEF Init, Tracked, InReach, ProgressIsReal

\* Odometry and the vehicle keep the last cycle in reach.
LEMMA SurroundingsTracked == IInv /\ Tracked /\ Surroundings => Tracked'
  <1> SUFFICES ASSUME IInv, Tracked, Surroundings PROVE Tracked'
    OBVIOUS
  <1> USE FollowerAssumption, OdometryAssumption
  <1>1. pose \in Int \cup {None} /\ seen \in Int \cup {None} /\ pos \in Int
    BY DEF IInv, TypeOK
  <1>2. UNCHANGED follow
    BY SurroundingsIInv
  <1>3. /\ seen' = None => s' = None /\ first' = None /\ travelled' = 0 /\ ~finished'
        /\ seen' # None => first' # None /\ s' # None
        /\ ProgressIsReal'
    BY <1>2 DEF follow, Tracked, ProgressIsReal
  <1>4. /\ InReach(pose)' /\ InReach(seen)'
        /\ pose' # None /\ seen' # None => pose' - seen' <= MaxGap /\ seen' - pose' <= MaxGap
    <2>1. CASE UNCHANGED <<pose, pos>>
      BY <1>2, <2>1 DEF follow, Tracked, InReach
    <2>2. ASSUME NEW n \in Noise, OnOdom(n)
          PROVE  /\ InReach(pose)' /\ InReach(seen)'
                 /\ pose' # None /\ seen' # None =>
                       pose' - seen' <= MaxGap /\ seen' - pose' <= MaxGap
      <3>1. pose' = pos + n /\ pos' = pos /\ seen' = seen
        BY <1>2, <2>2 DEF OnOdom, follow
      <3>2. ASSUME NEW m \in Noise
            PROVE  pos' + m - pose' <= MaxGap /\ pose' - (pos' + m) <= MaxGap
        <4>1. m \in Int /\ n \in Int /\ m - n <= MaxGap /\ n - m <= MaxGap
          BY <2>2
        <4> QED
          BY <1>1, <3>1, <4>1
      <3>3. InReach(pose)'
        BY <3>2 DEF InReach
      <3>4. InReach(seen)'
        BY <3>1 DEF Tracked, InReach
      <3>5. seen # None => pos + n - seen <= MaxGap /\ seen - (pos + n) <= MaxGap
        BY <2>2 DEF Tracked, InReach
      <3>6. ASSUME seen # None PROVE pose' - seen' <= MaxGap /\ seen' - pose' <= MaxGap
        BY <1>1, <3>1, <3>5, <3>6
      <3> QED
        BY <3>1, <3>3, <3>4, <3>6
    <2>3. CASE Advance
      <3>1. pos' = pos + 1 /\ pose' = pose /\ seen' = seen
        BY <1>2, <2>3 DEF Advance, follow
      <3>2. ASSUME NEW x \in {pose, seen}, x # None, NEW n \in Noise
            PROVE  pos + 1 + n - x <= MaxGap /\ x - (pos + 1 + n) <= MaxGap
        <4>1. pos + 1 + n - x <= MaxGap
          BY <2>3, <3>2 DEF Advance
        <4>2. x - (pos + n) <= MaxGap
          BY <3>2 DEF Tracked, InReach
        <4>3. x \in Int /\ n \in Int
          BY <1>1, <3>2
        <4> QED
          BY <1>1, <4>1, <4>2, <4>3
      <3>3. InReach(pose)' /\ InReach(seen)'
        BY <3>1, <3>2 DEF InReach
      <3> QED
        BY <3>1, <3>3 DEF Tracked
    <2>4. Advance \/ (\E n \in Noise : OnOdom(n)) \/ UNCHANGED <<pose, pos>>
      BY DEF Surroundings, TryBuildPath, TryLidarTf, OnFix, OnScan, Elapse
    <2> QED
      BY <2>1, <2>2, <2>3, <2>4
  <1> QED
    BY <1>3, <1>4 DEF Tracked

\* The station of the measured position lies where _control searches for it.
LEMMA CycleFinds ==
    ASSUME IInv, Tracked, pose # None
    PROVE  /\ Project(pose, s) = WrapS(pose)
           /\ s # None => ForwardGap(s, WrapS(pose)) =
                            IF Loop THEN pose - seen ELSE WrapS(pose) - WrapS(seen)
  <1> USE FollowerAssumption, OdometryAssumption
  <1>1. pose \in Int /\ WrapS(pose) \in Stations /\ WrapS(pose) \in Int
    BY WrapType DEF IInv, TypeOK
  <1>2. CASE s = None
    <2>1. WrapS(pose) \in Searched(s)
      BY <1>1, <1>2 DEF Searched
    <2> QED
      BY <1>1, <1>2, <2>1, ProjectFinds
  <1>3. CASE s # None
    <2>1. seen # None /\ seen \in Int /\ s = WrapS(seen)
            /\ pose - seen <= MaxGap /\ seen - pose <= MaxGap
      BY <1>3 DEF Tracked, ProgressIsReal, IInv, TypeOK
    <2>2. ForwardGap(s, WrapS(pose)) =
             IF Loop THEN pose - seen ELSE WrapS(pose) - WrapS(seen)
      <3>1. CASE Loop
        <4>1. 2 * (pose - seen) < Length /\ 2 * (seen - pose) < Length
          BY <1>1, <2>1, <3>1
        <4> QED
          BY <1>1, <2>1, <3>1, <4>1, GapIsDifference
      <3>2. CASE ~Loop
        BY <2>1, <3>2 DEF ForwardGap
      <3> QED
        BY <3>1, <3>2
    <2>3. AbsInt(ForwardGap(s, WrapS(pose))) <= Window
      <3>1. CASE Loop
        BY <1>1, <2>1, <2>2, <3>1 DEF AbsInt
      <3>2. CASE ~Loop
        <4>1. /\ WrapS(pose) - WrapS(seen) <= MaxGap
              /\ WrapS(seen) - WrapS(pose) <= MaxGap
          BY <1>1, <2>1, <3>2 DEF WrapS, MinInt, MaxInt
        <4>2. WrapS(seen) \in Int
          BY <2>1, WrapType
        <4> QED
          BY <1>1, <2>2, <3>2, <4>1, <4>2 DEF AbsInt
      <3> QED
        BY <3>1, <3>2
    <2>4. WrapS(pose) \in Searched(s)
      BY <1>1, <1>3, <2>3 DEF Searched
    <2> QED
      BY <1>1, <2>2, <2>4, ProjectFinds
  <1> QED
    BY <1>2, <1>3

\* A control cycle counts what the robot went since the last.
LEMMA ControlTracked == IInv /\ Tracked /\ Control => Tracked'
  <1> SUFFICES ASSUME IInv, Tracked, Control PROVE Tracked'
    OBVIOUS
  <1> USE FollowerAssumption, OdometryAssumption
  <1>1. /\ Localise /\ ~finished /\ pose # None /\ pose \in Int
        /\ pose' = pose /\ pos' = pos
    BY DEF Control, Localise, inputs, IInv, TypeOK
  <1>2. /\ s' = WrapS(pose) /\ s' # None /\ s' \in Int
        /\ seen' = pose /\ first' \in Int /\ first' # None
    <2>1. s' = WrapS(pose) /\ seen' = pose
      BY <1>1, CycleFinds DEF Localise
    <2>2. s' \in Int /\ first' \in Int
      BY <1>1, <2>1, WrapType, LocaliseType DEF IInv
    <2> QED
      BY <2>1, <2>2
  <1>3. travelled' = IF Loop THEN pose - first' ELSE WrapS(pose) - WrapS(first')
    <2>1. CASE seen = None
      <3>1. s = None /\ first = None /\ travelled = 0
        BY <2>1 DEF Tracked
      <3>2. travelled' = 0 /\ first' = pose
        BY <1>1, <3>1 DEF Localise
      <3>3. WrapS(pose) \in Int
        BY <1>1, WrapType
      <3> QED
        BY <1>1, <3>2, <3>3
    <2>2. CASE seen # None
      <3>1. /\ s # None /\ first # None /\ first \in Int /\ seen \in Int
            /\ travelled = IF Loop THEN seen - first ELSE WrapS(seen) - WrapS(first)
        BY <2>2 DEF Tracked, ProgressIsReal, IInv, TypeOK
      <3>2. travelled' = travelled + ForwardGap(s, WrapS(pose)) /\ first' = first
        BY <1>1, <1>2, <3>1 DEF Localise
      <3>3. ForwardGap(s, WrapS(pose)) =
               IF Loop THEN pose - seen ELSE WrapS(pose) - WrapS(seen)
        BY <1>1, <3>1, CycleFinds
      <3>4. WrapS(pose) \in Int /\ WrapS(seen) \in Int /\ WrapS(first) \in Int
        BY <1>1, <3>1, WrapType
      <3> QED
        BY <1>1, <3>1, <3>2, <3>3, <3>4
    <2> QED
      BY <2>1, <2>2
  <1>4. finished' => IF Loop THEN pose - first' >= Laps * Length
                     ELSE Length - pose <= GoalTolerance
    <2> SUFFICES ASSUME finished'
                 PROVE  IF Loop THEN pose - first' >= Laps * Length
                        ELSE Length - pose <= GoalTolerance
      OBVIOUS
    <2>1. AtEnd(s', travelled')
      BY <1>1 DEF Control, ControlFinish, ControlBlocked, ControlDrive
    <2>2. CASE Loop
      BY <1>3, <2>1, <2>2 DEF AtEnd
    <2>3. CASE ~Loop
      BY <1>1, <1>2, <2>1, <2>3 DEF AtEnd, WrapS, MinInt, MaxInt
    <2> QED
      BY <2>2, <2>3
  <1>5. ProgressIsReal'
    <2> SUFFICES ASSUME seen' # None PROVE ProgressIsReal'
      BY DEF ProgressIsReal
    <2> QED
      BY <1>2, <1>3, <1>4 DEF ProgressIsReal, WrapS
  <1>6. InReach(pose)' /\ InReach(seen)'
    BY <1>1, <1>2 DEF Tracked, InReach
  <1> QED
    BY <1>1, <1>2, <1>5, <1>6 DEF Tracked

\* Over the seam of a loop and back, through noise on the position and cycles of
\* uneven length, travelled is what the robot went; a patrol that finished has
\* gone its laps or reached its end (_control, Path.project, Path.forward_gap).
THEOREM ProgressIsMeasured == Spec => []ProgressIsReal
  <1>1. IInv /\ Tracked /\ [Next]_vars => Tracked'
    <2> SUFFICES ASSUME IInv, Tracked, [Next]_vars PROVE Tracked'
      OBVIOUS
    <2>1. CASE UNCHANGED vars
      BY <2>1 DEF vars, inputs, follow, Tracked, InReach, ProgressIsReal
    <2> QED
      BY <2>1, SurroundingsTracked, ControlTracked DEF Next
  <1>2. Tracked => ProgressIsReal
    BY DEF Tracked
  <1> QED
    BY <1>1, <1>2, InitTracked, InvariantHolds, PTL DEF Spec
=============================================================================
