------------------------------ MODULE BaseInfo ------------------------------
(***************************************************************************)
(* rtcm_base_info.py, the tool that tells which base corrects the robot,   *)
(* listening to what a relay publishes.  It parses each message again with *)
(* a parser of its own (iter_rtcm: no checksum, reserved bits masked), and *)
(* reports once it knows base, rover and antenna or its time is up.        *)
(*                                                                         *)
(* A message kind is the first byte of the payload.  The ECEF coordinates  *)
(* of a base stay the payload that carries them; how they look and how far *)
(* the rover is are RoundBases and the two places "near" and "far".        *)
(***************************************************************************)
EXTENDS RtcmRelay, FiniteSets

CONSTANTS
    StationKinds,       \* 1005 and 1006
    AntennaKind,        \* 1033
    StationMin,         \* least payload of a station description
    AntennaMin,         \* least payload of an antenna description
    CountAt,            \* where that has the length of its text
    RoundBases,         \* positions whose coordinates or height are round
    NullAntennas,       \* _NULL_ANTENNAS
    ToolRole,           \* bound: the role of the relay the tool listens to
    Depth,              \* of the subscription's queue
    MaxHeard            \* bound on the messages of one listening

ASSUME BaseAssumption ==
    /\ StationKinds \subseteq Byte /\ AntennaKind \in Byte \ StationKinds
    /\ {StationMin, AntennaMin, CountAt, Depth, MaxHeard} \subseteq Nat \ {0}
    /\ CountAt <= AntennaMin
    /\ \A b \in Byte \ Reserved : b % 2 = b  \* the mask takes the reserved bits

VARIABLES
    tool,           \* "off" or "listening"
    queue,          \* messages published and not yet taken by spin_once
    heard,          \* the messages its callback was given
    types,          \* the keys of self.types
    frames,         \* self.frames
    base,           \* self.base_ecef, << >> for None
    antenna,        \* self.antenna
    rover           \* self.rover: "none", "near" or "far"

known == <<types, frames, base, antenna>>
toolVars == <<tool, queue, heard, known, rover>>

\* mutant: a frame that just fills the message is taken for unfinished
Fits_Short(size, b) == size < Len(b)

\* A frame of this size is complete; an unfinished one ends the parsing.
Fits(size, b) == size <= Len(b)

\* The payloads of the frames in a message, the ones below two bytes left out;
\* of the second byte only the lowest bit is length, the rest is masked.
iter_rtcm[b \in Seq(Byte)] ==
    IF Len(b) <= HeaderSize THEN << >>
    ELSE IF b[1] # Preamble THEN iter_rtcm[Tail(b)]
    ELSE LET length == (b[2] % 2) * HiStep + b[3]
             size == HeaderSize + length + CrcSize
             payload == SubSeq(b, HeaderSize + 1, HeaderSize + length)
         IN  IF ~Fits(size, b) THEN << >>
             ELSE (IF length >= 2 THEN <<payload>> ELSE << >>)
                    \o iter_rtcm[SubSeq(b, size + 1, Len(b))]

IsStation(p) == p[1] \in StationKinds /\ Len(p) >= StationMin
HasAntenna(p) ==
    p[1] = AntennaKind /\ Len(p) >= AntennaMin /\ Len(p) >= CountAt + p[CountAt]

\* What the callback knows after the payloads ps, from what it knew.
Learn(k, ps) ==
    LET after[i \in 0 .. Len(ps)] ==
          IF i = 0 THEN k
          ELSE LET p == ps[i]
                   b == after[i - 1]
               IN  [types   |-> b.types \cup {p[1]},
                    frames  |-> b.frames + 1,
                    base    |-> IF IsStation(p) THEN p ELSE b.base,
                    antenna |-> IF ~HasAntenna(p) THEN b.antenna
                                ELSE SubSeq(p, CountAt + 1, CountAt + p[CountAt])]
    IN  after[Len(ps)]

\* The reasons to call the base virtual; without an antenna text it is no reason.
looks_synthesised ==
    {r \in {"round", "antenna", "baseline"} :
        \/ r = "round" /\ base \in RoundBases
        \/ r = "antenna" /\ antenna \in NullAntennas \ {<< >>}
        \/ r = "baseline" /\ rover = "near"}

\* What the tool would report at this moment.
report ==
    IF base = << >> THEN "no base"
    ELSE IF rover = "none" THEN "no rover"
    ELSE IF looks_synthesised # {} THEN "virtual" ELSE "physical"

ready == base # << >> /\ rover # "none"

-----------------------------------------------------------------------------
BaseInit ==
    /\ Init
    /\ tool = "off" /\ queue = << >> /\ heard = << >>
    /\ types = {} /\ frames = 0 /\ base = << >> /\ antenna = << >>
    /\ rover = "none"

\* A step of the relay: a listening tool gets what is published, and of more
\* than Depth waiting messages the oldest are gone.  The relay outlives it.
RelayStep ==
    /\ Next
    /\ tool = "listening" => dtor' = "no"
    /\ LET new == SubSeq(out', Len(out) + 1, Len(out'))
           all == queue \o new
           lost == IF Len(all) > Depth THEN Len(all) - Depth ELSE 0
       IN  queue' = IF tool = "listening" THEN SubSeq(all, lost + 1, Len(all))
                    ELSE queue
    /\ UNCHANGED <<tool, heard, known, rover>>

\* The tool is started beside a relay of the role ToolRole.
Start ==
    /\ tool = "off" /\ role = ToolRole /\ dtor = "no"
    /\ tool' = "listening"
    /\ UNCHANGED <<vars, queue, heard, known, rover>>

\* It has all it wants and need not wait for the deadline.
Satisfied == ready /\ antenna # << >>

\* One spin_once: a correction message.
on_rtcm ==
    /\ tool = "listening" /\ ~Satisfied /\ queue # << >> /\ Len(heard) < MaxHeard
    /\ queue' = Tail(queue) /\ heard' = Append(heard, Head(queue))
    /\ LET k == Learn([types |-> types, frames |-> frames, base |-> base,
                       antenna |-> antenna], iter_rtcm[Head(queue)])
       IN  types' = k.types /\ frames' = k.frames /\ base' = k.base
            /\ antenna' = k.antenna
    /\ UNCHANGED <<vars, tool, rover>>

\* One spin_once: a fix, taken only when the receiver has one.
on_fix ==
    /\ tool = "listening" /\ ~Satisfied
    /\ \E fix \in {"none", "near", "far"} :
        rover' = IF fix = "none" THEN rover ELSE fix
    /\ UNCHANGED <<vars, tool, queue, heard, known>>

\* The deadline has passed or the tool is satisfied: it prints its report,
\* and nothing is left of the process.
main ==
    /\ tool = "listening"
    /\ tool' = "off" /\ queue' = << >> /\ heard' = << >>
    /\ types' = {} /\ frames' = 0 /\ base' = << >> /\ antenna' = << >>
    /\ rover' = "none"
    /\ UNCHANGED vars

BaseNext == RelayStep \/ Start \/ on_rtcm \/ on_fix \/ main
BaseSpec == BaseInit /\ [][BaseNext]_<<vars, toolVars>>

-----------------------------------------------------------------------------
\* The payloads of the messages heard, cut by the relay's framing; those below
\* two bytes say nothing.
Payloads ==
    LET payload(f) == SubSeq(f, HeaderSize + 1, Len(f) - CrcSize)
    IN  [i \in 1 .. Len(heard) |-> payload(heard[i])]
Telling == {i \in 1 .. Len(heard) : Len(Payloads[i]) >= 2}
Stations == {i \in Telling : IsStation(Payloads[i])}

\* The second parser agrees with the framer of the relay on every message,
\* whatever the payload looks like: each that says something is counted once,
\* the base is that of the last station description heard, and whenever the
\* deadline comes the report names a base just when one was described.
BaseReported ==
    /\ frames = Cardinality(Telling)
    /\ types = {Payloads[i][1] : i \in Telling}
    /\ Stations # {} =>
        base = Payloads[CHOOSE i \in Stations : \A j \in Stations : j <= i]
    /\ report = "no base" <=> Stations = {}
=============================================================================
