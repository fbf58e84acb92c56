----------------------------- MODULE RtcmFramer -----------------------------
(***************************************************************************)
(* The RTCM3 framer the three correction sources share (rtcm_framer.cpp).  *)
(* A frame is the preamble, two header bytes (six reserved bits and a ten  *)
(* bit length), the payload and the checksum.  The byte alphabet is small: *)
(* a byte is a number below HiStep, the two header bytes are the digits of *)
(* the length, and the CRC-24Q trailer is one byte computed by Crc, which  *)
(* stands for the table-driven crc24q of the source.                       *)
(***************************************************************************)
EXTENDS Integers, Sequences

CONSTANTS
    Preamble,       \* kRtcm3Preamble
    Reserved,       \* second bytes with one of the reserved bits set
    HiStep,         \* the weight of the second byte in the length
    Crc(_)          \* the checksum of a header and its payload

Byte == 0 .. HiStep - 1
HeaderSize == 3
CrcSize == 1

ASSUME FramerAssumption ==
    /\ HiStep \in Nat \ {0}
    /\ Preamble \in Byte
    /\ Reserved \subseteq Byte

\* A header claims a frame of this size at the front of the buffer.
Header(b) == Len(b) >= HeaderSize /\ b[1] = Preamble /\ b[2] \notin Reserved
FrameSize(b) == HeaderSize + b[2] * HiStep + b[3] + CrcSize

\* Too few bytes to tell whether a frame starts here: the loop's breaks.
Undecided(b) ==
    \/ b = << >>
    \/ b[1] = Preamble /\ Len(b) < HeaderSize
    \/ Header(b) /\ Len(b) < FrameSize(b)

\* A frame with a good checksum starts here.
Whole(b) ==
    /\ Header(b) /\ Len(b) >= FrameSize(b)
    /\ LET n == FrameSize(b) - CrcSize IN Crc(SubSeq(b, 1, n)) = b[n + 1]

\* Where the search goes on when no frame starts here: one byte further.
Resync(b) == Tail(b)

\* try_extract_frames on a buffer: the frames it emits and what it keeps.
try_extract_frames[b \in Seq(Byte)] ==
    IF Undecided(b) THEN [frames |-> << >>, rest |-> b]
    ELSE IF Whole(b)
    THEN LET n == FrameSize(b)
             later == try_extract_frames[SubSeq(b, n + 1, Len(b))]
         IN  [later EXCEPT !.frames = <<SubSeq(b, 1, n)>> \o @]
    ELSE try_extract_frames[Resync(b)]

push(b, data) == try_extract_frames[b \o data]
=============================================================================
