------------------------------ MODULE FrameFeed -----------------------------
(***************************************************************************)
(* What a correction source promises (ntrip_client/README.md: "publish     *)
(* validated RTCM3 frames"), whatever it reads from and however the bytes  *)
(* are cut into reads: the frames published from one connection are those  *)
(* of what the peer wrote on it, found from left to right, in order, none  *)
(* twice and none across a reconnection; a break loses only frames that    *)
(* were not read yet.                                                      *)
(***************************************************************************)
EXTENDS RtcmFramer, FiniteSetsExt

VARIABLES
    wire,           \* what the peer has written on this connection
    out             \* the frames published from it

feed == <<wire, out>>

\* The frames of a stream by their positions: the next one starts at the
\* leftmost place that is a whole frame, unless an unfinished one is before.
FramesFrom(w) ==
    LET at(p) == SubSeq(w, p, Len(w))
        find[p \in 1 .. Len(w) + 1] ==
            LET claims == {q \in p .. Len(w) : Whole(at(q)) \/ Undecided(at(q))}
                first == Min(claims)
            IN  IF claims = {} \/ ~Whole(at(first)) THEN << >>
                ELSE LET n == FrameSize(at(first))
                     IN  <<SubSeq(w, first, first + n - 1)>> \o find[first + n]
    IN  find[1]

FeedInit == feed = << << >>, << >> >>

Write == \E b \in Byte : wire' = Append(wire, b) /\ UNCHANGED out

Publish ==
    /\ Len(out') > Len(out)
    /\ \E n \in 0 .. Len(wire) : out' = FramesFrom(SubSeq(wire, 1, n))
    /\ UNCHANGED wire

Reconnect == feed' = << << >>, << >> >>

FeedNext == Write \/ Publish \/ Reconnect
FeedSpec == FeedInit /\ [][FeedNext]_feed
=============================================================================
