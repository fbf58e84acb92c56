----------------------------- MODULE RtcmRelayMC ----------------------------
EXTENDS BaseInfo

\* A checksum that sees the order of the bytes.
MCCrc(b) ==
    LET sum[i \in 0 .. Len(b)] == IF i = 0 THEN 0 ELSE 2 * sum[i - 1] + b[i] + 1
    IN  sum[Len(b)] % HiStep

Frame(payload) ==
    LET n == Len(payload)
        h == <<Preamble, n \div HiStep, n % HiStep>> \o payload
    IN  Append(h, MCCrc(h))
Broken(payload) ==
    LET f == Frame(payload)
    IN  [f EXCEPT ![Len(f)] = (@ + 1) % HiStep]

MCNullAntennas == {<<2>>}

\* An antenna description and an empty frame in a row; noise and a doubled
\* preamble before a frame; a false header that claims four bytes and so
\* covers a whole frame; a frame with one as payload, which describes the
\* station; the same with a bad checksum.
MCStreams ==
    { Frame(<<1, 1, 2>>) \o Frame(<< >>),
      <<2, Preamble>> \o Frame(<<Preamble>>),
      <<Preamble, 1, 0>> \o Frame(<< >>) \o <<2>>,
      Frame(Frame(<< >>)), Broken(Frame(<< >>)) }

\* The law of the framer on these streams, however they are cut in two.
ASSUME FramerChecked == FramerLaw
=============================================================================
