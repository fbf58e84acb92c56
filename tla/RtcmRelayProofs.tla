-------------------------- MODULE RtcmRelayProofs ---------------------------
(***************************************************************************)
(* Proofs about the correction relays, for every role, every set of        *)
(* streams and every backoff: who may close the connection; that the       *)
(* framer finds the same frames however the bytes are cut into reads, and  *)
(* with it that what is published implements the abstract feed; and that   *)
(* rtcm_base_info, with a parser of its own, reports what was published.   *)
(***************************************************************************)
EXTENDS BaseInfo, SequenceTheorems, FiniteSetTheorems, WellFoundedInduction, TLAPS

-----------------------------------------------------------------------------
(* The connection *)

\* Where the io thread has a connection of its own in hand, and where its
\* descriptor is in the atomic.
InHand == {"store", "check", "enter", "read", "close"}
Stored == InHand \ {"store"}

\* The destructor has taken the descriptor: the thread is on its way out.
TakenOver ==
    held =>
        /\ ~running /\ ~fd
        /\ dtor \in {"wake", "join", "done"}
        /\ pc \in Stored \cup {"pause", "loop", "done", "accepting", "unlisten"}
        /\ role # "serial" => conn # "closed"

\* It has not: the thread's connection is open just where the thread has it.
Mine ==
    ~held =>
        /\ fd <=> pc \in Stored
        /\ conn # "closed" <=> pc \in InHand

Owned ==
    /\ role \in Roles /\ pc \in Pcs
    /\ running \in BOOLEAN /\ fd \in BOOLEAN /\ held \in BOOLEAN
    /\ conn \in Conns
    /\ running <=> dtor = "no"
    /\ TakenOver
    /\ Mine

LEMMA InitOwned == Init => Owned
BY DEF Init, Owned, TakenOver, Mine, Roles, Pcs, Conns, InHand, Stored

\* The steps of the io thread.
LEMMA IoOwned == Owned /\ IoStep => Owned'
  <1> SUFFICES ASSUME Owned, IoStep PROVE Owned'
    OBVIOUS
  <1> USE DEF Owned, TakenOver, Mine, Roles, Pcs, Conns, InHand, Stored, Goto, fds, killer
  <1>1. CASE Loop \/ OpenFails \/ Retry \/ StoreListen \/ Accepting
    BY <1>1 DEF Loop, OpenFails, Retry, StoreListen, Accepting
  <1>2. CASE OpenWorks
    BY <1>2 DEF OpenWorks
  <1>3. CASE AcceptPeer \/ AcceptFails
    BY <1>3 DEF AcceptPeer, AcceptFails
  <1>4. CASE Store
    BY <1>4 DEF Store
  <1>5. CASE Check \/ Enter \/ ReadBytes \/ ReadEnds
    BY <1>5 DEF Check, Enter, ReadBytes, ReadEnds
  <1>6. CASE Close
    BY <1>6 DEF Close
  <1>7. CASE Pause \/ Unlisten
    BY <1>7 DEF Pause, Unlisten
  <1> QED
    BY <1>1, <1>2, <1>3, <1>4, <1>5, <1>6, <1>7 DEF IoStep

\* The destructor's.
LEMMA DtorOwned == Owned /\ (Destroy \/ DtorStep) => Owned'
  <1> SUFFICES ASSUME Owned, Destroy \/ DtorStep PROVE Owned'
    OBVIOUS
  <1> USE DEF Owned, TakenOver, Mine, Roles, Pcs, Conns, InHand, Stored, fds
  <1>1. CASE Destroy
    BY <1>1 DEF Destroy
  <1>2. CASE TakeListen \/ CloseListen
    BY <1>2 DEF TakeListen, CloseListen
  <1>3. CASE Take
    BY <1>3 DEF Take
  <1>4. CASE Wake
    BY <1>4 DEF Wake
  <1>5. CASE Join
    BY <1>5 DEF Join
  <1> QED
    BY <1>1, <1>2, <1>3, <1>4, <1>5 DEF DtorStep

\* The base and the network.
LEMMA OutsideOwned == Owned /\ (Weather \/ BaseWrites \/ BaseBreaks) => Owned'
BY DEF Weather, BaseWrites, BaseBreaks, Owned, TakenOver, Mine, Roles, Pcs, Conns,
       InHand, Stored, fds, killer

LEMMA NextOwned == Owned /\ [Next]_vars => Owned'
  <1>1. Owned /\ UNCHANGED vars => Owned'
    BY DEF vars, fds, killer, Owned, TakenOver, Mine
  <1> QED
    BY <1>1, IoOwned, DtorOwned, OutsideOwned DEF Next

\* While the thread of a TCP relay uses its connection nobody has closed it, and
\* no connection is opened over one that is not closed (the destructors, the
\* exchange of conn_fd_ and fd_).
THEOREM OwnsConnection == Spec => []ConnectionOwned
  <1>1. Owned => ConnectionOwned
    BY DEF Owned, TakenOver, Mine, InHand, Stored, ConnectionOwned
  <1> QED
    BY <1>1, InitOwned, NextOwned, PTL DEF Spec

-----------------------------------------------------------------------------
(* Recursive definitions.  Their defining equations are proved from the    *)
(* least number of a set: what one step of a recursion with a size that    *)
(* goes down adds, approximation by approximation.                         *)

LEMMA LeastNumber ==
    ASSUME NEW S, S \subseteq Nat, S # {}
    PROVE  \E m \in S : \A y \in S : m <= y
  <1>1. \E m \in S : \A y \in S : ~(<<y, m>> \in OpToRel(<, Nat))
    BY NatLessThanWellFounded, WFMin
  <1>2. PICK m \in S : \A y \in S : ~(<<y, m>> \in OpToRel(<, Nat))
    BY <1>1
  <1>3. \A y \in S : ~(y < m)
    BY <1>2 DEF OpToRel
  <1> QED
    BY <1>3

\* The recursion f[x] = IF x is in stop THEN start[x] ELSE comb[x, f[next[x]]].
Unfold(f, x, stop, start, next, comb) ==
    IF x \in stop THEN start[x] ELSE comb[<<x, f[next[x]]>>]

\* It ends: every step goes to something smaller.
Shrinks(D, size, stop, next) ==
    \A x \in D \ stop : next[x] \in D /\ size[next[x]] < size[x]

\* f is right about everything smaller than n.
RightTo(n, f, D, size, stop, start, next, comb) ==
    \A x \in D : size[x] < n => f[x] = Unfold(f, x, stop, start, next, comb)

LEMMA RightAgree ==
    ASSUME NEW D, NEW size \in [D -> Nat], NEW stop, NEW start, NEW next, NEW comb,
           Shrinks(D, size, stop, next), NEW n \in Nat, NEW f, NEW g,
           RightTo(n, f, D, size, stop, start, next, comb),
           RightTo(n, g, D, size, stop, start, next, comb)
    PROVE  \A x \in D : size[x] < n => f[x] = g[x]
  <1> DEFINE bad == {k \in Nat : \E x \in D : size[x] = k /\ k < n /\ f[x] # g[x]}
  <1> SUFFICES ASSUME bad # {} PROVE FALSE
    OBVIOUS
  <1>1. PICK m \in bad : \A y \in bad : m <= y
    <2> HIDE DEF bad
    <2>1. bad \subseteq Nat
      BY DEF bad
    <2> QED
      BY <2>1, LeastNumber
  <1>2. PICK x \in D : size[x] = m /\ m < n /\ f[x] # g[x]
    BY <1>1
  <1>3. /\ f[x] = Unfold(f, x, stop, start, next, comb)
        /\ g[x] = Unfold(g, x, stop, start, next, comb)
    BY <1>2 DEF RightTo
  <1>4. x \notin stop /\ f[next[x]] # g[next[x]]
    BY <1>2, <1>3, Zenon DEF Unfold
  <1>5. next[x] \in D /\ size[next[x]] < size[x]
    BY <1>4 DEF Shrinks
  <1>6. size[next[x]] \in Nat /\ size[next[x]] < n /\ size[next[x]] < m
    BY <1>2, <1>5
  <1>7. size[next[x]] \in bad
    BY <1>4, <1>5, <1>6
  <1> QED
    BY <1>1, <1>6, <1>7

LEMMA RightExists ==
    ASSUME NEW D, NEW V, NEW size \in [D -> Nat], NEW stop, NEW start \in [D -> V], NEW next,
           NEW comb \in [D \X V -> V], Shrinks(D, size, stop, next), NEW n \in Nat
    PROVE  \E f \in [D -> V] : RightTo(n, f, D, size, stop, start, next, comb)
  <1> DEFINE Can(k) == \E f \in [D -> V] : RightTo(k, f, D, size, stop, start, next, comb)
             bad == {k \in Nat : ~Can(k)}
  <1> SUFFICES ASSUME bad # {} PROVE FALSE
    OBVIOUS
  <1>1. PICK m \in bad : \A y \in bad : m <= y
    <2> HIDE DEF bad
    <2>1. bad \subseteq Nat
      BY DEF bad
    <2> QED
      BY <2>1, LeastNumber
  <1>2. m # 0
    <2>1. RightTo(0, start, D, size, stop, start, next, comb)
      BY DEF RightTo
    <2>2. Can(0)
      BY <2>1
    <2> QED
      BY <1>1, <2>2
  <1>3. m - 1 \in Nat /\ m - 1 \notin bad
    BY <1>1, <1>2
  <1>4. PICK f \in [D -> V] : RightTo(m - 1, f, D, size, stop, start, next, comb)
    BY <1>3
  <1> DEFINE g == [x \in D |-> Unfold(f, x, stop, start, next, comb)]
  <1>5. g \in [D -> V]
    <2>1. \A x \in D : Unfold(f, x, stop, start, next, comb) \in V
      <3> TAKE x \in D
      <3>1. CASE x \in stop
        BY <3>1 DEF Unfold
      <3>2. CASE x \notin stop
        <4>1. next[x] \in D
          BY <3>2 DEF Shrinks
        <4>2. f[next[x]] \in V
          BY <4>1
        <4>3. <<x, f[next[x]]>> \in D \X V
          BY <4>2
        <4>4. comb[<<x, f[next[x]]>>] \in V
          BY <4>3
        <4> QED
          BY <3>2, <4>4, Zenon DEF Unfold
      <3> QED
        BY <3>1, <3>2
    <2> QED
      BY <2>1, Zenon
  <1>6. RightTo(m, g, D, size, stop, start, next, comb)
    <2> SUFFICES ASSUME NEW x \in D, size[x] < m
                 PROVE  g[x] = Unfold(g, x, stop, start, next, comb)
      BY Zenon DEF RightTo
    <2>1. g[x] = Unfold(f, x, stop, start, next, comb)
      BY Zenon
    <2>2. CASE x \in stop
      BY <2>1, <2>2, Zenon DEF Unfold
    <2>3. CASE x \notin stop
      <3>1. next[x] \in D /\ size[next[x]] < size[x]
        BY <2>3 DEF Shrinks
      <3>2. size[next[x]] < m - 1
        BY <1>1, <3>1
      <3>3. f[next[x]] = Unfold(f, next[x], stop, start, next, comb)
        BY <1>4, <3>1, <3>2 DEF RightTo
      <3>4. g[next[x]] = f[next[x]]
        BY <3>1, <3>3, Zenon
      <3> QED
        BY <2>1, <2>3, <3>4, Zenon DEF Unfold
    <2> QED
      BY <2>2, <2>3
  <1>7. Can(m)
    BY <1>5, <1>6, Zenon
  <1> QED
    BY <1>1, <1>7

\* A recursion over D with values in V that ends ...
Recursion(D, V, size, stop, start, next, comb) ==
    /\ size \in [D -> Nat] /\ start \in [D -> V] /\ comb \in [D \X V -> V]
    /\ Shrinks(D, size, stop, next)

\* ... defines a function.
Solvable(D, V, stop, start, next, comb) ==
    \E f \in [D -> V] : \A x \in D : f[x] = Unfold(f, x, stop, start, next, comb)

LEMMA RecursionDefines ==
    ASSUME NEW D, NEW V, NEW size, NEW stop, NEW start, NEW next, NEW comb,
           Recursion(D, V, size, stop, start, next, comb)
    PROVE  Solvable(D, V, stop, start, next, comb)
  <1> USE DEF Recursion
  <1> DEFINE Right(n, f) == RightTo(n, f, D, size, stop, start, next, comb)
             G(n) == CHOOSE f \in [D -> V] : Right(n, f)
             F == [x \in D |-> G(size[x] + 1)[x]]
  <1>1. \A n \in Nat : G(n) \in [D -> V] /\ Right(n, G(n))
    <2> TAKE n \in Nat
    <2>1. \E f \in [D -> V] : Right(n, f)
      BY RightExists
    <2> QED
      BY <2>1, Zenon
  <1>2. ASSUME NEW x \in D PROVE F[x] = Unfold(F, x, stop, start, next, comb)
    <2>1. size[x] \in Nat /\ size[x] + 1 \in Nat /\ size[x] < size[x] + 1
      OBVIOUS
    <2> DEFINE g == G(size[x] + 1)
    <2>2. F[x] = g[x]
      BY Zenon
    <2>3. Right(size[x] + 1, g)
      BY <1>1, <2>1, Zenon
    <2>4. g[x] = Unfold(g, x, stop, start, next, comb)
      <3> HIDE DEF g
      <3> QED
        BY <2>1, <2>3, Zenon DEF RightTo
    <2>5. CASE x \in stop
      <3> HIDE DEF g, F
      <3> QED
        BY <2>2, <2>4, <2>5, Zenon DEF Unfold
    <2>6. CASE x \notin stop
      <3> DEFINE y == next[x]
                 h == G(size[y] + 1)
      <3>1. y \in D /\ size[y] < size[x]
        BY <2>6 DEF Shrinks
      <3>2. size[y] \in Nat /\ size[y] + 1 \in Nat /\ size[y] + 1 <= size[x] + 1 /\ size[y] < size[y] + 1
        <4> HIDE DEF y
        <4> QED
          BY <2>1, <3>1
      <3>3. F[y] = h[y]
        <4> HIDE DEF y
        <4> QED
          BY <3>1, Zenon
      <3>4. Right(size[y] + 1, h)
        <4> HIDE DEF y
        <4> QED
          BY <1>1, <3>2, Zenon
      <3> HIDE DEF y, g, h, F, G
      <3>5. Right(size[y] + 1, g)
        <4>1. \A z \in D : size[z] < size[y] + 1 => size[z] < size[x] + 1
          BY <2>1, <3>2
        <4> QED
          BY <2>3, <4>1, Zenon DEF RightTo
      <3>6. g[y] = h[y]
        <4>1. \A z \in D : size[z] < size[y] + 1 => g[z] = h[z]
          BY <3>2, <3>4, <3>5, RightAgree
        <4> QED
          BY <3>1, <3>2, <4>1
      <3> QED
        BY <2>2, <2>4, <2>6, <3>3, <3>6, Zenon DEF Unfold, y
    <2> QED
      BY <2>5, <2>6
  <1>3. F \in [D -> V]
    <2>1. \A x \in D : G(size[x] + 1)[x] \in V
      <3> TAKE x \in D
      <3>1. size[x] + 1 \in Nat
        OBVIOUS
      <3>2. G(size[x] + 1) \in [D -> V]
        BY <1>1, <3>1, Zenon
      <3> HIDE DEF G
      <3> QED
        BY <3>2
    <2> QED
      BY <2>1, Zenon
  <1> QED
    <2> HIDE DEF F
    <2> QED
      BY <1>2, <1>3 DEF Solvable

-----------------------------------------------------------------------------
(* The framer: what try_extract_frames makes of a buffer, and that reads   *)
(* may be cut anywhere.                                                    *)

\* A shortest one among byte sequences; an induction over buffers looks at a
\* shortest counterexample.
LEMMA ShortestOne ==
    ASSUME NEW S, S \subseteq Seq(Byte), S # {}
    PROVE  \E b \in S : \A c \in S : Len(b) <= Len(c)
  <1> DEFINE L == {Len(b) : b \in S}
  <1>1. L \subseteq Nat /\ L # {}
    <2>1. \A b \in S : Len(b) \in Nat
      OBVIOUS
    <2> QED
      BY <2>1
  <1>2. PICK m \in L : \A y \in L : m <= y
    <2> HIDE DEF L
    <2> QED
      BY <1>1, LeastNumber
  <1>3. PICK b \in S : Len(b) = m
    BY <1>2
  <1>4. \A c \in S : Len(c) \in L
    OBVIOUS
  <1> HIDE DEF L
  <1> QED
    BY <1>2, <1>3, <1>4

\* What is left of a buffer after its first n bytes.
From(b, n) == SubSeq(b, n + 1, Len(b))

LEMMA FromSeq ==
    ASSUME NEW b \in Seq(Byte), NEW n \in 0 .. Len(b)
    PROVE  /\ From(b, n) \in Seq(Byte) /\ Len(From(b, n)) = Len(b) - n
           /\ \A i \in 1 .. Len(b) - n : From(b, n)[i] = b[n + i]
  <1>1. /\ Len(b) \in Nat /\ n + 1 \in Nat
        /\ \A i \in n + 1 .. Len(b) : b[i] \in Byte
    OBVIOUS
  <1> QED
    BY <1>1, SubSeqProperties DEF From

LEMMA FrontSeq ==
    ASSUME NEW b \in Seq(Byte), NEW n \in 0 .. Len(b)
    PROVE  /\ SubSeq(b, 1, n) \in Seq(Byte) /\ Len(SubSeq(b, 1, n)) = n
           /\ \A i \in 1 .. n : SubSeq(b, 1, n)[i] = b[i]
  <1>1. Len(b) \in Nat /\ (\A i \in 1 .. n : b[i] \in Byte)
    OBVIOUS
  <1> QED
    BY <1>1, SubSeqProperties

LEMMA TailSeq ==
    ASSUME NEW b \in Seq(Byte), b # << >>
    PROVE  /\ Resync(b) \in Seq(Byte) /\ Len(Resync(b)) = Len(b) - 1 /\ Len(b) \in Nat \ {0}
           /\ \A i \in 1 .. Len(b) - 1 : Resync(b)[i] = b[i + 1]
  BY HeadTailProperties, EmptySeq DEF Resync

LEMMA HeaderFrameSize ==
    ASSUME NEW b, b[2] \in Byte, b[3] \in Byte
    PROVE  FrameSize(b) \in Nat /\ FrameSize(b) >= 4
  <1>1. PICK x \in Nat : x = b[2] * HiStep
    BY FramerAssumption DEF Byte
  <1>2. PICK y \in Nat : y = b[3]
    BY FramerAssumption DEF Byte
  <1>3. FrameSize(b) = 3 + x + y + 1
    BY <1>1, <1>2, Zenon DEF FrameSize, HeaderSize, CrcSize
  <1> QED
    BY <1>3

\* A frame fits into the buffer it is found in, and is not empty.
LEMMA WholeSize ==
    ASSUME NEW b \in Seq(Byte), Whole(b)
    PROVE  FrameSize(b) \in 4 .. Len(b) /\ ~Undecided(b)
  <1>1. Len(b) \in Nat /\ Len(b) >= 3
    BY DEF Whole, Header, HeaderSize
  <1>2. 2 \in 1 .. Len(b) /\ 3 \in 1 .. Len(b)
    BY <1>1
  <1>3. FrameSize(b) \in Nat /\ FrameSize(b) >= 4 /\ FrameSize(b) <= Len(b)
    <2>1. b[2] \in Byte /\ b[3] \in Byte
      BY <1>2
    <2>2. FrameSize(b) \in Nat /\ FrameSize(b) >= 4
      BY <2>1, HeaderFrameSize
    <2> QED
      BY <1>1, <2>2 DEF Whole
  <1>4. b # << >>
    BY <1>1, EmptySeq
  <1>5. ~Undecided(b)
    BY <1>1, <1>3, <1>4 DEF Undecided, HeaderSize
  <1> QED
    BY <1>1, <1>3, <1>5

\* What the framer gives for a buffer: frames and a rest.
Framings == [frames : Seq(Seq(Byte)), rest : Seq(Byte)]

\* One round of its loop.
FrameStep(f, b) ==
    IF Undecided(b) THEN [frames |-> << >>, rest |-> b]
    ELSE IF Whole(b)
    THEN [f[From(b, FrameSize(b))] EXCEPT !.frames = <<SubSeq(b, 1, FrameSize(b))>> \o @]
    ELSE f[Resync(b)]

Prefixed(frame, v) == [frames |-> <<frame>> \o v.frames, rest |-> v.rest]

LEMMA PrefixedIs ==
    ASSUME NEW v \in Framings, NEW frame \in Seq(Byte)
    PROVE  /\ [v EXCEPT !.frames = <<frame>> \o @] = Prefixed(frame, v)
           /\ Prefixed(frame, v) \in Framings
  <1>1. v = [frames |-> v.frames, rest |-> v.rest] /\ v.frames \in Seq(Seq(Byte)) /\ v.rest \in Seq(Byte)
    BY DEF Framings
  <1>2. <<frame>> \in Seq(Seq(Byte))
    OBVIOUS
  <1>3. <<frame>> \o v.frames \in Seq(Seq(Byte))
    BY <1>1, <1>2, ConcatProperties
  <1>4. Prefixed(frame, v) \in Framings
    BY <1>1, <1>3 DEF Prefixed, Framings
  <1>5. [v EXCEPT !.frames = <<frame>> \o @] = Prefixed(frame, v)
    <2>1. PICK e : e = <<frame>> \o v.frames
      OBVIOUS
    <2>2. [v EXCEPT !.frames = e] = [frames |-> e, rest |-> v.rest]
      BY DEF Framings
    <2> QED
      BY <2>1, <2>2, Zenon DEF Prefixed
  <1> QED
    BY <1>4, <1>5

\* Where the loop goes on.
Onward(b) == IF Whole(b) THEN From(b, FrameSize(b)) ELSE Resync(b)

LEMMA OnwardShorter ==
    ASSUME NEW b \in Seq(Byte), ~Undecided(b)
    PROVE  Onward(b) \in Seq(Byte) /\ Len(Onward(b)) < Len(b) /\ Len(Onward(b)) \in Nat
  <1>1. b # << >> /\ Len(b) \in Nat
    BY DEF Undecided
  <1>2. CASE Whole(b)
    <2>1. FrameSize(b) \in 4 .. Len(b)
      BY <1>2, WholeSize
    <2>2. FrameSize(b) \in 0 .. Len(b)
      BY <1>1, <2>1
    <2>3. From(b, FrameSize(b)) \in Seq(Byte) /\ Len(From(b, FrameSize(b))) = Len(b) - FrameSize(b)
      BY <2>2, FromSeq
    <2> QED
      BY <1>1, <1>2, <2>1, <2>3 DEF Onward
  <1>3. CASE ~Whole(b)
    BY <1>1, <1>3, TailSeq DEF Onward
  <1> QED
    BY <1>2, <1>3

LEMMA FramerEquation ==
    try_extract_frames = [b \in Seq(Byte) |-> FrameStep(try_extract_frames, b)]
  <1> DEFINE D == Seq(Byte)
             size == [b \in D |-> Len(b)]
             stop == {b \in D : Undecided(b)}
             start == [b \in D |-> [frames |-> << >>, rest |-> b]]
             next == [b \in D |-> Onward(b)]
             comb == [p \in D \X Framings |-> IF Whole(p[1])
                                              THEN Prefixed(SubSeq(p[1], 1, FrameSize(p[1])), p[2])
                                              ELSE p[2]]
  <1>1. size \in [D -> Nat]
    <2>1. \A b \in D : Len(b) \in Nat
      OBVIOUS
    <2> QED
      BY <2>1, Zenon
  <1>2. start \in [D -> Framings]
    <2>1. \A b \in D : [frames |-> << >>, rest |-> b] \in Framings
      BY DEF Framings
    <2> QED
      BY <2>1, Zenon
  <1>3. ASSUME NEW b \in D, Whole(b) PROVE SubSeq(b, 1, FrameSize(b)) \in Seq(Byte)
    BY <1>3, WholeSize, FrontSeq
  <1>4. comb \in [D \X Framings -> Framings]
    <2>1. ASSUME NEW b \in D, NEW v \in Framings
          PROVE  (IF Whole(b) THEN Prefixed(SubSeq(b, 1, FrameSize(b)), v) ELSE v) \in Framings
      BY <1>3, PrefixedIs
    <2>2. \A p \in D \X Framings : (IF Whole(p[1]) THEN Prefixed(SubSeq(p[1], 1, FrameSize(p[1])), p[2])
                                                   ELSE p[2]) \in Framings
      <3> TAKE p \in D \X Framings
      <3>1. p[1] \in D /\ p[2] \in Framings
        OBVIOUS
      <3> QED
        BY <2>1, <3>1, Zenon
    <2> QED
      BY <2>2, Zenon
  <1>5. Shrinks(D, size, stop, next)
    <2> SUFFICES ASSUME NEW b \in D, b \notin stop
                 PROVE  next[b] \in D /\ size[next[b]] < size[b]
      BY Zenon DEF Shrinks
    <2>1. Onward(b) \in D /\ Len(Onward(b)) < Len(b)
      BY OnwardShorter
    <2>2. next[b] = Onward(b) /\ size[b] = Len(b) /\ size[Onward(b)] = Len(Onward(b))
      BY <2>1, Zenon
    <2> QED
      BY <2>1, <2>2, Zenon
  <1>6. PICK f \in [D -> Framings] : \A b \in D : f[b] = Unfold(f, b, stop, start, next, comb)
    <2> HIDE DEF D, size, stop, start, next, comb
    <2>1. Recursion(D, Framings, size, stop, start, next, comb)
      BY <1>1, <1>2, <1>4, <1>5, Zenon DEF Recursion
    <2>2. Solvable(D, Framings, stop, start, next, comb)
      BY <2>1, RecursionDefines
    <2> QED
      BY <2>2, Zenon DEF Solvable
  <1>7. ASSUME NEW b \in D PROVE f[b] = FrameStep(f, b)
    <2>1. CASE Undecided(b)
      <3>1. b \in stop /\ start[b] = [frames |-> << >>, rest |-> b]
        BY <2>1
      <3>2. f[b] = start[b]
        <4> HIDE DEF D, stop, start, next, comb
        <4> QED
          BY <1>6, <1>7, <3>1, Zenon DEF Unfold
      <3> QED
        BY <2>1, <3>1, <3>2, Zenon DEF FrameStep
    <2>2. CASE ~Undecided(b)
      <3>1. b \notin stop /\ next[b] = Onward(b) /\ Onward(b) \in D
        BY <2>2, OnwardShorter
      <3>2. PICK v : v = f[Onward(b)]
        OBVIOUS
      <3>3. v \in Framings
        BY <3>1, <3>2
      <3>4. f[b] = comb[<<b, v>>]
        <4> HIDE DEF D, stop, start, next, comb
        <4> QED
          BY <1>6, <1>7, <3>1, <3>2, Zenon DEF Unfold
      <3>5. comb[<<b, v>>] = IF Whole(b) THEN Prefixed(SubSeq(b, 1, FrameSize(b)), v) ELSE v
        BY <3>3
      <3>6. CASE Whole(b)
        <4>1. [v EXCEPT !.frames = <<SubSeq(b, 1, FrameSize(b))>> \o @]
                = Prefixed(SubSeq(b, 1, FrameSize(b)), v)
          BY <1>3, <3>3, <3>6, PrefixedIs
        <4> QED
          BY <2>2, <3>2, <3>4, <3>5, <3>6, <4>1, Zenon DEF FrameStep, Onward
      <3>7. CASE ~Whole(b)
        BY <2>2, <3>2, <3>4, <3>5, <3>7, Zenon DEF FrameStep, Onward
      <3> QED
        BY <3>6, <3>7
    <2> QED
      BY <2>1, <2>2
  <1>8. f = [b \in Seq(Byte) |-> FrameStep(f, b)]
    BY <1>7, Zenon
  <1> QED
    BY <1>8 DEF try_extract_frames, FrameStep, From

LEMMA FramerTypes ==
    ASSUME NEW b \in Seq(Byte) PROVE try_extract_frames[b] \in Framings
  <1> DEFINE bad == {c \in Seq(Byte) : try_extract_frames[c] \notin Framings}
  <1> SUFFICES ASSUME bad # {} PROVE FALSE
    OBVIOUS
  <1>1. PICK c \in bad : \A d \in bad : Len(c) <= Len(d)
    <2>1. bad \subseteq Seq(Byte)
      OBVIOUS
    <2> HIDE DEF bad
    <2> QED
      BY <2>1, ShortestOne
  <1>2. c \in Seq(Byte) /\ Len(c) \in Nat
    BY <1>1
  <1>3. try_extract_frames[c] = FrameStep(try_extract_frames, c)
    BY <1>2, FramerEquation, Zenon
  <1>4. CASE Undecided(c)
    <2>1. [frames |-> << >>, rest |-> c] \in Framings
      BY <1>2 DEF Framings
    <2> QED
      BY <1>1, <1>3, <1>4, <2>1, Zenon DEF FrameStep
  <1>5. CASE ~Undecided(c)
    <2>1. Onward(c) \in Seq(Byte) /\ Len(Onward(c)) < Len(c) /\ Len(Onward(c)) \in Nat
      BY <1>2, <1>5, OnwardShorter
    <2>2. Onward(c) \notin bad
      BY <1>1, <1>2, <2>1
    <2>3. try_extract_frames[Onward(c)] \in Framings
      BY <2>1, <2>2
    <2>4. CASE Whole(c)
      <3>1. SubSeq(c, 1, FrameSize(c)) \in Seq(Byte)
        <4>1. PICK n : n = FrameSize(c)
          OBVIOUS
        <4>2. n \in 4 .. Len(c)
          BY <1>2, <2>4, <4>1, WholeSize
        <4>3. n \in 0 .. Len(c)
          BY <1>2, <4>2
        <4> QED
          BY <1>2, <4>1, <4>3, FrontSeq
      <3>2. PICK v : v = try_extract_frames[Onward(c)]
        OBVIOUS
      <3>3. [v EXCEPT !.frames = <<SubSeq(c, 1, FrameSize(c))>> \o @] \in Framings
        <4>1. PICK a : a = SubSeq(c, 1, FrameSize(c))
          OBVIOUS
        <4>2. v \in Framings /\ a \in Seq(Byte)
          BY <2>3, <3>1, <3>2, <4>1
        <4>3. /\ [v EXCEPT !.frames = <<a>> \o @] = Prefixed(a, v)
              /\ Prefixed(a, v) \in Framings
          BY <4>2, PrefixedIs
        <4> QED
          BY <4>1, <4>3, Zenon
      <3> QED
        BY <1>1, <1>3, <1>5, <2>4, <3>2, <3>3, Zenon DEF FrameStep, Onward
    <2>5. CASE ~Whole(c)
      BY <1>1, <1>3, <1>5, <2>3, <2>5, Zenon DEF FrameStep, Onward
    <2> QED
      BY <2>4, <2>5
  <1> QED
    BY <1>4, <1>5

\* The three ways a round of the loop goes.
LEMMA FramerRounds ==
    ASSUME NEW b \in Seq(Byte)
    PROVE  /\ Undecided(b) => try_extract_frames[b] = [frames |-> << >>, rest |-> b]
           /\ Whole(b) => /\ From(b, FrameSize(b)) \in Seq(Byte)
                          /\ SubSeq(b, 1, FrameSize(b)) \in Seq(Byte)
                          /\ try_extract_frames[b] = Prefixed(SubSeq(b, 1, FrameSize(b)),
                                                       try_extract_frames[From(b, FrameSize(b))])
           /\ ~Undecided(b) /\ ~Whole(b) => try_extract_frames[b] = try_extract_frames[Resync(b)]
  <1>1. try_extract_frames[b] = FrameStep(try_extract_frames, b)
    BY FramerEquation, Zenon
  <1>2. Undecided(b) => try_extract_frames[b] = [frames |-> << >>, rest |-> b]
    BY <1>1, Zenon DEF FrameStep
  <1>3. ASSUME Whole(b)
        PROVE  /\ From(b, FrameSize(b)) \in Seq(Byte)
               /\ SubSeq(b, 1, FrameSize(b)) \in Seq(Byte)
               /\ try_extract_frames[b] = Prefixed(SubSeq(b, 1, FrameSize(b)),
                                                   try_extract_frames[From(b, FrameSize(b))])
    <2>1. ~Undecided(b) /\ SubSeq(b, 1, FrameSize(b)) \in Seq(Byte)
      <3>1. PICK n : n = FrameSize(b)
        OBVIOUS
      <3>2. n \in 4 .. Len(b) /\ ~Undecided(b)
        BY <1>3, <3>1, WholeSize
      <3>3. n \in 0 .. Len(b)
        BY <3>2
      <3> QED
        BY <3>1, <3>2, <3>3, FrontSeq
    <2>2. From(b, FrameSize(b)) \in Seq(Byte)
      BY <1>3, <2>1, OnwardShorter DEF Onward
    <2>3. PICK v : v = try_extract_frames[From(b, FrameSize(b))]
      OBVIOUS
    <2>4. v \in Framings
      BY <2>2, <2>3, FramerTypes
    <2>5. [v EXCEPT !.frames = <<SubSeq(b, 1, FrameSize(b))>> \o @] = Prefixed(SubSeq(b, 1, FrameSize(b)), v)
      BY <2>1, <2>4, PrefixedIs
    <2> QED
      BY <1>1, <1>3, <2>1, <2>2, <2>3, <2>5, Zenon DEF FrameStep
  <1>4. ~Undecided(b) /\ ~Whole(b) => try_extract_frames[b] = try_extract_frames[Resync(b)]
    BY <1>1, Zenon DEF FrameStep
  <1> QED
    BY <1>2, <1>3, <1>4, Zenon

\* The bytes of two reads in one buffer.
Joined(b, d, w) ==
    /\ w \in Seq(Byte) /\ Len(w) = Len(b) + Len(d)
    /\ \A i \in 1 .. Len(b) : w[i] = b[i]
    /\ \A i \in 1 .. Len(d) : w[Len(b) + i] = d[i]

LEMMA JoinedIs ==
    ASSUME NEW b \in Seq(Byte), NEW d \in Seq(Byte)
    PROVE  Joined(b, d, b \o d)
  <1>1. Len(b) \in Nat /\ Len(d) \in Nat
    OBVIOUS
  <1>2. /\ b \o d \in Seq(Byte) /\ Len(b \o d) = Len(b) + Len(d)
        /\ \A i \in 1 .. Len(b) + Len(d) :
              (b \o d)[i] = IF i <= Len(b) THEN b[i] ELSE d[i - Len(b)]
    BY ConcatProperties
  <1>3. ASSUME NEW i \in 1 .. Len(b) PROVE (b \o d)[i] = b[i]
    <2>1. i \in 1 .. Len(b) + Len(d) /\ i <= Len(b)
      BY <1>1
    <2> QED
      BY <1>2, <2>1, Zenon
  <1>4. ASSUME NEW i \in 1 .. Len(d) PROVE (b \o d)[Len(b) + i] = d[i]
    <2>1. Len(b) + i \in 1 .. Len(b) + Len(d) /\ ~(Len(b) + i <= Len(b)) /\ (Len(b) + i) - Len(b) = i
      BY <1>1
    <2> QED
      BY <1>2, <2>1, Zenon
  <1> QED
    BY <1>2, <1>3, <1>4, Zenon DEF Joined

LEMMA JoinedUnique ==
    ASSUME NEW b \in Seq(Byte), NEW d \in Seq(Byte), NEW w, Joined(b, d, w)
    PROVE  w = b \o d
  <1>1. PICK v : v = b \o d
    OBVIOUS
  <1>2. Joined(b, d, v)
    BY <1>1, JoinedIs
  <1>3. Len(b) \in Nat /\ Len(d) \in Nat
    OBVIOUS
  <1>4. w \in Seq(Byte) /\ v \in Seq(Byte) /\ Len(w) = Len(v) /\ Len(w) = Len(b) + Len(d)
    BY <1>2 DEF Joined
  <1>5. ASSUME NEW i \in 1 .. Len(w) PROVE w[i] = v[i]
    <2>1. CASE i <= Len(b)
      <3>1. i \in 1 .. Len(b)
        BY <1>3, <1>4, <2>1
      <3> QED
        BY <1>2, <3>1, Zenon DEF Joined
    <2>2. CASE ~(i <= Len(b))
      <3>1. i - Len(b) \in 1 .. Len(d) /\ Len(b) + (i - Len(b)) = i
        BY <1>3, <1>4, <2>2
      <3>2. w[Len(b) + (i - Len(b))] = v[Len(b) + (i - Len(b))]
        BY <1>2, <3>1, Zenon DEF Joined
      <3> QED
        BY <3>1, <3>2
    <2> QED
      BY <2>1, <2>2
  <1>6. w = v
    BY <1>4, <1>5, SeqEqual
  <1> QED
    BY <1>1, <1>6

\* The front of the joined buffer is that of the first, and what follows is
\* what followed there with the second behind it.
LEMMA JoinedFront ==
    ASSUME NEW b \in Seq(Byte), NEW d \in Seq(Byte), NEW w, Joined(b, d, w),
           NEW n \in 0 .. Len(b)
    PROVE  /\ SubSeq(w, 1, n) = SubSeq(b, 1, n)
           /\ From(w, n) = From(b, n) \o d
  <1>1. Len(b) \in Nat /\ Len(d) \in Nat /\ n \in Nat /\ n <= Len(b)
    OBVIOUS
  <1>2. w \in Seq(Byte) /\ Len(w) = Len(b) + Len(d) /\ n \in 0 .. Len(w)
    BY <1>1 DEF Joined
  <1>3. SubSeq(w, 1, n) = SubSeq(b, 1, n)
    <2>1. PICK x, y : x = SubSeq(w, 1, n) /\ y = SubSeq(b, 1, n)
      OBVIOUS
    <2>2. /\ x \in Seq(Byte) /\ Len(x) = n /\ (\A i \in 1 .. n : x[i] = w[i])
          /\ y \in Seq(Byte) /\ Len(y) = n /\ (\A i \in 1 .. n : y[i] = b[i])
      BY <1>2, <2>1, FrontSeq
    <2>3. \A i \in 1 .. n : i \in 1 .. Len(b)
      BY <1>1
    <2>4. \A i \in 1 .. n : x[i] = y[i]
      BY <2>2, <2>3, Zenon DEF Joined
    <2>5. x = y
      BY <2>2, <2>4, SeqEqual
    <2> QED
      BY <2>1, <2>5
  <1>4. From(w, n) = From(b, n) \o d
    <2>1. PICK x, y : x = From(w, n) /\ y = From(b, n)
      OBVIOUS
    <2>2. x \in Seq(Byte) /\ Len(x) = Len(w) - n /\ (\A i \in 1 .. Len(w) - n : x[i] = w[n + i])
      BY <1>2, <2>1, FromSeq
    <2>3. y \in Seq(Byte) /\ Len(y) = Len(b) - n /\ (\A i \in 1 .. Len(b) - n : y[i] = b[n + i])
      BY <2>1, FromSeq
    <2>4. Len(x) = Len(y) + Len(d)
      BY <1>1, <1>2, <2>2, <2>3
    <2>5. ASSUME NEW i \in 1 .. Len(y) PROVE x[i] = y[i]
      <3>1. i \in 1 .. Len(w) - n /\ i \in 1 .. Len(b) - n /\ n + i \in 1 .. Len(b)
        BY <1>1, <1>2, <2>3
      <3> QED
        BY <2>2, <2>3, <3>1, Zenon DEF Joined
    <2>6. ASSUME NEW i \in 1 .. Len(d) PROVE x[Len(y) + i] = d[i]
      <3>1. Len(y) + i \in 1 .. Len(w) - n /\ n + (Len(y) + i) = Len(b) + i
        BY <1>1, <1>2, <2>3
      <3>2. x[Len(y) + i] = w[n + (Len(y) + i)]
        BY <2>2, <3>1, Zenon
      <3>3. w[Len(b) + i] = d[i]
        BY Zenon DEF Joined
      <3> QED
        BY <3>1, <3>2, <3>3
    <2>7. Joined(y, d, x)
      BY <2>2, <2>4, <2>5, <2>6, Zenon DEF Joined
    <2>8. x = y \o d
      BY <2>3, <2>7, JoinedUnique
    <2> QED
      BY <2>1, <2>8
  <1> QED
    BY <1>3, <1>4

SameFront(b, w, n) == SubSeq(w, 1, n) = SubSeq(b, 1, n)

LEMMA FrontKept ==
    ASSUME NEW b \in Seq(Byte), NEW d \in Seq(Byte), NEW w, Joined(b, d, w),
           NEW n \in 0 .. Len(b)
    PROVE  SameFront(b, w, n)
BY JoinedFront DEF SameFront

LEMMA ResyncIsFrom ==
    ASSUME NEW b \in Seq(Byte), b # << >>
    PROVE  Resync(b) = From(b, 1)
  <1>1. /\ Resync(b) \in Seq(Byte) /\ Len(Resync(b)) = Len(b) - 1 /\ Len(b) \in Nat \ {0}
        /\ \A i \in 1 .. Len(b) - 1 : Resync(b)[i] = b[i + 1]
    BY TailSeq
  <1>2. 1 \in 0 .. Len(b)
    BY <1>1
  <1>3. /\ From(b, 1) \in Seq(Byte) /\ Len(From(b, 1)) = Len(b) - 1
        /\ \A i \in 1 .. Len(b) - 1 : From(b, 1)[i] = b[1 + i]
    BY <1>2, FromSeq
  <1>4. \A i \in 1 .. Len(b) - 1 : Resync(b)[i] = From(b, 1)[i]
    BY <1>1, <1>3
  <1>5. PICK x, y : x = Resync(b) /\ y = From(b, 1)
    OBVIOUS
  <1>6. x \in Seq(Byte) /\ y \in Seq(Byte) /\ Len(x) = Len(y) /\ (\A i \in 1 .. Len(x) : x[i] = y[i])
    BY <1>1, <1>3, <1>4, <1>5, Zenon
  <1>7. x = y
    BY <1>6, SeqEqual
  <1> QED
    BY <1>5, <1>7

\* What is decided about a buffer stays decided when more comes.
LEMMA DecidedStays ==
    ASSUME NEW b \in Seq(Byte), NEW d \in Seq(Byte), NEW w, Joined(b, d, w), ~Undecided(b)
    PROVE  /\ ~Undecided(w) /\ w # << >>
           /\ Whole(w) <=> Whole(b)
           /\ Whole(b) => FrameSize(w) = FrameSize(b)
  <1>1. Len(b) \in Nat /\ Len(d) \in Nat /\ Len(b) > 0 /\ w \in Seq(Byte) /\ Len(w) = Len(b) + Len(d)
    <2>1. b # << >>
      BY DEF Undecided
    <2> QED
      BY <2>1, EmptySeq DEF Joined
  <1>2. w # << >> /\ Len(w) >= Len(b)
    BY <1>1, EmptySeq
  <1>3. w[1] = b[1]
    <2>1. 1 \in 1 .. Len(b)
      BY <1>1
    <2> QED
      BY <2>1, Zenon DEF Joined
  <1>4. CASE b[1] # Preamble
    <2>1. ~Header(w) /\ ~Header(b)
      BY <1>3, <1>4, Zenon DEF Header
    <2> QED
      BY <1>2, <1>3, <1>4, <2>1, Zenon DEF Undecided, Whole
  <1>5. CASE b[1] = Preamble
    <2>1. Len(b) >= 3 /\ Len(w) >= 3 /\ ~(Len(w) < 3)
      BY <1>1, <1>5 DEF Undecided, HeaderSize
    <2>2. w[2] = b[2] /\ w[3] = b[3]
      <3>1. 2 \in 1 .. Len(b) /\ 3 \in 1 .. Len(b)
        BY <1>1, <2>1
      <3> QED
        BY <3>1, Zenon DEF Joined
    <2>3. FrameSize(w) = FrameSize(b)
      BY <2>2, Zenon DEF FrameSize
    <2>4. CASE b[2] \in Reserved
      <3>1. ~Header(w) /\ ~Header(b)
        BY <2>2, <2>4, Zenon DEF Header
      <3> QED
        BY <1>2, <2>1, <2>3, <3>1, Zenon DEF Undecided, Whole, HeaderSize
    <2>5. CASE b[2] \notin Reserved
      <3>1. Header(b) /\ Header(w)
        BY <1>3, <1>5, <2>1, <2>2, <2>5 DEF Header, HeaderSize
      <3>2. ~(Len(b) < FrameSize(b))
        BY <3>1, Zenon DEF Undecided
      <3>3. FrameSize(b) \in Nat /\ FrameSize(b) >= 4
        <4>1. 2 \in 1 .. Len(b) /\ 3 \in 1 .. Len(b)
          BY <1>1, <2>1
        <4>2. b[2] \in Byte /\ b[3] \in Byte
          BY <4>1
        <4> QED
          BY <4>2, HeaderFrameSize
      <3>4. Len(b) >= FrameSize(b) /\ Len(w) >= FrameSize(b) /\ ~(Len(w) < FrameSize(b))
        BY <1>1, <1>2, <3>2, <3>3
      <3> DEFINE n == FrameSize(b) - CrcSize
      <3>5. n \in 0 .. Len(b) /\ n + 1 \in 1 .. Len(b)
        BY <1>1, <3>3, <3>4 DEF CrcSize
      <3>6. SubSeq(w, 1, n) = SubSeq(b, 1, n)
        BY <3>5, JoinedFront
      <3>7. w[n + 1] = b[n + 1]
        BY <3>5, Zenon DEF Joined
      <3>8. Whole(w) <=> Whole(b)
        BY <2>3, <3>1, <3>4, <3>6, <3>7, Zenon DEF Whole
      <3> QED
        BY <1>2, <2>1, <2>3, <3>1, <3>4, <3>8, Zenon DEF Undecided, HeaderSize
    <2> QED
      BY <2>4, <2>5
  <1> QED
    BY <1>4, <1>5

LEMMA Regroup ==
    ASSUME NEW a \in Seq(Seq(Byte)), NEW b \in Seq(Seq(Byte)), NEW c \in Seq(Seq(Byte))
    PROVE  (a \o b) \o c = a \o (b \o c)
BY ConcatAssociative

\* Framing two reads is framing the first and then its rest with the second.
CutHere(b, d) ==
    LET r == try_extract_frames[try_extract_frames[b].rest \o d]
    IN  try_extract_frames[b \o d] = [frames |-> try_extract_frames[b].frames \o r.frames,
                                      rest |-> r.rest]

LEMMA FramingCut ==
    ASSUME NEW b \in Seq(Byte), NEW d \in Seq(Byte)
    PROVE  CutHere(b, d)
  <1> DEFINE bad == {c \in Seq(Byte) : ~CutHere(c, d)}
  <1> SUFFICES ASSUME bad # {} PROVE FALSE
    OBVIOUS
  <1>1. PICK c \in bad : \A e \in bad : Len(c) <= Len(e)
    <2>1. bad \subseteq Seq(Byte)
      OBVIOUS
    <2> HIDE DEF bad
    <2> QED
      BY <2>1, ShortestOne
  <1>2. c \in Seq(Byte) /\ Len(c) \in Nat /\ ~CutHere(c, d)
    BY <1>1
  <1>3. PICK w : w = c \o d
    OBVIOUS
  <1>4. Joined(c, d, w) /\ w \in Seq(Byte)
    BY <1>2, <1>3, JoinedIs DEF Joined
  <1>5. PICK T : T = try_extract_frames
    OBVIOUS
  <1>6. T[w] \in Framings
    BY <1>4, <1>5, FramerTypes
  <1>7. CASE Undecided(c)
    <2>1. T[c] = [frames |-> << >>, rest |-> c]
      BY <1>2, <1>5, <1>7, FramerRounds
    <2>2. T[c].frames = << >> /\ T[c].rest = c
      BY <2>1
    <2>3. T[w].frames \in Seq(Seq(Byte)) /\ T[w] = [frames |-> T[w].frames, rest |-> T[w].rest]
      BY <1>6 DEF Framings
    <2>4. << >> \o T[w].frames = T[w].frames
      BY <2>3, ConcatEmptySeq
    <2>5. CutHere(c, d)
      BY <1>3, <1>5, <2>2, <2>3, <2>4, Zenon DEF CutHere
    <2> QED
      BY <1>2, <2>5
  <1>8. CASE ~Undecided(c)
    <2>1. /\ ~Undecided(w) /\ w # << >> /\ (Whole(w) <=> Whole(c))
          /\ Whole(c) => FrameSize(w) = FrameSize(c)
      BY <1>2, <1>4, <1>8, DecidedStays
    <2>2. Onward(c) \in Seq(Byte) /\ Len(Onward(c)) < Len(c) /\ Len(Onward(c)) \in Nat
      BY <1>2, <1>8, OnwardShorter
    <2>3. Onward(c) \notin bad
      BY <1>1, <1>2, <2>2
    <2>4. CutHere(Onward(c), d)
      BY <2>2, <2>3
    <2>5. c # << >>
      BY <1>8 DEF Undecided
    <2>6. Onward(w) = Onward(c) \o d
      <3>1. CASE Whole(c)
        <4>1. FrameSize(c) \in 4 .. Len(c)
          BY <1>2, <3>1, WholeSize
        <4>2. FrameSize(c) \in 0 .. Len(c)
          BY <1>2, <4>1
        <4>3. From(w, FrameSize(c)) = From(c, FrameSize(c)) \o d
          BY <1>2, <1>4, <4>2, JoinedFront
        <4> QED
          BY <2>1, <3>1, <4>3, Zenon DEF Onward
      <3>2. CASE ~Whole(c)
        <4>1. Resync(w) = From(w, 1) /\ Resync(c) = From(c, 1)
          BY <1>2, <1>4, <2>1, <2>5, ResyncIsFrom
        <4>2. 1 \in 0 .. Len(c)
          BY <1>2, <2>5, EmptySeq
        <4>3. From(w, 1) = From(c, 1) \o d
          BY <1>2, <1>4, <4>2, JoinedFront
        <4> QED
          BY <2>1, <3>2, <4>1, <4>3, Zenon DEF Onward
      <3> QED
        BY <3>1, <3>2
    <2>7. PICK o, r : o = T[Onward(c)] /\ r = T[T[Onward(c)].rest \o d]
      OBVIOUS
    <2>8. T[Onward(w)] = [frames |-> o.frames \o r.frames, rest |-> r.rest]
      BY <1>5, <2>4, <2>6, <2>7, Zenon DEF CutHere
    <2>9. o \in Framings /\ r \in Framings
      <3>1. o \in Framings
        BY <1>5, <2>2, <2>7, FramerTypes
      <3>2. o.rest \in Seq(Byte)
        BY <3>1 DEF Framings
      <3>3. o.rest \o d \in Seq(Byte)
        BY <3>2, ConcatProperties
      <3>4. r = T[o.rest \o d]
        BY <2>7
      <3> QED
        BY <1>5, <3>1, <3>3, <3>4, FramerTypes
    <2>10. CASE Whole(c)
      <3>1. PICK a : a = SubSeq(c, 1, FrameSize(c))
        OBVIOUS
      <3>2. T[c] = Prefixed(a, o) /\ a \in Seq(Byte)
        BY <1>2, <1>5, <2>7, <2>10, <3>1, FramerRounds DEF Onward
      <3>3. SubSeq(w, 1, FrameSize(w)) = a
        <4>1. FrameSize(c) \in 4 .. Len(c)
          BY <1>2, <2>10, WholeSize
        <4>2. FrameSize(c) \in 0 .. Len(c)
          BY <1>2, <4>1
        <4>3. SubSeq(w, 1, FrameSize(c)) = SubSeq(c, 1, FrameSize(c))
          <5>1. SameFront(c, w, FrameSize(c))
            BY <1>2, <1>4, <4>2, FrontKept
          <5> QED
            BY <5>1 DEF SameFront
        <4> QED
          BY <2>1, <2>10, <3>1, <4>3, Zenon
      <3>4. T[w] = Prefixed(a, T[Onward(w)])
        BY <1>4, <1>5, <2>1, <2>10, <3>3, FramerRounds DEF Onward
      <3>5. T[c].frames = <<a>> \o o.frames /\ T[c].rest = o.rest
        BY <3>2 DEF Prefixed
      <3>6. T[w] = [frames |-> <<a>> \o (o.frames \o r.frames), rest |-> r.rest]
        BY <2>8, <3>4 DEF Prefixed
      <3>7. <<a>> \o (o.frames \o r.frames) = (<<a>> \o o.frames) \o r.frames
        <4>1. <<a>> \in Seq(Seq(Byte)) /\ o.frames \in Seq(Seq(Byte)) /\ r.frames \in Seq(Seq(Byte))
          BY <2>9, <3>2 DEF Framings
        <4> QED
          BY <4>1, Regroup, Zenon
      <3>8. r = T[T[c].rest \o d]
        BY <2>7, <3>5
      <3>9. CutHere(c, d)
        BY <1>3, <1>5, <3>5, <3>6, <3>7, <3>8, Zenon DEF CutHere
      <3> QED
        BY <1>2, <3>9
    <2>11. CASE ~Whole(c)
      <3>1. T[c] = o
        BY <1>2, <1>5, <1>8, <2>7, <2>11, FramerRounds DEF Onward
      <3>2. T[w] = T[Onward(w)]
        BY <1>4, <1>5, <2>1, <2>11, FramerRounds DEF Onward
      <3>3. CutHere(c, d)
        BY <1>3, <1>5, <2>7, <2>8, <3>1, <3>2, Zenon DEF CutHere
      <3> QED
        BY <1>2, <3>3
    <2> QED
      BY <2>10, <2>11
  <1> QED
    BY <1>7, <1>8

-----------------------------------------------------------------------------
(* The abstract feed finds frames by their position; the framer finds the  *)
(* same ones.                                                              *)

At(w, p) == SubSeq(w, p, Len(w))

LEMMA AtSeq ==
    ASSUME NEW w \in Seq(Byte), NEW p \in 1 .. Len(w) + 1
    PROVE  /\ At(w, p) \in Seq(Byte) /\ Len(At(w, p)) = Len(w) + 1 - p
           /\ \A i \in 1 .. Len(w) + 1 - p : At(w, p)[i] = w[p - 1 + i]
  <1>1. Len(w) \in Nat /\ p - 1 \in 0 .. Len(w) /\ (p - 1) + 1 = p
        /\ Len(w) - (p - 1) = Len(w) + 1 - p
    OBVIOUS
  <1>2. From(w, p - 1) = At(w, p)
    BY <1>1, Zenon DEF From, At
  <1>3. /\ From(w, p - 1) \in Seq(Byte) /\ Len(From(w, p - 1)) = Len(w) - (p - 1)
        /\ \A i \in 1 .. Len(w) - (p - 1) : From(w, p - 1)[i] = w[p - 1 + i]
    BY <1>1, FromSeq
  <1> QED
    BY <1>1, <1>2, <1>3, Zenon

\* n bytes further on, and those bytes.
LEMMA AtFrom ==
    ASSUME NEW w \in Seq(Byte), NEW p \in 1 .. Len(w) + 1, NEW n \in 0 .. Len(w) + 1 - p
    PROVE  /\ p + n \in 1 .. Len(w) + 1
           /\ From(At(w, p), n) = At(w, p + n)
           /\ SubSeq(At(w, p), 1, n) = SubSeq(w, p, p + n - 1)
  <1>1. Len(w) \in Nat /\ p + n \in 1 .. Len(w) + 1 /\ n \in Nat /\ p \in Nat
    OBVIOUS
  <1>2. PICK v : v = At(w, p)
    OBVIOUS
  <1>3. /\ v \in Seq(Byte) /\ Len(v) = Len(w) + 1 - p
        /\ \A i \in 1 .. Len(w) + 1 - p : v[i] = w[p - 1 + i]
    BY <1>2, AtSeq
  <1>4. n \in 0 .. Len(v)
    BY <1>3
  <1>5. From(v, n) = At(w, p + n)
    <2>1. PICK x, y : x = From(v, n) /\ y = At(w, p + n)
      OBVIOUS
    <2>2. x \in Seq(Byte) /\ Len(x) = Len(v) - n /\ (\A i \in 1 .. Len(v) - n : x[i] = v[n + i])
      BY <1>3, <1>4, <2>1, FromSeq
    <2>3. /\ y \in Seq(Byte) /\ Len(y) = Len(w) + 1 - (p + n)
          /\ \A i \in 1 .. Len(w) + 1 - (p + n) : y[i] = w[p + n - 1 + i]
      BY <1>1, <2>1, AtSeq
    <2>4. Len(x) = Len(y)
      BY <1>1, <1>3, <2>2, <2>3
    <2>5. ASSUME NEW i \in 1 .. Len(x) PROVE x[i] = y[i]
      <3>1. /\ i \in 1 .. Len(v) - n /\ n + i \in 1 .. Len(w) + 1 - p
            /\ i \in 1 .. Len(w) + 1 - (p + n) /\ p - 1 + (n + i) = p + n - 1 + i
        BY <1>1, <1>3, <2>2, <2>4
      <3>2. x[i] = v[n + i] /\ v[n + i] = w[p - 1 + (n + i)] /\ y[i] = w[p + n - 1 + i]
        BY <1>3, <2>2, <2>3, <3>1, Zenon
      <3> QED
        BY <3>1, <3>2, Zenon
    <2>6. x = y
      BY <2>2, <2>3, <2>4, <2>5, SeqEqual
    <2> QED
      BY <2>1, <2>6
  <1>6. SubSeq(v, 1, n) = SubSeq(w, p, p + n - 1)
    <2>1. PICK x, y : x = SubSeq(v, 1, n) /\ y = SubSeq(w, p, p + n - 1)
      OBVIOUS
    <2>2. x \in Seq(Byte) /\ Len(x) = n /\ (\A i \in 1 .. n : x[i] = v[i])
      BY <1>3, <1>4, <2>1, FrontSeq
    <2>3. y \in Seq(Byte) /\ Len(y) = n /\ (\A i \in 1 .. n : y[i] = w[p + i - 1])
      <3>1. /\ p + n - 1 \in Nat
            /\ \A i \in p .. p + n - 1 : w[i] \in Byte
            /\ IF p <= p + n - 1 THEN (p + n - 1) - p + 1 = n ELSE n = 0
        BY <1>1
      <3>2. /\ SubSeq(w, p, p + n - 1) \in Seq(Byte)
            /\ Len(SubSeq(w, p, p + n - 1)) = IF p <= p + n - 1 THEN (p + n - 1) - p + 1 ELSE 0
            /\ \A i \in 1 .. (p + n - 1) - p + 1 : SubSeq(w, p, p + n - 1)[i] = w[p + i - 1]
        BY <1>1, <3>1, SubSeqProperties
      <3>3. (p + n - 1) - p + 1 = n
        BY <1>1
      <3>4. Len(SubSeq(w, p, p + n - 1)) = n
        BY <3>1, <3>2
      <3> QED
        BY <2>1, <3>2, <3>3, <3>4, Zenon
    <2>5. ASSUME NEW i \in 1 .. n PROVE x[i] = y[i]
      <3>1. i \in 1 .. Len(w) + 1 - p /\ p - 1 + i = p + i - 1
        BY <1>1
      <3>2. v[i] = w[p - 1 + i] /\ x[i] = v[i] /\ y[i] = w[p + i - 1]
        BY <1>3, <2>2, <2>3, <3>1, Zenon
      <3> QED
        BY <3>1, <3>2, Zenon
    <2>6. x = y
      BY <2>2, <2>3, <2>5, SeqEqual
    <2> QED
      BY <2>1, <2>6
  <1> QED
    BY <1>1, <1>2, <1>5, <1>6, Zenon

\* Neither a frame nor the beginning of one: the search goes on.
NoClaim(w, p) == ~Whole(At(w, p)) /\ ~Undecided(At(w, p))

LEMMA SkipOne ==
    ASSUME NEW w \in Seq(Byte), NEW p \in 1 .. Len(w), NoClaim(w, p)
    PROVE  try_extract_frames[At(w, p)] = try_extract_frames[At(w, p + 1)]
  <1>1. Len(w) \in Nat /\ p \in 1 .. Len(w) + 1 /\ 1 \in 0 .. Len(w) + 1 - p
    OBVIOUS
  <1>2. At(w, p) \in Seq(Byte)
    BY <1>1, AtSeq
  <1>3. At(w, p) # << >>
    BY DEF NoClaim, Undecided
  <1>4. Resync(At(w, p)) = From(At(w, p), 1)
    BY <1>2, <1>3, ResyncIsFrom
  <1>5. From(At(w, p), 1) = At(w, p + 1)
    BY <1>1, AtFrom
  <1>6. try_extract_frames[At(w, p)] = try_extract_frames[Resync(At(w, p))]
    BY <1>2, FramerRounds DEF NoClaim
  <1> QED
    BY <1>4, <1>5, <1>6, Zenon

LEMMA NothingFound ==
    ASSUME NEW b \in Seq(Byte), Undecided(b)
    PROVE  try_extract_frames[b].frames = << >>
  <1>1. try_extract_frames[b] = [frames |-> << >>, rest |-> b]
    BY FramerRounds, Zenon
  <1> QED
    BY <1>1

LEMMA SkipTo ==
    ASSUME NEW w \in Seq(Byte), NEW p \in 1 .. Len(w) + 1, NEW q \in p .. Len(w) + 1,
           \A x \in p .. q - 1 : NoClaim(w, x)
    PROVE  try_extract_frames[At(w, p)] = try_extract_frames[At(w, q)]
  <1> DEFINE bad == {x \in p .. q : try_extract_frames[At(w, p)] # try_extract_frames[At(w, x)]}
  <1>0. Len(w) \in Nat /\ p \in Nat /\ q \in Nat /\ p <= q /\ q <= Len(w) + 1
    OBVIOUS
  <1> SUFFICES ASSUME bad # {} PROVE FALSE
    <2>1. q \in p .. q
      BY <1>0
    <2> QED
      BY <2>1, Zenon
  <1>1. PICK m \in bad : \A y \in bad : m <= y
    <2>1. bad \subseteq Nat
      BY <1>0
    <2> HIDE DEF bad
    <2> QED
      BY <2>1, LeastNumber
  <1>2. m \in p .. q /\ try_extract_frames[At(w, p)] # try_extract_frames[At(w, m)]
    BY <1>1, Zenon
  <1>3. m # p
    BY <1>2, Zenon
  <1>4. m - 1 \in p .. q /\ m - 1 \in p .. q - 1 /\ m - 1 \in 1 .. Len(w) /\ (m - 1) + 1 = m /\ ~(m <= m - 1)
    BY <1>0, <1>2, <1>3
  <1>5. m - 1 \notin bad
    BY <1>1, <1>4, Zenon
  <1>6. try_extract_frames[At(w, p)] = try_extract_frames[At(w, m - 1)]
    BY <1>4, <1>5, Zenon
  <1>7. NoClaim(w, m - 1)
    BY <1>4, Zenon
  <1>8. try_extract_frames[At(w, m - 1)] = try_extract_frames[At(w, (m - 1) + 1)]
    BY <1>4, <1>7, SkipOne
  <1> QED
    BY <1>2, <1>4, <1>6, <1>8, Zenon

\* A round of FramesFrom, and where it looks.
Claims(w, p) == {q \in p .. Len(w) : Whole(At(w, q)) \/ Undecided(At(w, q))}

Find(f, w, p) ==
    LET first == Feed!Min(Claims(w, p))
    IN  IF Claims(w, p) = {} \/ ~Whole(At(w, first)) THEN << >>
        ELSE <<SubSeq(w, first, first + FrameSize(At(w, first)) - 1)>>
                 \o f[first + FrameSize(At(w, first))]

\* It finds what the framer finds there, if that holds further on.
LEMMA FindStep ==
    ASSUME NEW w \in Seq(Byte), NEW p \in 1 .. Len(w) + 1, NEW f,
           \A q \in p + 1 .. Len(w) + 1 : f[q] = try_extract_frames[At(w, q)].frames
    PROVE  Find(f, w, p) = try_extract_frames[At(w, p)].frames
  <1>0. Len(w) \in Nat /\ p \in Nat /\ p <= Len(w) + 1 /\ Len(w) + 1 \in p .. Len(w) + 1
    OBVIOUS
  <1>1. CASE Claims(w, p) = {}
    <2>1. \A x \in p .. (Len(w) + 1) - 1 : x \in p .. Len(w)
      BY <1>0
    <2>2. \A x \in p .. (Len(w) + 1) - 1 : NoClaim(w, x)
      BY <1>1, <2>1, Zenon DEF Claims, NoClaim
    <2>3. try_extract_frames[At(w, p)] = try_extract_frames[At(w, Len(w) + 1)]
      BY <1>0, <2>2, SkipTo
    <2>4. At(w, Len(w) + 1) \in Seq(Byte) /\ Undecided(At(w, Len(w) + 1))
      <3>1. Len(w) + 1 \in 1 .. Len(w) + 1
        BY <1>0
      <3>2. At(w, Len(w) + 1) \in Seq(Byte) /\ Len(At(w, Len(w) + 1)) = Len(w) + 1 - (Len(w) + 1)
        BY <3>1, AtSeq
      <3>3. At(w, Len(w) + 1) = << >>
        BY <1>0, <3>2, EmptySeq
      <3> QED
        BY <3>2, <3>3, Zenon DEF Undecided
    <2>5. try_extract_frames[At(w, Len(w) + 1)].frames = << >>
      BY <2>4, NothingFound
    <2> QED
      BY <1>1, <2>3, <2>5, Zenon DEF Find
  <1>2. CASE Claims(w, p) # {}
    <2>1. PICK m : m = Feed!Min(Claims(w, p))
      OBVIOUS
    <2>2. m \in Claims(w, p) /\ \A y \in Claims(w, p) : m <= y
      <3>1. Claims(w, p) \subseteq Nat
        BY <1>0 DEF Claims
      <3>2. \E x \in Claims(w, p) : \A y \in Claims(w, p) : x <= y
        BY <1>2, <3>1, LeastNumber
      <3> QED
        BY <2>1, <3>2, Zenon DEF Feed!Min
    <2>3. m \in p .. Len(w) /\ (Whole(At(w, m)) \/ Undecided(At(w, m)))
      BY <2>2, Zenon DEF Claims
    <2>4. /\ m \in p .. Len(w) + 1 /\ m \in 1 .. Len(w) + 1 /\ m \in Nat
          /\ \A x \in p .. m - 1 : x \in p .. Len(w) /\ ~(m <= x)
      BY <1>0, <2>3
    <2>5. \A x \in p .. m - 1 : NoClaim(w, x)
      BY <2>2, <2>4, Zenon DEF Claims, NoClaim
    <2>6. try_extract_frames[At(w, p)] = try_extract_frames[At(w, m)]
      BY <2>4, <2>5, SkipTo
    <2>7. At(w, m) \in Seq(Byte) /\ Len(At(w, m)) = Len(w) + 1 - m
      BY <2>4, AtSeq
    <2>8. CASE ~Whole(At(w, m))
      <3>1. try_extract_frames[At(w, m)].frames = << >>
        BY <2>3, <2>7, <2>8, NothingFound
      <3> QED
        BY <2>1, <2>6, <2>8, <3>1, Zenon DEF Find
    <2>9. CASE Whole(At(w, m))
      <3>1. PICK n : n = FrameSize(At(w, m))
        OBVIOUS
      <3>2. n \in 4 .. Len(w) + 1 - m
        BY <2>7, <2>9, <3>1, WholeSize
      <3>3. n \in 0 .. Len(w) + 1 - m /\ m + n \in p + 1 .. Len(w) + 1
        BY <1>0, <2>3, <2>4, <3>2
      <3>4. /\ From(At(w, m), n) = At(w, m + n)
            /\ SubSeq(At(w, m), 1, n) = SubSeq(w, m, m + n - 1)
        BY <2>4, <3>3, AtFrom
      <3>5. try_extract_frames[At(w, m)]
              = Prefixed(SubSeq(At(w, m), 1, n), try_extract_frames[From(At(w, m), n)])
        BY <2>7, <2>9, <3>1, FramerRounds
      <3>6. try_extract_frames[At(w, m)].frames
              = <<SubSeq(w, m, m + n - 1)>> \o try_extract_frames[At(w, m + n)].frames
        <4>1. PICK a, v : a = SubSeq(w, m, m + n - 1) /\ v = try_extract_frames[At(w, m + n)]
          OBVIOUS
        <4>2. try_extract_frames[At(w, m)] = Prefixed(a, v)
          BY <3>4, <3>5, <4>1, Zenon
        <4>3. Prefixed(a, v).frames = <<a>> \o v.frames
          BY DEF Prefixed
        <4> QED
          BY <4>1, <4>2, <4>3, Zenon
      <3>7. f[m + n] = try_extract_frames[At(w, m + n)].frames
        BY <3>3, Zenon
      <3>8. Find(f, w, p) = <<SubSeq(w, m, m + n - 1)>> \o f[m + n]
        BY <1>2, <2>1, <2>9, <3>1, Zenon DEF Find
      <3> QED
        BY <2>6, <3>6, <3>7, <3>8, Zenon
    <2> QED
      BY <2>8, <2>9
  <1> QED
    BY <1>1, <1>2

\* The frames a stream holds are those the framer finds in it.
LEMMA FramesFound ==
    ASSUME NEW w \in Seq(Byte)
    PROVE  Feed!FramesFrom(w) = try_extract_frames[w].frames
  <1> DEFINE P == 1 .. Len(w) + 1
             f == [p \in P |-> try_extract_frames[At(w, p)].frames]
  <1>0. Len(w) \in Nat
    OBVIOUS
  <1>1. f = [p \in P |-> Find(f, w, p)]
    <2>1. ASSUME NEW p \in P PROVE Find(f, w, p) = try_extract_frames[At(w, p)].frames
      <3>1. \A q \in p + 1 .. Len(w) + 1 : q \in P
        BY <1>0
      <3>2. \A q \in p + 1 .. Len(w) + 1 : f[q] = try_extract_frames[At(w, q)].frames
        BY <3>1, Zenon
      <3> HIDE DEF f
      <3> QED
        BY <3>2, FindStep
    <2> QED
      BY <2>1, Zenon
  <1>2. PICK g : g = [p \in P |-> Find(g, w, p)] /\ Feed!FramesFrom(w) = g[1]
    BY <1>1 DEF Feed!FramesFrom, Find, Claims, At, Feed!Whole, Whole, Undecided, Feed!Undecided, Header, Feed!Header,
                FrameSize, Feed!FrameSize, HeaderSize, CrcSize, Feed!HeaderSize, Feed!CrcSize
  <1>3. g[1] = try_extract_frames[At(w, 1)].frames
    <2> DEFINE Right(p) == g[p] = try_extract_frames[At(w, p)].frames
               bad == {k \in 0 .. Len(w) : ~Right(Len(w) + 1 - k)}
    <2>1. bad = {}
      <3> SUFFICES ASSUME bad # {} PROVE FALSE
        OBVIOUS
      <3>1. PICK m \in bad : \A y \in bad : m <= y
        <4>1. bad \subseteq Nat
          BY <1>0
        <4> HIDE DEF bad
        <4> QED
          BY <4>1, LeastNumber
      <3>2. m \in 0 .. Len(w) /\ ~Right(Len(w) + 1 - m)
        BY <3>1, Zenon
      <3>3. PICK p \in P : p = Len(w) + 1 - m
        BY <1>0, <3>2
      <3>4. ASSUME NEW q \in p + 1 .. Len(w) + 1 PROVE Right(q)
        <4>1. /\ Len(w) + 1 - q \in 0 .. Len(w) /\ Len(w) + 1 - (Len(w) + 1 - q) = q
              /\ ~(m <= Len(w) + 1 - q)
          BY <1>0, <3>2, <3>3
        <4>2. Len(w) + 1 - q \notin bad
          BY <3>1, <4>1, Zenon
        <4>3. Right(Len(w) + 1 - (Len(w) + 1 - q))
          BY <4>1, <4>2, Zenon
        <4> QED
          BY <4>1, <4>3, Zenon
      <3>5. Find(g, w, p) = try_extract_frames[At(w, p)].frames
        BY <3>4, FindStep
      <3>6. g[p] = Find(g, w, p)
        BY <1>2, <3>3, Zenon
      <3> QED
        BY <3>2, <3>3, <3>5, <3>6, Zenon
    <2>2. Len(w) \in 0 .. Len(w) /\ Len(w) + 1 - Len(w) = 1
      BY <1>0
    <2>3. Right(Len(w) + 1 - Len(w))
      BY <2>1, <2>2, Zenon
    <2> QED
      BY <2>2, <2>3, Zenon
  <1>4. At(w, 1) = w
    <2>1. 1 \in 1 .. Len(w) + 1
      BY <1>0
    <2>2. PICK v : v = At(w, 1)
      OBVIOUS
    <2>3. v \in Seq(Byte) /\ Len(v) = Len(w) /\ (\A i \in 1 .. Len(w) : v[i] = w[i])
      <3>1. /\ v \in Seq(Byte) /\ Len(v) = Len(w) + 1 - 1
            /\ \A i \in 1 .. Len(w) + 1 - 1 : v[i] = w[1 - 1 + i]
        BY <2>1, <2>2, AtSeq, Zenon
      <3>2. Len(w) + 1 - 1 = Len(w) /\ \A i \in 1 .. Len(w) : 1 - 1 + i = i
        BY <1>0
      <3> QED
        BY <3>1, <3>2, Zenon
    <2>4. v = w
      BY <2>3, SeqEqual
    <2> QED
      BY <2>2, <2>4
  <1> QED
    BY <1>2, <1>3, <1>4, Zenon

-----------------------------------------------------------------------------
(* The feed *)

\* What was published is what the framer finds in the bytes read so far, and
\* what it keeps of them is the buffer, once that has been reset.
FedSoFar ==
    /\ wire \in Prefixes
    /\ got \in 0 .. Len(wire)
    /\ out = Framing(SubSeq(wire, 1, got)).frames
    /\ pc \in {"check", "enter", "read"} => buffer = Framing(SubSeq(wire, 1, got)).rest
    /\ pc = "store" => got = 0

\* Where a prefix is cut does not depend on what follows it.
LEMMA CutPrefix ==
    ASSUME NEW w \in Seq(Byte), NEW n \in 0 .. Len(w), NEW k \in 0 .. n
    PROVE  /\ SubSeq(w, 1, n) \in Seq(Byte) /\ Len(SubSeq(w, 1, n)) = n
           /\ SubSeq(SubSeq(w, 1, n), 1, k) = SubSeq(w, 1, k)
           /\ SubSeq(SubSeq(w, 1, n), k + 1, n) = SubSeq(w, k + 1, n)
  <1>1. PICK v : v = SubSeq(w, 1, n)
    OBVIOUS
  <1>2. /\ n \in Nat /\ k \in Nat /\ k <= n /\ n <= Len(w) /\ Len(w) \in Nat
        /\ \A i \in 1 .. Len(w) : w[i] \in Byte
    OBVIOUS
  <1>3. v \in Seq(Byte) /\ Len(v) = n /\ (\A i \in 1 .. n : v[i] = w[i])
    BY <1>1, <1>2, SubSeqProperties
  <1>4. \A i \in 1 .. n : v[i] \in Byte
    BY <1>3
  <1>5. SubSeq(v, 1, k) = SubSeq(w, 1, k)
    <2>1. /\ SubSeq(v, 1, k) \in Seq(Byte) /\ Len(SubSeq(v, 1, k)) = k
          /\ \A i \in 1 .. k : SubSeq(v, 1, k)[i] = v[i]
      BY <1>2, <1>4, SubSeqProperties
    <2>2. /\ SubSeq(w, 1, k) \in Seq(Byte) /\ Len(SubSeq(w, 1, k)) = k
          /\ \A i \in 1 .. k : SubSeq(w, 1, k)[i] = w[i]
      BY <1>2, SubSeqProperties
    <2>3. \A i \in 1 .. k : SubSeq(v, 1, k)[i] = SubSeq(w, 1, k)[i]
      BY <1>2, <1>3, <2>1, <2>2
    <2> QED
      BY <2>1, <2>2, <2>3, SeqEqual
  <1>6. SubSeq(v, k + 1, n) = SubSeq(w, k + 1, n)
    <2>1. /\ SubSeq(v, k + 1, n) \in Seq(Byte) /\ Len(SubSeq(v, k + 1, n)) = n - k
          /\ \A i \in 1 .. n - k : SubSeq(v, k + 1, n)[i] = v[k + i]
      BY <1>2, <1>4, SubSeqProperties
    <2>2. /\ SubSeq(w, k + 1, n) \in Seq(Byte) /\ Len(SubSeq(w, k + 1, n)) = n - k
          /\ \A i \in 1 .. n - k : SubSeq(w, k + 1, n)[i] = w[k + i]
      BY <1>2, SubSeqProperties
    <2>3. \A i \in 1 .. n - k : SubSeq(v, k + 1, n)[i] = SubSeq(w, k + 1, n)[i]
      BY <1>2, <1>3, <2>1, <2>2
    <2> QED
      BY <2>1, <2>2, <2>3, SeqEqual
  <1> QED
    BY <1>1, <1>3, <1>5, <1>6

\* Every beginning of what a base may have written is one of those.
LEMMA PrefixesClosed ==
    ASSUME NEW w \in Prefixes, NEW n \in 0 .. Len(w)
    PROVE  w \in Seq(Byte) /\ SubSeq(w, 1, n) \in Prefixes
  <1>1. CASE w = << >>
    <2>1. n = 0 /\ SubSeq(w, 1, 0) = << >> /\ << >> \in Seq(Byte)
      BY <1>1, SubSeqEmpty
    <2> QED
      BY <1>1, <2>1 DEF Prefixes
  <1>2. CASE w # << >>
    <2>0. PICK s \in Streams : \E m \in 0 .. Len(s) : w = SubSeq(s, 1, m)
      BY <1>2 DEF Prefixes
    <2>1. PICK m \in 0 .. Len(s) : w = SubSeq(s, 1, m)
      BY <2>0
    <2>2. s \in Seq(Byte) /\ Len(s) \in Nat
      BY <2>0, RelayAssumption
    <2>3. w \in Seq(Byte) /\ Len(w) = m
      BY <2>1, <2>2, CutPrefix
    <2>4. SubSeq(w, 1, n) = SubSeq(s, 1, n) /\ n \in 0 .. Len(s)
      BY <2>1, <2>2, <2>3, CutPrefix
    <2> QED
      BY <2>0, <2>3, <2>4 DEF Prefixes
  <1> QED
    BY <1>1, <1>2

\* One more byte of a stream.
LEMMA PrefixesGrow ==
    ASSUME NEW s \in Streams, NEW w \in Seq(Byte), Len(w) < Len(s),
           w = SubSeq(s, 1, Len(w)), NEW v, v = Append(w, s[Len(w) + 1])
    PROVE  /\ v \in Prefixes /\ v \in Seq(Byte) /\ Len(v) = Len(w) + 1
           /\ s[Len(w) + 1] \in Byte
  <1>1. /\ s \in Seq(Byte) /\ Len(s) \in Nat /\ Len(w) \in Nat
        /\ Len(w) + 1 \in 1 .. Len(s) /\ s[Len(w) + 1] \in Byte
        /\ \A i \in 1 .. Len(s) : s[i] \in Byte
    BY RelayAssumption
  <1>2. /\ v \in Seq(Byte) /\ Len(v) = Len(w) + 1
        /\ \A i \in 1 .. Len(w) : v[i] = w[i]
        /\ v[Len(w) + 1] = s[Len(w) + 1]
    BY <1>1, AppendProperties
  <1>3. PICK m \in Nat : m = Len(w) + 1
    BY <1>1
  <1>4. /\ SubSeq(s, 1, m) \in Seq(Byte) /\ Len(SubSeq(s, 1, m)) = m
        /\ \A i \in 1 .. m : SubSeq(s, 1, m)[i] = s[i]
    BY <1>1, <1>3, SubSeqProperties
  <1>5. \A i \in 1 .. Len(w) : w[i] = s[i]
    <2>1. \A i \in 1 .. Len(w) : SubSeq(s, 1, Len(w))[i] = s[i]
      BY <1>1, SubSeqProperties
    <2> QED
      BY <2>1
  <1>6. \A i \in 1 .. m : v[i] = SubSeq(s, 1, m)[i]
    BY <1>1, <1>2, <1>3, <1>4, <1>5
  <1>7. v = SubSeq(s, 1, m)
    BY <1>2, <1>3, <1>4, <1>6, SeqEqual
  <1>8. v \in Prefixes
    BY <1>1, <1>3, <1>7 DEF Prefixes
  <1> QED
    BY <1>1, <1>2, <1>8

\* A byte more changes nothing of what was there.
LEMMA PrefixKept ==
    ASSUME NEW w \in Seq(Byte), NEW x \in Byte, NEW v, v = Append(w, x), NEW k \in 0 .. Len(w)
    PROVE  SubSeq(v, 1, k) = SubSeq(w, 1, k)
  <1>1. /\ v \in Seq(Byte) /\ Len(v) = Len(w) + 1 /\ Len(w) \in Nat
        /\ \A i \in 1 .. Len(w) : v[i] = w[i]
    BY AppendProperties
  <1>2. /\ SubSeq(w, 1, k) \in Seq(Byte) /\ Len(SubSeq(w, 1, k)) = k
        /\ \A i \in 1 .. k : SubSeq(w, 1, k)[i] = w[i]
    BY <1>1, SubSeqProperties
  <1>3. /\ SubSeq(v, 1, k) \in Seq(Byte) /\ Len(SubSeq(v, 1, k)) = k
        /\ \A i \in 1 .. k : SubSeq(v, 1, k)[i] = v[i]
    BY <1>1, SubSeqProperties
  <1>4. \A i \in 1 .. k : SubSeq(v, 1, k)[i] = SubSeq(w, 1, k)[i]
    BY <1>1, <1>2, <1>3
  <1> QED
    BY <1>2, <1>3, <1>4, SeqEqual

LEMMA CutAndJoined ==
    ASSUME NEW w \in Seq(Byte), NEW k \in 0 .. Len(w)
    PROVE  /\ SubSeq(w, 1, k) \in Seq(Byte) /\ From(w, k) \in Seq(Byte)
           /\ SubSeq(w, 1, k) \o From(w, k) = w
  <1>1. PICK b, d : b = SubSeq(w, 1, k) /\ d = From(w, k)
    OBVIOUS
  <1>2. b \in Seq(Byte) /\ Len(b) = k /\ (\A i \in 1 .. k : b[i] = w[i])
    BY <1>1, FrontSeq
  <1>3. d \in Seq(Byte) /\ Len(d) = Len(w) - k /\ (\A i \in 1 .. Len(w) - k : d[i] = w[k + i])
    BY <1>1, FromSeq
  <1>4. Len(w) \in Nat /\ Len(w) = k + (Len(w) - k)
    OBVIOUS
  <1>5. Joined(b, d, w)
    <2>1. Len(w) = Len(b) + Len(d)
      BY <1>2, <1>3, <1>4
    <2>2. \A i \in 1 .. Len(b) : w[i] = b[i]
      BY <1>2, Zenon
    <2>3. \A i \in 1 .. Len(d) : w[Len(b) + i] = d[i]
      BY <1>2, <1>3, Zenon
    <2> QED
      BY <2>1, <2>2, <2>3, Zenon DEF Joined
  <1>6. w = b \o d
    BY <1>2, <1>3, <1>5, JoinedUnique
  <1> QED
    BY <1>1, <1>2, <1>3, <1>6, Zenon

\* The framer's law, for every stream over every alphabet and every checksum: the
\* loop of try_extract_frames finds the frames a stream holds, and finds the
\* same ones, and keeps the same rest, however the bytes are cut into reads.
THEOREM FramerLawHolds == FramerLaw
  <1>1. Framing(<< >>) = [frames |-> << >>, rest |-> << >>]
    <2>1. << >> \in Seq(Byte) /\ Undecided(<< >>)
      BY DEF Undecided
    <2> QED
      BY <2>1, FramerRounds, Zenon DEF Framing
  <1>2. ASSUME NEW w \in Prefixes
        PROVE  /\ Framing(w).frames = Feed!FramesFrom(w)
               /\ \A k \in 0 .. Len(w) :
                     LET r == push(Framing(SubSeq(w, 1, k)).rest, SubSeq(w, k + 1, Len(w)))
                     IN  /\ Framing(SubSeq(w, 1, k)).frames \in Seq(Seq(Byte))
                         /\ r.frames \in Seq(Seq(Byte))
                         /\ Framing(SubSeq(w, 1, k)).frames \o r.frames = Framing(w).frames
                         /\ r.rest = Framing(w).rest
    <2>1. w \in Seq(Byte) /\ Len(w) \in Nat
      <3>1. CASE w = << >>
        BY <3>1
      <3>2. CASE w # << >>
        <4>1. PICK s \in Streams : \E m \in 0 .. Len(s) : w = SubSeq(s, 1, m)
          BY <3>2 DEF Prefixes
        <4>2. PICK m \in 0 .. Len(s) : w = SubSeq(s, 1, m)
          BY <4>1
        <4>3. s \in Seq(Byte)
          BY RelayAssumption
        <4>4. w \in Seq(Byte)
          BY <4>2, <4>3, FrontSeq
        <4> QED
          BY <4>4
      <3> QED
        BY <3>1, <3>2
    <2>2. Framing(w).frames = Feed!FramesFrom(w)
      BY <2>1, FramesFound DEF Framing
    <2>3. ASSUME NEW k \in 0 .. Len(w)
          PROVE  LET r == push(Framing(SubSeq(w, 1, k)).rest, SubSeq(w, k + 1, Len(w)))
                 IN  /\ Framing(SubSeq(w, 1, k)).frames \in Seq(Seq(Byte))
                     /\ r.frames \in Seq(Seq(Byte))
                     /\ Framing(SubSeq(w, 1, k)).frames \o r.frames = Framing(w).frames
                     /\ r.rest = Framing(w).rest
      <3>1. PICK b, d : b = SubSeq(w, 1, k) /\ d = SubSeq(w, k + 1, Len(w))
        OBVIOUS
      <3>2. b \in Seq(Byte) /\ d \in Seq(Byte) /\ b \o d = w
        BY <2>1, <3>1, CutAndJoined DEF From
      <3>3. PICK T : T = try_extract_frames
        OBVIOUS
      <3>4. T[b] \in Framings
        BY <3>2, <3>3, FramerTypes
      <3>5. T[b].frames \in Seq(Seq(Byte)) /\ T[b].rest \in Seq(Byte)
        BY <3>4 DEF Framings
      <3>6. PICK r : r = T[T[b].rest \o d]
        OBVIOUS
      <3>7. r \in Framings
        <4>1. T[b].rest \o d \in Seq(Byte)
          BY <3>2, <3>5, ConcatProperties
        <4> QED
          BY <3>3, <3>6, <4>1, FramerTypes
      <3>8. T[w] = [frames |-> T[b].frames \o r.frames, rest |-> r.rest]
        BY <3>2, <3>3, <3>6, FramingCut, Zenon DEF CutHere
      <3>9. T[w].frames = T[b].frames \o r.frames /\ T[w].rest = r.rest /\ r.frames \in Seq(Seq(Byte))
        BY <3>7, <3>8 DEF Framings
      <3>10. r = push(Framing(SubSeq(w, 1, k)).rest, SubSeq(w, k + 1, Len(w)))
        BY <3>1, <3>3, <3>6, Zenon DEF push, Framing
      <3>11. Framing(SubSeq(w, 1, k)) = T[b] /\ Framing(w) = T[w]
        BY <3>1, <3>3, Zenon DEF Framing
      <3> QED
        BY <3>5, <3>9, <3>10, <3>11, Zenon
    <2> QED
      BY <2>2, <2>3
  <1> QED
    BY <1>1, <1>2, Zenon DEF FramerLaw

\* Two reads in a row are framed like one.
LEMMA ReadsAddUp ==
    ASSUME FramerLaw, NEW w \in Prefixes, NEW k \in 0 .. Len(w), NEW n \in k .. Len(w),
           NEW r, r = push(Framing(SubSeq(w, 1, k)).rest, SubSeq(w, k + 1, n))
    PROVE  /\ Framing(SubSeq(w, 1, k)).frames \in Seq(Seq(Byte))
           /\ r.frames \in Seq(Seq(Byte))
           /\ Framing(SubSeq(w, 1, k)).frames \o r.frames = Framing(SubSeq(w, 1, n)).frames
           /\ r.rest = Framing(SubSeq(w, 1, n)).rest
  <1>1. PICK v : v = SubSeq(w, 1, n)
    OBVIOUS
  <1>2. w \in Seq(Byte) /\ Len(w) \in Nat /\ n \in 0 .. Len(w) /\ k \in 0 .. n
    BY PrefixesClosed
  <1>3. /\ v \in Prefixes /\ Len(v) = n /\ k \in 0 .. Len(v)
        /\ SubSeq(v, 1, k) = SubSeq(w, 1, k) /\ SubSeq(v, k + 1, n) = SubSeq(w, k + 1, n)
    BY <1>1, <1>2, CutPrefix, PrefixesClosed
  <1>4. r = push(Framing(SubSeq(v, 1, k)).rest, SubSeq(v, k + 1, Len(v)))
    BY <1>3
  <1>5. /\ Framing(SubSeq(v, 1, k)).frames \in Seq(Seq(Byte))
        /\ r.frames \in Seq(Seq(Byte))
        /\ Framing(SubSeq(v, 1, k)).frames \o r.frames = Framing(v).frames
        /\ r.rest = Framing(v).rest
    BY <1>3, <1>4 DEF FramerLaw
  <1> QED
    BY <1>1, <1>3, <1>5

LEMMA InitFed == FramerLaw /\ Init => FedSoFar
  <1> SUFFICES ASSUME FramerLaw, Init PROVE FedSoFar
    OBVIOUS
  <1>1. wire = << >> /\ got = 0 /\ out = << >> /\ pc = "loop"
    BY DEF Init
  <1>2. SubSeq(<< >>, 1, 0) = << >> /\ Len(<< >>) = 0
    BY SubSeqEmpty
  <1>3. Framing(<< >>).frames = << >>
    BY DEF FramerLaw
  <1>4. wire \in Prefixes /\ got \in 0 .. Len(wire)
    BY <1>1, <1>2 DEF Prefixes
  <1>5. out = Framing(SubSeq(wire, 1, got)).frames
    BY <1>1, <1>2, <1>3
  <1> QED
    BY <1>1, <1>4, <1>5 DEF FedSoFar

\* A new connection begins with nothing.
LEMMA FreshFed ==
    ASSUME FramerLaw, wire' = << >>, got' = 0, out' = << >>,
           pc' \notin {"check", "enter", "read"}
    PROVE  FedSoFar'
  <1>1. SubSeq(<< >>, 1, 0) = << >> /\ Len(<< >>) = 0
    BY SubSeqEmpty
  <1>2. Framing(<< >>).frames = << >>
    BY DEF FramerLaw
  <1>3. wire' \in Prefixes /\ got' \in 0 .. Len(wire')
    BY <1>1 DEF Prefixes
  <1>4. out' = Framing(SubSeq(wire', 1, got')).frames
    BY <1>1, <1>2
  <1> QED
    BY <1>3, <1>4 DEF FedSoFar

\* What the relays do to their data, step by step.
Reads ==
    /\ pc = "read" /\ pc' = "check" /\ wire' = wire
    /\ \E n \in got + 1 .. Len(wire) :
        LET r == push(buffer, SubSeq(wire, got + 1, n))
        IN  /\ buffer' = r.rest
            /\ out' = out \o r.frames
            /\ got' = n

Opens ==
    /\ wire' = << >> /\ got' = 0 /\ out' = << >>
    /\ pc' \notin {"check", "enter", "read"}

Grows ==
    /\ UNCHANGED <<pc, buffer, got, out>>
    /\ \E s \in Streams :
        /\ Len(wire) < Len(s)
        /\ wire = SubSeq(s, 1, Len(wire))
        /\ wire' = Append(wire, s[Len(wire) + 1])

Keeps ==
    /\ UNCHANGED <<wire, got, out>>
    /\ \/ pc = "store" /\ pc' = "check" /\ buffer' = << >>
       \/ /\ buffer' = buffer
          /\ pc' \in {"check", "enter", "read"} => pc \in {"check", "enter", "read"}
          /\ pc' = "store" => pc = "store"

\* Every step of a relay is one of these; the framer is reset on the way into
\* the loop that reads, when nothing has been read yet.
LEMMA DataSteps ==
    ASSUME [Next]_vars
    PROVE  Reads \/ Opens \/ Grows \/ Keeps
  <1>1. CASE ReadBytes
    BY <1>1 DEF ReadBytes, Goto, Reads
  <1>2. CASE OpenWorks \/ AcceptPeer
    BY <1>2 DEF OpenWorks, AcceptPeer, Goto, Opens, Keeps
  <1>3. CASE BaseWrites
    BY <1>3 DEF BaseWrites, Grows
  <1>4. CASE Store
    BY <1>4 DEF Store, Goto, Keeps
  <1>5. CASE Loop \/ OpenFails \/ Retry \/ StoreListen \/ Accepting \/ AcceptFails
    BY <1>5 DEF Loop, OpenFails, Retry, StoreListen, Accepting, AcceptFails, Goto, data, Keeps
  <1>6. CASE Check \/ Enter \/ ReadEnds \/ Close \/ Pause \/ Unlisten
    BY <1>6 DEF Check, Enter, ReadEnds, Close, Pause, Unlisten, Goto, data, Keeps
  <1>7. CASE Destroy \/ DtorStep
    BY <1>7 DEF Destroy, DtorStep, TakeListen, CloseListen, Take, Wake, Join, data, Keeps
  <1>8. CASE Weather \/ BaseBreaks \/ UNCHANGED vars
    BY <1>8 DEF Weather, BaseBreaks, vars, data, Keeps
  <1> QED
    BY <1>1, <1>2, <1>3, <1>4, <1>5, <1>6, <1>7, <1>8 DEF Next, IoStep

\* The feed's state after a step is again the framing of the bytes read.
LEMMA NextFed == FramerLaw /\ FedSoFar /\ [Next]_vars => FedSoFar'
  <1> SUFFICES ASSUME FramerLaw, FedSoFar, [Next]_vars PROVE FedSoFar'
    OBVIOUS
  <1>1. /\ wire \in Prefixes /\ got \in 0 .. Len(wire)
        /\ out = Framing(SubSeq(wire, 1, got)).frames
    BY DEF FedSoFar
  <1>2. wire \in Seq(Byte) /\ Len(wire) \in Nat
    BY <1>1, PrefixesClosed
  <1>3. CASE Reads
    <2>1. PICK n \in got + 1 .. Len(wire) :
            /\ buffer' = push(buffer, SubSeq(wire, got + 1, n)).rest
            /\ out' = out \o push(buffer, SubSeq(wire, got + 1, n)).frames
            /\ got' = n
      BY <1>3 DEF Reads
    <2>2. n \in got .. Len(wire) /\ n \in 0 .. Len(wire)
      BY <1>1, <1>2, <2>1
    <2>3. buffer = Framing(SubSeq(wire, 1, got)).rest
      BY <1>3 DEF Reads, FedSoFar
    <2>4. /\ out' = Framing(SubSeq(wire, 1, n)).frames
          /\ buffer' = Framing(SubSeq(wire, 1, n)).rest
      BY <1>1, <2>1, <2>2, <2>3, ReadsAddUp
    <2> QED
      BY <1>1, <1>3, <2>1, <2>2, <2>4 DEF Reads, FedSoFar
  <1>4. CASE Opens
    BY <1>4, FreshFed DEF Opens
  <1>5. CASE Grows
    <2>1. PICK s \in Streams : /\ Len(wire) < Len(s)
                               /\ wire = SubSeq(s, 1, Len(wire))
                               /\ wire' = Append(wire, s[Len(wire) + 1])
      BY <1>5 DEF Grows
    <2>2. /\ wire' \in Prefixes /\ Len(wire') = Len(wire) + 1
          /\ SubSeq(wire', 1, got) = SubSeq(wire, 1, got)
      <3>1. PICK v : v = wire'
        OBVIOUS
      <3>2. v = Append(wire, s[Len(wire) + 1])
        BY <2>1, <3>1
      <3>3. v \in Prefixes /\ Len(v) = Len(wire) + 1 /\ s[Len(wire) + 1] \in Byte
        BY <1>2, <2>1, <3>2, PrefixesGrow
      <3>4. SubSeq(v, 1, got) = SubSeq(wire, 1, got)
        BY <1>1, <1>2, <3>2, <3>3, PrefixKept
      <3> QED
        BY <3>1, <3>3, <3>4
    <2>3. got \in 0 .. Len(wire')
      BY <1>1, <1>2, <2>2
    <2> QED
      BY <1>1, <1>5, <2>2, <2>3 DEF Grows, FedSoFar
  <1>6. CASE Keeps
    <2>1. CASE pc = "store" /\ pc' = "check" /\ buffer' = << >>
      <3>1. got = 0 /\ SubSeq(wire, 1, 0) = << >> /\ Framing(<< >>).rest = << >>
        BY <2>1, SubSeqEmpty DEF FedSoFar, FramerLaw
      <3> QED
        BY <1>1, <1>6, <2>1, <3>1 DEF Keeps, FedSoFar
    <2>2. CASE ~(pc = "store" /\ pc' = "check" /\ buffer' = << >>)
      BY <1>6, <2>2 DEF Keeps, FedSoFar
    <2> QED
      BY <2>1, <2>2
  <1> QED
    BY <1>3, <1>4, <1>5, <1>6, DataSteps

\* A step of a relay is a step of the feed, or none.
LEMMA StepIsFeedStep ==
    ASSUME FramerLaw, FedSoFar, [Next]_vars
    PROVE  [Feed!FeedNext]_(Feed!feed)
  <1> USE DEF Feed!FeedNext, Feed!feed
  <1>1. /\ wire \in Prefixes /\ got \in 0 .. Len(wire)
        /\ out = Framing(SubSeq(wire, 1, got)).frames
    BY DEF FedSoFar
  <1>2. wire \in Seq(Byte) /\ Len(wire) \in Nat
    BY <1>1, PrefixesClosed
  <1>3. CASE Reads
    <2>1. PICK n \in got + 1 .. Len(wire) :
            out' = out \o push(buffer, SubSeq(wire, got + 1, n)).frames
      BY <1>3 DEF Reads
    <2>2. n \in got .. Len(wire) /\ n \in 0 .. Len(wire)
      BY <1>1, <1>2, <2>1
    <2>3. buffer = Framing(SubSeq(wire, 1, got)).rest
      BY <1>3 DEF Reads, FedSoFar
    <2>4. PICK fs : fs = push(buffer, SubSeq(wire, got + 1, n)).frames
      OBVIOUS
    <2>5. /\ out' = out \o fs
          /\ out \in Seq(Seq(Byte)) /\ fs \in Seq(Seq(Byte))
          /\ out' = Framing(SubSeq(wire, 1, n)).frames
      BY <1>1, <2>1, <2>2, <2>3, <2>4, ReadsAddUp
    <2>6. out' = Feed!FramesFrom(SubSeq(wire, 1, n))
      <3>1. SubSeq(wire, 1, n) \in Prefixes
        BY <1>1, <2>2, PrefixesClosed
      <3> QED
        BY <2>5, <3>1 DEF FramerLaw
    <2>7. CASE fs = << >>
      <3>1. out \o << >> = out
        BY <2>5, ConcatEmptySeq
      <3> QED
        BY <1>3, <2>5, <2>7, <3>1 DEF Reads
    <2>8. CASE fs # << >>
      <3>0. Len(fs) # 0 /\ Len(fs) \in Nat /\ Len(out) \in Nat
        BY <2>5, <2>8, EmptySeq
      <3>a. Len(out \o fs) = Len(out) + Len(fs)
        BY <2>5, ConcatProperties
      <3>1. Len(out') > Len(out)
        BY <2>5, <3>0, <3>a
      <3>2. Feed!Publish
        BY <1>3, <2>2, <2>6, <3>1 DEF Feed!Publish, Reads
      <3> QED
        BY <3>2
    <2> QED
      BY <2>7, <2>8
  <1>4. CASE Opens
    BY <1>4 DEF Opens, Feed!Reconnect
  <1>5. CASE Grows
    <2>1. PICK s \in Streams : /\ Len(wire) < Len(s)
                               /\ wire = SubSeq(s, 1, Len(wire))
                               /\ wire' = Append(wire, s[Len(wire) + 1])
      BY <1>5 DEF Grows
    <2>2. s[Len(wire) + 1] \in Byte
      BY <1>2, <2>1, PrefixesGrow
    <2>3. Feed!Write
      BY <1>5, <2>1, <2>2 DEF Feed!Write, Grows, Feed!Byte, Byte
    <2> QED
      BY <2>3
  <1>6. CASE Keeps
    BY <1>6 DEF Keeps
  <1> QED
    BY <1>3, <1>4, <1>5, <1>6, DataSteps

\* A relay in any role implements the feed: whatever connects, breaks, partial
\* reads and the destructor do, rtcm/out carries the frames of the bytes of one connection,
\* in order, none twice and none across a reconnection.
THEOREM RelayImplementsFeed == Spec => ImplementsFeed
  <1>1. Init => Feed!FeedInit
    BY DEF Init, Feed!FeedInit, Feed!feed
  <1>2. Init => FedSoFar
    BY InitFed, FramerLawHolds
  <1>3. FedSoFar /\ [Next]_vars => FedSoFar'
    BY NextFed, FramerLawHolds
  <1>4. FedSoFar /\ [Next]_vars => [Feed!FeedNext]_(Feed!feed)
    BY StepIsFeedStep, FramerLawHolds
  <1> QED
    BY <1>1, <1>2, <1>3, <1>4, PTL DEF Spec, ImplementsFeed, Feed!FeedSpec

-----------------------------------------------------------------------------
(* The tool that listens *)

\* rtcm_base_info only listens: beside it a relay does what it does alone, so
\* that what is shown of a relay holds of the two together.
THEOREM ToolOnlyListens == BaseSpec => Spec
  <1>1. BaseInit => Init
    BY DEF BaseInit
  <1>2. [BaseNext]_<<vars, toolVars>> => [Next]_vars
    BY DEF BaseNext, RelayStep, Start, on_rtcm, on_fix, main
  <1> QED
    BY <1>1, <1>2, PTL DEF BaseSpec, Spec

-----------------------------------------------------------------------------
(* The second parser *)

\* A frame as the framer publishes it: it is as long as its header says.
GoodFrames == {f \in Seq(Byte) : Header(f) /\ Len(f) = FrameSize(f)}

LEMMA WholeIsGood ==
    ASSUME NEW b \in Seq(Byte), Whole(b)
    PROVE  SubSeq(b, 1, FrameSize(b)) \in GoodFrames
  <1>1. PICK n : n = FrameSize(b)
    OBVIOUS
  <1>2. n \in 4 .. Len(b) /\ n \in 0 .. Len(b)
    BY <1>1, WholeSize
  <1>3. PICK f : f = SubSeq(b, 1, n)
    OBVIOUS
  <1>4. f \in Seq(Byte) /\ Len(f) = n /\ (\A i \in 1 .. n : f[i] = b[i])
    BY <1>2, <1>3, FrontSeq
  <1>5. 1 \in 1 .. n /\ 2 \in 1 .. n /\ 3 \in 1 .. n /\ n >= 3
    BY <1>2
  <1>6. f[1] = b[1] /\ f[2] = b[2] /\ f[3] = b[3]
    BY <1>4, <1>5, Zenon
  <1>7. FrameSize(f) = n
    BY <1>1, <1>6, Zenon DEF FrameSize
  <1>8. Header(f)
    BY <1>4, <1>5, <1>6 DEF Header, HeaderSize, Whole
  <1> QED
    BY <1>1, <1>3, <1>4, <1>7, <1>8 DEF GoodFrames

LEMMA FramesGood ==
    ASSUME NEW b \in Seq(Byte)
    PROVE  try_extract_frames[b].frames \in Seq(GoodFrames)
  <1> DEFINE bad == {c \in Seq(Byte) : try_extract_frames[c].frames \notin Seq(GoodFrames)}
  <1> SUFFICES ASSUME bad # {} PROVE FALSE
    OBVIOUS
  <1>1. PICK c \in bad : \A d \in bad : Len(c) <= Len(d)
    <2>1. bad \subseteq Seq(Byte)
      OBVIOUS
    <2> HIDE DEF bad
    <2> QED
      BY <2>1, ShortestOne
  <1>2. c \in Seq(Byte) /\ Len(c) \in Nat /\ try_extract_frames[c].frames \notin Seq(GoodFrames)
    BY <1>1
  <1>3. CASE Undecided(c)
    <2>1. try_extract_frames[c].frames = << >>
      BY <1>2, <1>3, NothingFound
    <2>2. << >> \in Seq(GoodFrames)
      OBVIOUS
    <2> QED
      BY <1>2, <2>1, <2>2, Zenon
  <1>4. CASE ~Undecided(c)
    <2>1. Onward(c) \in Seq(Byte) /\ Len(Onward(c)) < Len(c) /\ Len(Onward(c)) \in Nat
      BY <1>2, <1>4, OnwardShorter
    <2>2. Onward(c) \notin bad
      BY <1>1, <1>2, <2>1
    <2>3. try_extract_frames[Onward(c)].frames \in Seq(GoodFrames)
      BY <2>1, <2>2
    <2>4. CASE Whole(c)
      <3>1. PICK a, v : a = SubSeq(c, 1, FrameSize(c)) /\ v = try_extract_frames[Onward(c)]
        OBVIOUS
      <3>2. try_extract_frames[c] = Prefixed(a, v)
        BY <1>2, <2>4, <3>1, FramerRounds DEF Onward
      <3>3. Prefixed(a, v).frames = <<a>> \o v.frames
        BY DEF Prefixed
      <3>4. a \in GoodFrames
        BY <1>2, <2>4, <3>1, WholeIsGood
      <3>5. <<a>> \o v.frames \in Seq(GoodFrames)
        <4>1. <<a>> \in Seq(GoodFrames) /\ v.frames \in Seq(GoodFrames)
          BY <2>3, <3>1, <3>4
        <4> QED
          BY <4>1, ConcatProperties
      <3> QED
        BY <1>2, <3>2, <3>3, <3>5, Zenon
    <2>5. CASE ~Whole(c)
      <3>1. try_extract_frames[c] = try_extract_frames[Onward(c)]
        BY <1>2, <1>4, <2>5, FramerRounds, Zenon DEF Onward
      <3> QED
        BY <1>2, <2>3, <3>1, Zenon
    <2> QED
      BY <2>4, <2>5
  <1> QED
    BY <1>3, <1>4

\* One round of iter_rtcm.
ClaimedLength(b) == (b[2] % 2) * HiStep + b[3]
ClaimedSize(b) == HeaderSize + ClaimedLength(b) + CrcSize
ClaimedPayload(b) == SubSeq(b, HeaderSize + 1, HeaderSize + ClaimedLength(b))

IterStep(f, b) ==
    IF Len(b) <= HeaderSize THEN << >>
    ELSE IF b[1] # Preamble THEN f[Tail(b)]
    ELSE IF ~Fits(ClaimedSize(b), b) THEN << >>
    ELSE (IF ClaimedLength(b) >= 2 THEN <<ClaimedPayload(b)>> ELSE << >>)
            \o f[From(b, ClaimedSize(b))]

\* Where it stops, and where else it goes on.
IterStops(b) == Len(b) <= HeaderSize \/ (b[1] = Preamble /\ ~Fits(ClaimedSize(b), b))
IterOn(b) == IF b[1] # Preamble THEN Tail(b) ELSE From(b, ClaimedSize(b))
IterGives(b) ==
    IF b[1] # Preamble \/ ~(ClaimedLength(b) >= 2) THEN << >> ELSE <<ClaimedPayload(b)>>

LEMMA ClaimedNat ==
    ASSUME NEW b \in Seq(Byte), ~(Len(b) <= HeaderSize)
    PROVE  /\ ClaimedLength(b) \in Nat /\ ClaimedSize(b) = 4 + ClaimedLength(b)
           /\ Len(b) \in Nat /\ Len(b) > 3
  <1>1. Len(b) \in Nat /\ Len(b) > 3 /\ 2 \in 1 .. Len(b) /\ 3 \in 1 .. Len(b)
    BY DEF HeaderSize
  <1>2. b[2] \in Byte /\ b[3] \in Byte
    BY <1>1
  <1>3. PICK z : z = b[2] % 2
    OBVIOUS
  <1>4. z \in Nat
    BY <1>2, <1>3, FramerAssumption DEF Byte
  <1>5. PICK x \in Nat : x = z * HiStep
    BY <1>4, FramerAssumption
  <1>6. PICK y \in Nat : y = b[3]
    BY <1>2, FramerAssumption DEF Byte
  <1>7. ClaimedLength(b) = x + y
    BY <1>3, <1>5, <1>6, Zenon DEF ClaimedLength
  <1>8. ClaimedSize(b) = 3 + (x + y) + 1
    BY <1>7, Zenon DEF ClaimedSize, HeaderSize, CrcSize
  <1> QED
    BY <1>1, <1>7, <1>8

LEMMA IterShorter ==
    ASSUME NEW b \in Seq(Byte), ~IterStops(b)
    PROVE  /\ IterOn(b) \in Seq(Byte) /\ Len(IterOn(b)) < Len(b) /\ Len(IterOn(b)) \in Nat
           /\ IterGives(b) \in Seq(Seq(Byte))
  <1>1. ~(Len(b) <= HeaderSize)
    BY DEF IterStops
  <1>2. /\ ClaimedLength(b) \in Nat /\ ClaimedSize(b) = 4 + ClaimedLength(b)
        /\ Len(b) \in Nat /\ Len(b) > 3
    BY <1>1, ClaimedNat
  <1>3. CASE b[1] # Preamble
    <2>1. b # << >>
      BY <1>2, EmptySeq
    <2>2. Resync(b) \in Seq(Byte) /\ Len(Resync(b)) = Len(b) - 1
      BY <2>1, TailSeq
    <2>3. IterOn(b) = Resync(b) /\ IterGives(b) = << >>
      BY <1>3, Zenon DEF IterOn, Resync, IterGives
    <2> QED
      BY <1>2, <2>2, <2>3
  <1>4. CASE b[1] = Preamble
    <2>1. ClaimedSize(b) <= Len(b)
      BY <1>4 DEF IterStops, Fits
    <2>2. ClaimedSize(b) \in 0 .. Len(b) /\ ClaimedSize(b) >= 4
      BY <1>2, <2>1
    <2>3. From(b, ClaimedSize(b)) \in Seq(Byte) /\ Len(From(b, ClaimedSize(b))) = Len(b) - ClaimedSize(b)
      BY <2>2, FromSeq
    <2>4. ClaimedPayload(b) \in Seq(Byte)
      <3>1. PICK l \in Nat : l = ClaimedLength(b)
        BY <1>2
      <3>2. 3 + l \in Nat /\ 3 + 1 \in Nat /\ \A i \in 3 + 1 .. 3 + l : b[i] \in Byte
        BY <1>2, <2>1, <3>1
      <3>3. SubSeq(b, 3 + 1, 3 + l) \in Seq(Byte)
        BY <1>2, <3>2, SubSeqProperties
      <3> QED
        BY <3>1, <3>3, Zenon DEF ClaimedPayload, HeaderSize
    <2>5. IterGives(b) \in Seq(Seq(Byte))
      <3>1. <<ClaimedPayload(b)>> \in Seq(Seq(Byte)) /\ << >> \in Seq(Seq(Byte))
        BY <2>4
      <3> QED
        BY <3>1, Zenon DEF IterGives
    <2>6. IterOn(b) = From(b, ClaimedSize(b))
      BY <1>4, Zenon DEF IterOn
    <2> QED
      BY <1>2, <2>2, <2>3, <2>5, <2>6
  <1> QED
    BY <1>3, <1>4

LEMMA IterEquation ==
    iter_rtcm = [b \in Seq(Byte) |-> IterStep(iter_rtcm, b)]
  <1> DEFINE D == Seq(Byte)
             V == Seq(Seq(Byte))
             size == [b \in D |-> Len(b)]
             stop == {b \in D : IterStops(b)}
             start == [b \in D |-> << >>]
             next == [b \in D |-> IterOn(b)]
             comb == [p \in D \X V |-> IF IterStops(p[1]) THEN << >> ELSE IterGives(p[1]) \o p[2]]
  <1>1. size \in [D -> Nat]
    <2>1. \A b \in D : Len(b) \in Nat
      OBVIOUS
    <2> QED
      BY <2>1, Zenon
  <1>2. start \in [D -> V]
    <2>1. << >> \in V
      OBVIOUS
    <2> QED
      BY <2>1, Zenon
  <1>3. comb \in [D \X V -> V]
    <2>1. ASSUME NEW b \in D, NEW v \in V
          PROVE  (IF IterStops(b) THEN << >> ELSE IterGives(b) \o v) \in V
      <3>1. CASE IterStops(b)
        BY <3>1
      <3>2. CASE ~IterStops(b)
        <4>1. IterGives(b) \in V
          BY <3>2, IterShorter
        <4>2. IterGives(b) \o v \in V
          BY <4>1, ConcatProperties
        <4> QED
          BY <3>2, <4>2, Zenon
      <3> QED
        BY <3>1, <3>2
    <2>2. \A p \in D \X V : (IF IterStops(p[1]) THEN << >> ELSE IterGives(p[1]) \o p[2]) \in V
      <3> TAKE p \in D \X V
      <3>1. p[1] \in D /\ p[2] \in V
        OBVIOUS
      <3> QED
        BY <2>1, <3>1, Zenon
    <2> QED
      BY <2>2, Zenon
  <1>4. Shrinks(D, size, stop, next)
    <2> SUFFICES ASSUME NEW b \in D, b \notin stop
                 PROVE  next[b] \in D /\ size[next[b]] < size[b]
      BY Zenon DEF Shrinks
    <2>1. IterOn(b) \in D /\ Len(IterOn(b)) < Len(b)
      BY IterShorter
    <2>2. next[b] = IterOn(b) /\ size[b] = Len(b) /\ size[IterOn(b)] = Len(IterOn(b))
      BY <2>1, Zenon
    <2> QED
      BY <2>1, <2>2, Zenon
  <1>5. PICK f \in [D -> V] : \A b \in D : f[b] = Unfold(f, b, stop, start, next, comb)
    <2> HIDE DEF D, V, size, stop, start, next, comb
    <2>1. Recursion(D, V, size, stop, start, next, comb)
      BY <1>1, <1>2, <1>3, <1>4, Zenon DEF Recursion
    <2>2. Solvable(D, V, stop, start, next, comb)
      BY <2>1, RecursionDefines
    <2> QED
      BY <2>2, Zenon DEF Solvable
  <1>6. ASSUME NEW b \in D PROVE f[b] = IterStep(f, b)
    <2>1. CASE IterStops(b)
      <3>1. b \in stop /\ start[b] = << >>
        BY <2>1
      <3>2. f[b] = start[b]
        <4> HIDE DEF D, V, stop, start, next, comb
        <4> QED
          BY <1>5, <1>6, <3>1, Zenon DEF Unfold
      <3> QED
        BY <2>1, <3>1, <3>2, Zenon DEF IterStep, IterStops
    <2>2. CASE ~IterStops(b)
      <3>1. b \notin stop /\ next[b] = IterOn(b) /\ IterOn(b) \in D
        BY <2>2, IterShorter
      <3>2. PICK v : v = f[IterOn(b)]
        OBVIOUS
      <3>3. v \in V
        BY <3>1, <3>2
      <3>4. f[b] = comb[<<b, v>>]
        <4> HIDE DEF D, V, stop, start, next, comb
        <4> QED
          BY <1>5, <1>6, <3>1, <3>2, Zenon DEF Unfold
      <3>5. comb[<<b, v>>] = IterGives(b) \o v
        <4>1. <<b, v>> \in D \X V
          BY <3>3
        <4>2. comb[<<b, v>>] = IF IterStops(<<b, v>>[1]) THEN << >> ELSE IterGives(<<b, v>>[1]) \o <<b, v>>[2]
          BY <4>1, Zenon
        <4>3. <<b, v>>[1] = b /\ <<b, v>>[2] = v
          OBVIOUS
        <4> QED
          BY <2>2, <4>2, <4>3, Zenon
      <3>6. << >> \o v = v
        BY <3>3, ConcatEmptySeq
      <3>7. CASE b[1] # Preamble
        <4>1. IterGives(b) = << >> /\ v = f[Tail(b)]
          BY <3>2, <3>7, Zenon DEF IterGives, IterOn
        <4> QED
          BY <2>2, <3>4, <3>5, <3>6, <3>7, <4>1, Zenon DEF IterStep, IterStops
      <3>8. CASE b[1] = Preamble
        <4>1. v = f[From(b, ClaimedSize(b))]
          BY <3>2, <3>8, Zenon DEF IterOn
        <4>2. IterGives(b) = IF ClaimedLength(b) >= 2 THEN <<ClaimedPayload(b)>> ELSE << >>
          BY <3>8, Zenon DEF IterGives
        <4> QED
          BY <2>2, <3>4, <3>5, <3>8, <4>1, <4>2, Zenon DEF IterStep, IterStops
      <3> QED
        BY <3>7, <3>8
    <2> QED
      BY <2>1, <2>2
  <1>7. f = [b \in Seq(Byte) |-> IterStep(f, b)]
    BY <1>6, Zenon
  <1> QED
    BY <1>7 DEF iter_rtcm, IterStep, From, ClaimedLength, ClaimedSize, ClaimedPayload

\* The payload of a frame as the framer cut it.
PayloadOf(f) == SubSeq(f, HeaderSize + 1, Len(f) - CrcSize)

\* On a frame the two parsers agree: the mask has nothing to take away.
LEMMA ParsersAgree ==
    ASSUME NEW f \in GoodFrames
    PROVE  /\ f \in Seq(Byte) /\ ~(Len(f) <= HeaderSize) /\ f[1] = Preamble
           /\ ClaimedLength(f) \in Nat /\ ClaimedSize(f) = Len(f)
           /\ ClaimedPayload(f) = PayloadOf(f)
           /\ Len(PayloadOf(f)) = ClaimedLength(f)
  <1>1. /\ f \in Seq(Byte) /\ Len(f) \in Nat /\ Len(f) >= 3 /\ Len(f) = FrameSize(f)
        /\ f[1] = Preamble /\ f[2] \notin Reserved
    BY DEF GoodFrames, Header, HeaderSize
  <1>2. f[2] \in Byte /\ f[3] \in Byte
    <2>1. 2 \in 1 .. Len(f) /\ 3 \in 1 .. Len(f)
      BY <1>1
    <2> QED
      BY <1>1, <2>1
  <1>3. ~(Len(f) <= HeaderSize)
    BY <1>1, <1>2, HeaderFrameSize DEF HeaderSize
  <1>4. f[2] % 2 = f[2]
    BY <1>1, <1>2, BaseAssumption, Zenon
  <1>5. PICK l : l = ClaimedLength(f)
    OBVIOUS
  <1>6. l \in Nat /\ ClaimedSize(f) = 4 + l
    BY <1>1, <1>3, <1>5, ClaimedNat
  <1>7. l = f[2] * HiStep + f[3]
    BY <1>4, <1>5, Zenon DEF ClaimedLength
  <1>8. Len(f) = 4 + l
    <2>1. PICK x \in Nat : x = f[2] * HiStep
      BY <1>2, FramerAssumption DEF Byte
    <2>2. PICK y \in Nat : y = f[3]
      BY <1>2, FramerAssumption DEF Byte
    <2>3. FrameSize(f) = 3 + x + y + 1
      BY <2>1, <2>2, Zenon DEF FrameSize, HeaderSize, CrcSize
    <2>4. l = x + y
      BY <1>7, <2>1, <2>2, Zenon
    <2> QED
      BY <1>1, <2>3, <2>4
  <1>9. HeaderSize + l = Len(f) - CrcSize
    BY <1>6, <1>8 DEF HeaderSize, CrcSize
  <1>10. ClaimedPayload(f) = PayloadOf(f)
    BY <1>5, <1>9, Zenon DEF ClaimedPayload, PayloadOf
  <1>11. Len(SubSeq(f, 3 + 1, 3 + l)) = l
    <2>1. 3 + l \in Nat /\ 3 + 1 \in Nat /\ 3 + 1 <= (3 + l) + 1 /\ \A i \in 3 + 1 .. 3 + l : i \in 1 .. Len(f)
      BY <1>6, <1>8
    <2>2. Len(SubSeq(f, 3 + 1, 3 + l)) = IF 3 + 1 <= 3 + l THEN (3 + l) - (3 + 1) + 1 ELSE 0
      BY <1>1, <2>1, SubSeqProperties
    <2> QED
      BY <1>6, <2>2
  <1>12. PayloadOf(f) = SubSeq(f, 3 + 1, 3 + l)
    BY <1>5, <1>10, Zenon DEF ClaimedPayload, HeaderSize
  <1> QED
    BY <1>1, <1>3, <1>5, <1>6, <1>8, <1>10, <1>11, <1>12

\* So the second one gets the payload out, if it says something.
LEMMA FrameParsed ==
    ASSUME NEW f \in GoodFrames
    PROVE  iter_rtcm[f] = IF Len(PayloadOf(f)) >= 2 THEN <<PayloadOf(f)>> ELSE << >>
  <1>1. /\ f \in Seq(Byte) /\ ~(Len(f) <= HeaderSize) /\ f[1] = Preamble
        /\ ClaimedLength(f) \in Nat /\ ClaimedSize(f) = Len(f)
        /\ ClaimedPayload(f) = PayloadOf(f)
        /\ Len(PayloadOf(f)) = ClaimedLength(f)
    BY ParsersAgree
  <1>2. From(f, Len(f)) = << >>
    BY <1>1, FromSeq, EmptySeq
  <1>3. iter_rtcm[<< >>] = << >>
    <2>1. << >> \in Seq(Byte) /\ Len(<< >>) <= HeaderSize
      BY DEF HeaderSize
    <2>2. iter_rtcm[<< >>] = IterStep(iter_rtcm, << >>)
      BY <2>1, IterEquation, Zenon
    <2> QED
      BY <2>1, <2>2, Zenon DEF IterStep
  <1>4. Fits(ClaimedSize(f), f)
    BY <1>1 DEF Fits
  <1>5. iter_rtcm[f] = IterStep(iter_rtcm, f)
    BY <1>1, IterEquation, Zenon
  <1>6. PICK q : q = PayloadOf(f)
    OBVIOUS
  <1>7. iter_rtcm[f] = (IF Len(q) >= 2 THEN <<q>> ELSE << >>) \o << >>
    BY <1>1, <1>2, <1>3, <1>4, <1>5, <1>6, Zenon DEF IterStep
  <1>8. <<q>> \o << >> = <<q>> /\ << >> \o << >> = << >>
    OBVIOUS
  <1> QED
    BY <1>6, <1>7, <1>8, Zenon

\* What one payload tells.
Told(k, p) ==
    [types   |-> k.types \cup {p[1]},
     frames  |-> k.frames + 1,
     base    |-> IF IsStation(p) THEN p ELSE k.base,
     antenna |-> IF ~HasAntenna(p) THEN k.antenna
                 ELSE SubSeq(p, CountAt + 1, CountAt + p[CountAt])]

LEMMA NothingTold == ASSUME NEW k PROVE Learn(k, << >>) = k
  <1> DEFINE g == [i \in 0 .. Len(<< >>) |-> k]
  <1>0. Len(<< >>) = 0 /\ \A i \in 0 .. 0 : i = 0
    OBVIOUS
  <1>1. g = [i \in 0 .. Len(<< >>) |-> IF i = 0 THEN k ELSE Told(g[i - 1], << >>[i])]
    BY <1>0
  <1>2. PICK after : /\ after = [i \in 0 .. Len(<< >>) |-> IF i = 0 THEN k ELSE Told(after[i - 1], << >>[i])]
                     /\ Learn(k, << >>) = after[Len(<< >>)]
    <2> HIDE DEF g
    <2> QED
      BY <1>1, Zenon DEF Learn, Told
  <1> QED
    BY <1>0, <1>2

LEMMA OneTold == ASSUME NEW k, NEW p PROVE Learn(k, <<p>>) = Told(k, p)
  <1> DEFINE ps == <<p>>
             g == [i \in 0 .. Len(ps) |-> IF i = 0 THEN k ELSE Told(k, p)]
  <1>0. Len(ps) = 1 /\ ps[1] = p /\ 0 \in 0 .. 1 /\ 1 \in 0 .. 1 /\ 1 - 1 = 0 /\ \A i \in 0 .. 1 : i = 0 \/ i = 1
    OBVIOUS
  <1>1. g = [i \in 0 .. Len(ps) |-> IF i = 0 THEN k ELSE Told(g[i - 1], ps[i])]
    <2>1. g[0] = k
      BY <1>0
    <2>2. \A i \in 0 .. 1 : (IF i = 0 THEN k ELSE Told(g[i - 1], ps[i])) = IF i = 0 THEN k ELSE Told(k, p)
      <3> HIDE DEF g, ps
      <3> QED
        BY <1>0, <2>1
    <2> QED
      BY <1>0, <2>2
  <1>2. PICK after : /\ after = [i \in 0 .. Len(ps) |-> IF i = 0 THEN k ELSE Told(after[i - 1], ps[i])]
                     /\ Learn(k, ps) = after[Len(ps)]
    <2> HIDE DEF g, ps
    <2> QED
      BY <1>1, Zenon DEF Learn, Told
  <1>3. after[0] = k
    BY <1>0, <1>2
  <1>4. after[1] = Told(after[1 - 1], ps[1])
    <2> HIDE DEF ps
    <2> QED
      BY <1>0, <1>2
  <1> QED
    BY <1>0, <1>2, <1>3, <1>4, Zenon

\* Where in a hearing h there is one of the frames F.
Places(h, F) == {i \in 1 .. Len(h) : h[i] \in F}

\* The frames that say something, and those that describe the station.
Speaking == {f \in GoodFrames : Len(PayloadOf(f)) >= 2}
Describing == {f \in Speaking : IsStation(PayloadOf(f))}

\* What was learned from a hearing, without regard to when it was heard.
Counted(h, n) == n = Cardinality(Places(h, Speaking))
Seen(h, ty) == ty = {PayloadOf(h[i])[1] : i \in Places(h, Speaking)}
Located(h, at) ==
    \/ Places(h, Describing) = {} /\ at = << >>
    \/ \E i \in Places(h, Describing) :
        (\A j \in Places(h, Describing) : j <= i) /\ at = PayloadOf(h[i])
Learned(h, k) == Counted(h, k.frames) /\ Seen(h, k.types) /\ Located(h, k.base)

\* They are where they were when one message more has been heard.
Grown(h, m, F) ==
    /\ Places(Append(h, m), F)
         = IF m \in F THEN Places(h, F) \cup {Len(h) + 1} ELSE Places(h, F)
    /\ Append(h, m)[Len(h) + 1] = m
    /\ \A i \in Places(h, F) : /\ Append(h, m)[i] = h[i] /\ i \in Nat
                               /\ i <= Len(h) /\ i # Len(h) + 1
    /\ IsFiniteSet(Places(h, F)) /\ Len(h) \in Nat

LEMMA PlacesGrow ==
    ASSUME NEW h \in Seq(GoodFrames), NEW m \in GoodFrames, NEW F
    PROVE  Grown(h, m, F)
  <1>1. PICK g : g = Append(h, m)
    OBVIOUS
  <1>2. /\ Len(g) = Len(h) + 1 /\ (\A i \in 1 .. Len(h) : g[i] = h[i])
        /\ g[Len(h) + 1] = m /\ Len(h) \in Nat
    BY <1>1, AppendProperties
  <1>3. \A i \in 1 .. Len(g) : i \in 1 .. Len(h) \/ i = Len(h) + 1
    BY <1>2
  <1>4. \A i \in 1 .. Len(h) : i \in 1 .. Len(g) /\ i \in Nat /\ i <= Len(h) /\ i # Len(h) + 1
    BY <1>2
  <1>5. Len(h) + 1 \in 1 .. Len(g)
    BY <1>2
  <1>6. Places(g, F) = IF m \in F THEN Places(h, F) \cup {Len(h) + 1} ELSE Places(h, F)
    <2>1. \A i : i \in Places(g, F) <=> i \in Places(h, F) \/ (i = Len(h) + 1 /\ m \in F)
      BY <1>2, <1>3, <1>4, <1>5, Zenon DEF Places
    <2> QED
      BY <2>1
  <1>7. IsFiniteSet(Places(h, F))
    <2>1. IsFiniteSet(1 .. Len(h)) /\ Places(h, F) \in SUBSET (1 .. Len(h))
      BY <1>2, FS_Interval DEF Places
    <2> QED
      BY <2>1, FS_Subset
  <1> QED
    BY <1>1, <1>2, <1>4, <1>6, <1>7, Zenon DEF Grown, Places

\* A message that says nothing leaves all as it was; what another tells is
\* true of the longer hearing.
LEMMA HearsSilence ==
    ASSUME NEW h \in Seq(GoodFrames), NEW m \in GoodFrames, m \notin Speaking,
           NEW k, Learned(h, k)
    PROVE  Learned(Append(h, m), k)
  <1>1. PICK g : g = Append(h, m)
    OBVIOUS
  <1>2. m \notin Describing
    BY DEF Describing
  <1>3. /\ Places(g, Speaking) = Places(h, Speaking)
        /\ \A i \in Places(h, Speaking) : g[i] = h[i]
    <2>1. Grown(h, m, Speaking)
      BY PlacesGrow
    <2> QED
      BY <1>1, <2>1, Zenon DEF Grown
  <1>4. /\ Places(g, Describing) = Places(h, Describing)
        /\ \A i \in Places(h, Describing) : g[i] = h[i]
    <2>1. Grown(h, m, Describing)
      BY PlacesGrow
    <2> QED
      BY <1>1, <1>2, <2>1, Zenon DEF Grown
  <1>5. Counted(g, k.frames)
    BY <1>3, Zenon DEF Learned, Counted
  <1>6. Seen(g, k.types)
    <2>1. {PayloadOf(g[i])[1] : i \in Places(h, Speaking)}
            = {PayloadOf(h[i])[1] : i \in Places(h, Speaking)}
      BY <1>3, Zenon
    <2> QED
      BY <1>3, <2>1, Zenon DEF Learned, Seen
  <1>7. Located(g, k.base)
    BY <1>4, Zenon DEF Learned, Located
  <1> QED
    BY <1>1, <1>5, <1>6, <1>7 DEF Learned

LEMMA HearsSpeech ==
    ASSUME NEW h \in Seq(GoodFrames), NEW m \in Speaking, NEW k, Learned(h, k)
    PROVE  Learned(Append(h, m), Told(k, PayloadOf(m)))
  <1>1. PICK g : g = Append(h, m)
    OBVIOUS
  <1>2. PICK q : q = PayloadOf(m)
    OBVIOUS
  <1>3. m \in GoodFrames /\ (m \in Describing <=> IsStation(q))
    BY <1>2 DEF Speaking, Describing
  <1>4. PICK L : L = Len(h) + 1
    OBVIOUS
  <1>5. /\ Places(g, Speaking) = Places(h, Speaking) \cup {L} /\ g[L] = m
        /\ (\A i \in Places(h, Speaking) : g[i] = h[i] /\ i # L)
        /\ IsFiniteSet(Places(h, Speaking))
    <2>1. Grown(h, m, Speaking)
      BY <1>3, PlacesGrow
    <2> QED
      BY <1>1, <1>4, <2>1, Zenon DEF Grown
  <1>6. /\ Places(g, Describing) = IF IsStation(q) THEN Places(h, Describing) \cup {L}
                                   ELSE Places(h, Describing)
        /\ \A i \in Places(h, Describing) : g[i] = h[i] /\ i <= L /\ i \in Nat
        /\ L \in Nat
    <2>1. /\ Places(g, Describing) = IF m \in Describing THEN Places(h, Describing) \cup {L}
                                     ELSE Places(h, Describing)
          /\ \A i \in Places(h, Describing) : g[i] = h[i] /\ i <= Len(h) /\ i \in Nat
          /\ Len(h) \in Nat
      <3>1. Grown(h, m, Describing)
        BY <1>3, PlacesGrow
      <3> QED
        BY <1>1, <1>4, <3>1, Zenon DEF Grown
    <2>2. L \in Nat /\ \A i \in Places(h, Describing) : i <= L
      BY <1>4, <2>1
    <2> QED
      BY <1>3, <2>1, <2>2, Zenon
  <1>7. /\ Told(k, q).frames = k.frames + 1 /\ Told(k, q).types = k.types \cup {q[1]}
        /\ Told(k, q).base = IF IsStation(q) THEN q ELSE k.base
    BY DEF Told
  <1>8. Counted(g, Told(k, q).frames)
    <2>1. L \notin Places(h, Speaking)
      BY <1>5, Zenon
    <2>2. Cardinality(Places(h, Speaking) \cup {L}) = Cardinality(Places(h, Speaking)) + 1
      BY <1>5, <2>1, FS_AddElement
    <2> QED
      BY <1>5, <1>7, <2>2, Zenon DEF Learned, Counted
  <1>9. Seen(g, Told(k, q).types)
    <2>1. {PayloadOf(g[i])[1] : i \in Places(h, Speaking) \cup {L}}
            = {PayloadOf(h[i])[1] : i \in Places(h, Speaking)} \cup {q[1]}
      <3> DEFINE A == {PayloadOf(g[i])[1] : i \in Places(h, Speaking) \cup {L}}
                 B == {PayloadOf(h[i])[1] : i \in Places(h, Speaking)}
      <3>1. ASSUME NEW x \in A PROVE x \in B \cup {q[1]}
        <4>1. PICK i \in Places(h, Speaking) \cup {L} : x = PayloadOf(g[i])[1]
          BY <3>1, Zenon
        <4>2. CASE i = L
          BY <1>2, <1>5, <4>1, <4>2, Zenon
        <4>3. CASE i \in Places(h, Speaking)
          BY <1>5, <4>1, <4>3, Zenon
        <4> QED
          BY <4>2, <4>3
      <3>2. q[1] \in A
        BY <1>2, <1>5, Zenon
      <3>3. ASSUME NEW x \in B PROVE x \in A
        <4>1. PICK i \in Places(h, Speaking) : x = PayloadOf(h[i])[1]
          BY <3>3, Zenon
        <4>2. i \in Places(h, Speaking) \cup {L} /\ x = PayloadOf(g[i])[1]
          BY <1>5, <4>1, Zenon
        <4> QED
          BY <4>2, Zenon
      <3>4. A = B \cup {q[1]}
        <4> HIDE DEF A, B
        <4> QED
          BY <3>1, <3>2, <3>3
      <3> QED
        BY <3>4, Zenon
    <2> QED
      BY <1>5, <1>7, <2>1, Zenon DEF Learned, Seen
  <1>10. Located(g, Told(k, q).base)
    <2>1. CASE IsStation(q)
      <3>1. L \in Places(g, Describing) /\ (\A j \in Places(g, Describing) : j <= L)
        BY <1>6, <2>1
      <3>2. Told(k, q).base = PayloadOf(g[L])
        BY <1>2, <1>5, <1>7, <2>1, Zenon
      <3> QED
        BY <3>1, <3>2, Zenon DEF Located
    <2>2. CASE ~IsStation(q)
      <3>1. /\ Places(g, Describing) = Places(h, Describing)
            /\ \A i \in Places(h, Describing) : g[i] = h[i]
        BY <1>6, <2>2, Zenon
      <3>2. Told(k, q).base = k.base
        BY <1>7, <2>2, Zenon
      <3> QED
        BY <3>1, <3>2, Zenon DEF Learned, Located
    <2> QED
      BY <2>1, <2>2
  <1> QED
    BY <1>1, <1>2, <1>8, <1>9, <1>10, Zenon DEF Learned

LEMMA HearsOne ==
    ASSUME NEW h \in Seq(GoodFrames), NEW m \in GoodFrames, NEW k, Learned(h, k)
    PROVE  Learned(Append(h, m), Learn(k, iter_rtcm[m]))
  <1>1. PICK q : q = PayloadOf(m)
    OBVIOUS
  <1>2. iter_rtcm[m] = IF Len(q) >= 2 THEN <<q>> ELSE << >>
    BY <1>1, FrameParsed, Zenon
  <1>3. CASE m \in Speaking
    <2>1. iter_rtcm[m] = <<q>>
      BY <1>1, <1>2, <1>3 DEF Speaking
    <2>2. Learn(k, iter_rtcm[m]) = Told(k, q)
      BY <2>1, OneTold, Zenon
    <2> QED
      BY <1>1, <1>3, <2>2, HearsSpeech, Zenon
  <1>4. CASE m \notin Speaking
    <2>1. iter_rtcm[m] = << >>
      BY <1>1, <1>2, <1>4 DEF Speaking
    <2>2. Learn(k, iter_rtcm[m]) = k
      BY <2>1, NothingTold, Zenon
    <2> QED
      BY <1>4, <2>2, HearsSilence, Zenon
  <1> QED
    BY <1>3, <1>4

\* Everything a relay publishes is a frame; so is everything that waits for
\* the tool or was heard by it, and what it knows is what that told.
AllFrames == heard \in Seq(GoodFrames) /\ queue \in Seq(GoodFrames)
Knows == [types |-> types, frames |-> frames, base |-> base, antenna |-> antenna]
BaseIInv == FedSoFar /\ AllFrames /\ Learned(heard, Knows)

LEMMA FedIsGood == ASSUME FedSoFar PROVE out \in Seq(GoodFrames)
  <1>1. PICK b : b = SubSeq(wire, 1, got)
    OBVIOUS
  <1>2. wire \in Prefixes /\ got \in 0 .. Len(wire) /\ out = Framing(b).frames
    BY <1>1 DEF FedSoFar
  <1>3. b \in Seq(Byte)
    BY <1>1, <1>2, PrefixesClosed, FrontSeq
  <1> QED
    BY <1>2, <1>3, FramesGood DEF Framing

\* A hearing that has nothing tells nothing.
LEMMA HearsNothing ==
    ASSUME NEW k, k.frames = 0, k.types = {}, k.base = << >>
    PROVE  Learned(<< >>, k)
  <1>1. Places(<< >>, Speaking) = {} /\ Places(<< >>, Describing) = {}
    BY DEF Places
  <1>2. Cardinality({}) = 0
    BY FS_EmptySet
  <1>3. {PayloadOf(<< >>[i])[1] : i \in {}} = {}
    OBVIOUS
  <1> QED
    BY <1>1, <1>2, <1>3, Zenon DEF Learned, Counted, Seen, Located

\* A later part of a sequence of frames has frames only.
LEMMA LaterFrames ==
    ASSUME NEW s \in Seq(GoodFrames), NEW n \in Nat
    PROVE  SubSeq(s, n + 1, Len(s)) \in Seq(GoodFrames)
  <1>1. /\ Len(s) \in Nat /\ n + 1 \in Int /\ Len(s) \in Int
        /\ \A i \in n + 1 .. Len(s) : s[i] \in GoodFrames
    OBVIOUS
  <1> QED
    BY <1>1, SubSeqProperties

LEMMA InitKnows == BaseInit => BaseIInv
  <1> SUFFICES ASSUME BaseInit PROVE BaseIInv
    OBVIOUS
  <1>1. FedSoFar
    BY InitFed, FramerLawHolds DEF BaseInit
  <1>2. heard = << >> /\ queue = << >> /\ types = {} /\ frames = 0 /\ base = << >>
    BY DEF BaseInit
  <1>3. AllFrames
    BY <1>2 DEF AllFrames
  <1>4. Knows.frames = 0 /\ Knows.types = {} /\ Knows.base = << >>
    BY <1>2 DEF Knows
  <1>5. Learned(<< >>, Knows)
    BY <1>4, HearsNothing
  <1> QED
    BY <1>1, <1>2, <1>3, <1>5, Zenon DEF BaseIInv

LEMMA NextKnows == BaseIInv /\ [BaseNext]_<<vars, toolVars>> => BaseIInv'
  <1> SUFFICES ASSUME BaseIInv, [BaseNext]_<<vars, toolVars>> PROVE BaseIInv'
    OBVIOUS
  <1>1. FedSoFar /\ heard \in Seq(GoodFrames) /\ queue \in Seq(GoodFrames) /\ Learned(heard, Knows)
    BY DEF BaseIInv, AllFrames
  <1>2. FedSoFar'
    <2>1. [Next]_vars
      BY DEF BaseNext, RelayStep, Start, on_rtcm, on_fix, main
    <2> QED
      BY <1>1, <2>1, NextFed, FramerLawHolds
  <1>3. CASE RelayStep
    <2>1. UNCHANGED <<tool, heard, known, rover>>
      BY <1>3 DEF RelayStep
    <2>2. heard' = heard /\ Knows' = Knows
      BY <2>1 DEF known, Knows
    <2>3. queue' \in Seq(GoodFrames)
      <3> DEFINE new == SubSeq(out', Len(out) + 1, Len(out'))
                 all == queue \o new
                 lost == IF Len(all) > Depth THEN Len(all) - Depth ELSE 0
      <3>1. queue' = IF tool = "listening" THEN SubSeq(all, lost + 1, Len(all)) ELSE queue
        BY <1>3, Zenon DEF RelayStep
      <3>2. out \in Seq(GoodFrames) /\ out' \in Seq(GoodFrames)
        <4>1. out \in Seq(GoodFrames)
          BY <1>1, FedIsGood
        <4>2. (FedSoFar => out \in Seq(GoodFrames))'
          BY FedIsGood, PTL
        <4> QED
          BY <1>2, <4>1, <4>2
      <3>3. new \in Seq(GoodFrames)
        <4>1. Len(out) \in Nat
          BY <3>2
        <4> QED
          BY <3>2, <4>1, LaterFrames
      <3>4. all \in Seq(GoodFrames)
        <4> HIDE DEF new
        <4> QED
          BY <1>1, <3>3, ConcatProperties
      <3>5. lost \in Nat
        <4>1. Len(all) \in Nat
          <5> HIDE DEF all
          <5> QED
            BY <3>4
        <4> HIDE DEF all
        <4> QED
          BY <4>1, BaseAssumption
      <3>6. SubSeq(all, lost + 1, Len(all)) \in Seq(GoodFrames)
        <4> HIDE DEF all, lost
        <4> QED
          BY <3>4, <3>5, LaterFrames
      <3> HIDE DEF all, lost
      <3> QED
        BY <1>1, <3>1, <3>6, Zenon
    <2> QED
      BY <1>1, <1>2, <2>2, <2>3, Zenon DEF BaseIInv, AllFrames
  <1>4. CASE Start \/ on_fix \/ UNCHANGED <<vars, toolVars>>
    <2>1. UNCHANGED <<queue, heard, known>>
      BY <1>4 DEF Start, on_fix, toolVars
    <2>2. heard' = heard /\ queue' = queue /\ Knows' = Knows
      BY <2>1 DEF known, Knows
    <2> QED
      BY <1>1, <1>2, <2>2, Zenon DEF BaseIInv, AllFrames
  <1>5. CASE on_rtcm
    <2>1. /\ queue # << >> /\ queue' = Tail(queue) /\ heard' = Append(heard, Head(queue))
          /\ LET k == Learn(Knows, iter_rtcm[Head(queue)])
             IN  types' = k.types /\ frames' = k.frames /\ base' = k.base
      BY <1>5 DEF on_rtcm, Knows
    <2>2. PICK m : m = Head(queue)
      OBVIOUS
    <2>3. PICK k : k = Learn(Knows, iter_rtcm[m])
      OBVIOUS
    <2>4. m \in GoodFrames /\ queue' \in Seq(GoodFrames)
      BY <1>1, <2>1, <2>2, HeadTailProperties
    <2>5. heard' = Append(heard, m) /\ types' = k.types /\ frames' = k.frames /\ base' = k.base
      BY <2>1, <2>2, <2>3
    <2>6. heard' \in Seq(GoodFrames)
      BY <1>1, <2>4, <2>5, AppendProperties
    <2>7. Learned(Append(heard, m), k)
      BY <1>1, <2>3, <2>4, HearsOne, Zenon
    <2>8. Knows'.types = k.types /\ Knows'.frames = k.frames /\ Knows'.base = k.base
      BY <2>5 DEF Knows
    <2>9. Learned(heard', Knows')
      BY <2>5, <2>7, <2>8, Zenon DEF Learned
    <2> QED
      BY <1>2, <2>4, <2>6, <2>9, Zenon DEF BaseIInv, AllFrames
  <1>6. CASE main
    <2>1. heard' = << >> /\ queue' = << >> /\ types' = {} /\ frames' = 0 /\ base' = << >>
      BY <1>6 DEF main
    <2>2. Knows'.frames = 0 /\ Knows'.types = {} /\ Knows'.base = << >>
      BY <2>1 DEF Knows
    <2>3. PICK k : k = Knows'
      OBVIOUS
    <2>4. Learned(<< >>, k)
      BY <2>2, <2>3, HearsNothing
    <2>5. << >> \in Seq(GoodFrames)
      OBVIOUS
    <2> QED
      BY <1>2, <2>1, <2>3, <2>4, <2>5, Zenon DEF BaseIInv, AllFrames
  <1> QED
    BY <1>3, <1>4, <1>5, <1>6 DEF BaseNext

\* What the invariant says of the report.
LEMMA KnowsReports == ASSUME BaseIInv PROVE BaseReported
  <1>1. /\ heard \in Seq(GoodFrames) /\ Counted(heard, frames)
        /\ Seen(heard, types) /\ Located(heard, base)
    BY DEF BaseIInv, AllFrames, Learned, Knows
  <1>2. \A i \in 1 .. Len(heard) : heard[i] \in GoodFrames /\ Payloads[i] = PayloadOf(heard[i])
    <2>1. \A i \in 1 .. Len(heard) : heard[i] \in GoodFrames
      BY <1>1
    <2> QED
      BY <2>1, Zenon DEF Payloads, PayloadOf
  <1>3. Telling = Places(heard, Speaking)
    <2>1. \A i : i \in Telling <=> i \in Places(heard, Speaking)
      BY <1>2, Zenon DEF Telling, Places, Speaking
    <2> QED
      BY <2>1
  <1>4. Stations = Places(heard, Describing)
    <2>1. \A i : i \in Stations <=> i \in Telling /\ IsStation(Payloads[i])
      BY Zenon DEF Stations
    <2>2. \A i : i \in Places(heard, Describing)
                    <=> i \in Places(heard, Speaking) /\ IsStation(PayloadOf(heard[i]))
      BY Zenon DEF Places, Describing
    <2>3. \A i \in Telling : Payloads[i] = PayloadOf(heard[i])
      BY <1>2, Zenon DEF Telling
    <2>4. \A i : i \in Stations <=> i \in Places(heard, Describing)
      BY <1>3, <2>1, <2>2, <2>3, Zenon
    <2> QED
      BY <2>4
  <1>5. types = {Payloads[i][1] : i \in Telling}
    <2>1. {Payloads[i][1] : i \in Telling} = {PayloadOf(heard[i])[1] : i \in Telling}
      BY <1>2, Zenon DEF Telling
    <2> QED
      BY <1>1, <1>3, <2>1, Zenon DEF Seen
  <1>6. frames = Cardinality(Telling)
    BY <1>1, <1>3, Zenon DEF Counted
  <1>7. ASSUME NEW i \in Stations
        PROVE  i \in Nat /\ PayloadOf(heard[i]) # << >> /\ Payloads[i] = PayloadOf(heard[i])
    <2>1. i \in 1 .. Len(heard) /\ Len(Payloads[i]) >= 2
      BY Zenon DEF Stations, Telling
    <2>2. Len(Payloads[i]) # 0
      <3>1. Len(PayloadOf(heard[i])) \in Nat
        BY <1>2, <2>1, ParsersAgree
      <3> QED
        BY <1>2, <2>1, <3>1
    <2>3. PayloadOf(heard[i]) # << >>
      <3>1. Len(<< >>) = 0
        OBVIOUS
      <3> QED
        BY <1>2, <2>1, <2>2, <3>1, Zenon
    <2> QED
      BY <1>2, <2>1, <2>3
  <1>8. Stations # {} =>
          base = Payloads[CHOOSE i \in Stations : \A j \in Stations : j <= i]
    <2> SUFFICES ASSUME Stations # {}
                 PROVE  base = Payloads[CHOOSE i \in Stations : \A j \in Stations : j <= i]
      OBVIOUS
    <2>1. PICK i \in Stations : (\A j \in Stations : j <= i) /\ base = PayloadOf(heard[i])
      BY <1>1, <1>4, Zenon DEF Located
    <2>2. PICK c : c = CHOOSE x \in Stations : \A j \in Stations : j <= x
      OBVIOUS
    <2>3. c \in Stations /\ \A j \in Stations : j <= c
      BY <2>1, <2>2, Zenon
    <2>4. c = i
      BY <1>7, <2>1, <2>3
    <2> QED
      BY <1>7, <2>1, <2>2, <2>4, Zenon
  <1>9. base = << >> <=> Stations = {}
    <2>1. CASE Stations = {}
      BY <1>1, <1>4, <2>1, Zenon DEF Located
    <2>2. CASE Stations # {}
      BY <1>1, <1>4, <1>7, <2>2, Zenon DEF Located
    <2> QED
      BY <2>1, <2>2
  <1>10. report = "no base" <=> base = << >>
    BY DEF report
  <1> QED
    BY <1>5, <1>6, <1>8, <1>9, <1>10, Zenon DEF BaseReported

\* The parser of rtcm_base_info, which checks no sum and masks the reserved
\* bits, agrees with the framer on all that is published: whatever was dropped
\* from its queue, every message heard that says something is counted once,
\* and at every moment the report names the base last described, and one at
\* all only if one was.
THEOREM ToolReportsBase == BaseSpec => []BaseReported
  <1>1. BaseInit => BaseIInv
    BY InitKnows
  <1>2. BaseIInv /\ [BaseNext]_<<vars, toolVars>> => BaseIInv'
    BY NextKnows
  <1>3. BaseIInv => BaseReported
    BY KnowsReports
  <1> QED
    BY <1>1, <1>2, <1>3, PTL DEF BaseSpec
=============================================================================
