-------------------------- MODULE ImuDriverProofs ---------------------------
(***************************************************************************)
(* Proofs about the IMU driver, for every block length, every number of    *)
(* attempts and every stream: who owns the port and the read thread, and   *)
(* what a published mean is made of.                                       *)
(***************************************************************************)
EXTENDS ImuDriver, TLAPS

\* What each callback holds of the port and the thread while it waits.
CallOwns ==
    call # None =>
        /\ ~running
        /\ call.pc \in {"drain", "query"} =>
              lc = "unconfigured" /\ fd /\ thread = "none"
        /\ call.pc = "deactivate" => lc = "active" /\ fd /\ thread # "none"
        /\ call.pc = "shutdown" => ~fd

\* The block in hand has samples of the current activation only.
BlockOfOne ==
    /\ block \in [count : 0 .. PublishEveryN - 1, acts : SUBSET {activation}]
    /\ block.count > 0 => block.acts = {activation}

IInv ==
    /\ TypeOK
    /\ LifecycleOwnsIo
    /\ CallOwns
    /\ BlockOfOne
    /\ MeanOfOneActivation

Machine == <<lc, call, fd, running, thread>>


-----------------------------------------------------------------------------
\* Steps that leave the lifecycle and the read thread alone.
LEMMA MachineKept ==
    ASSUME LifecycleOwnsIo, CallOwns, UNCHANGED Machine
    PROVE  LifecycleOwnsIo' /\ CallOwns'
BY DEF LifecycleOwnsIo, CallOwns, Machine

\* Steps that leave the block and what was published alone.
LEMMA BlockKept ==
    ASSUME BlockOfOne, MeanOfOneActivation, UNCHANGED <<block, pub, activation>>
    PROVE  BlockOfOne' /\ MeanOfOneActivation'
BY DEF BlockOfOne, MeanOfOneActivation

\* A record of a waiting callback is not None.
LEMMA WaitingIsNotIdle ==
    ASSUME NEW c \in Calls PROVE c # None
BY DriverAssumption

\* Initially nothing is open and nothing was published.
LEMMA InitIInv == Init => IInv
  <1> SUFFICES ASSUME Init PROVE IInv
    OBVIOUS
  <1>1. TypeOK
    <2>1. got \in Seq(Frames) /\ line \in Seq(Frames) /\ Len(line) <= MaxLine
      BY DriverAssumption DEF Init
    <2>2. block.count \in 0 .. PublishEveryN - 1
      BY DriverAssumption DEF Init, EmptyBlock
    <2>3. samples \in 0 .. ExpectedSamples /\ activation \in 0 .. MaxActivations
      BY DriverAssumption DEF Init
    <2>4. fd \in BOOLEAN /\ running \in BOOLEAN /\ call \in Calls \cup {None}
      BY DEF Init
    <2>5. /\ lc \in {"unconfigured", "inactive", "active", "finalized"}
          /\ thread \in {"none", "check", "enter", "read", "handle", "done"}
          /\ diag \in {"none", "error", "warn", "ok"}
      BY DEF Init
    <2> QED
      BY <2>1, <2>2, <2>3, <2>4, <2>5 DEF TypeOK
  <1>2. LifecycleOwnsIo /\ CallOwns /\ MeanOfOneActivation
    BY DEF Init, LifecycleOwnsIo, CallOwns, MeanOfOneActivation
  <1>3. BlockOfOne
    BY DriverAssumption DEF Init, BlockOfOne, EmptyBlock
  <1> QED
    BY <1>1, <1>2, <1>3 DEF IInv

-----------------------------------------------------------------------------
\* The lifecycle callbacks.
LEMMA ManageIInv == IInv /\ Manage => IInv'
  <1> SUFFICES ASSUME IInv, Manage PROVE IInv'
    OBVIOUS
  <1> USE DriverAssumption
  <1>1. CASE OnConfigure
    <2>1. call' \in Calls /\ call' # None /\ call'.pc = "drain"
      BY <1>1, WaitingIsNotIdle DEF OnConfigure, Calls
    <2>2. TypeOK'
      BY <1>1, <2>1 DEF OnConfigure, IInv, TypeOK, health
    <2>3. LifecycleOwnsIo' /\ CallOwns'
      BY <1>1, <2>1 DEF OnConfigure, IInv, LifecycleOwnsIo, CallOwns
    <2> QED
      BY <1>1, <2>2, <2>3, BlockKept DEF OnConfigure, IInv, health
  <1>2. CASE OnActivate
    <2>1. line' \in Seq(Frames) /\ Len(line') <= MaxLine
      <3>1. line \in Seq(Frames) /\ Len(line) \in Nat /\ Len(line) <= MaxLine
        BY DEF IInv, TypeOK
      <3>2. PICK reply \in {<<>>, <<"bit">>, <<"other">>} :
                line' = IF plugged /\ Len(line) < MaxLine THEN line \o reply ELSE line
        BY <1>2 DEF OnActivate
      <3>3. reply \in Seq(Frames) /\ Len(reply) \in {0, 1}
        <4>1. "bit" \in Frames /\ "other" \in Frames
          BY DEF Frames
        <4>2. CASE reply = <<>>
          BY <4>2
        <4>3. CASE reply = <<"bit">>
          BY <4>1, <4>3
        <4>4. CASE reply = <<"other">>
          BY <4>1, <4>4
        <4> QED
          BY <3>2, <4>2, <4>3, <4>4
      <3>4. line \o reply \in Seq(Frames) /\ Len(line \o reply) = Len(line) + Len(reply)
        BY <3>1, <3>3
      <3> QED
        BY <3>1, <3>2, <3>3, <3>4
    <2>2. TypeOK'
      BY <1>2, <2>1 DEF OnActivate, IInv, TypeOK, EmptyBlock
    <2>3. LifecycleOwnsIo' /\ CallOwns'
      BY <1>2 DEF OnActivate, IInv, LifecycleOwnsIo, CallOwns
    <2>4. BlockOfOne'
      BY <1>2 DEF OnActivate, BlockOfOne, EmptyBlock
    <2>5. MeanOfOneActivation'
      BY <1>2 DEF OnActivate, IInv, MeanOfOneActivation
    <2> QED
      BY <2>2, <2>3, <2>4, <2>5 DEF IInv
  <1>3. CASE OnDeactivate
    <2>1. call' \in Calls /\ call' # None /\ call'.pc = "deactivate"
      BY <1>3, WaitingIsNotIdle DEF OnDeactivate, Calls
    <2>2. TypeOK'
      BY <1>3, <2>1 DEF OnDeactivate, IInv, TypeOK, health
    <2>3. LifecycleOwnsIo' /\ CallOwns'
      BY <1>3, <2>1 DEF OnDeactivate, IInv, LifecycleOwnsIo, CallOwns
    <2> QED
      BY <1>3, <2>2, <2>3, BlockKept DEF OnDeactivate, IInv, health
  <1>4. CASE OnCleanup
    <2>1. TypeOK'
      BY <1>4 DEF OnCleanup, IInv, TypeOK, health, device
    <2>2. LifecycleOwnsIo' /\ CallOwns'
      BY <1>4 DEF OnCleanup, IInv, LifecycleOwnsIo, CallOwns
    <2> QED
      BY <1>4, <2>1, <2>2, BlockKept DEF OnCleanup, IInv, health
  <1>5. CASE OnShutdown
    <2>1. call' \in Calls /\ call' # None /\ call'.pc = "shutdown"
      BY <1>5, WaitingIsNotIdle DEF OnShutdown, Calls
    <2>2. TypeOK'
      BY <1>5, <2>1 DEF OnShutdown, IInv, TypeOK, health, device
    <2>3. LifecycleOwnsIo' /\ CallOwns'
      BY <1>5, <2>1 DEF OnShutdown, IInv, LifecycleOwnsIo, CallOwns
    <2> QED
      BY <1>5, <2>2, <2>3, BlockKept DEF OnShutdown, IInv, health
  <1> QED
    BY <1>1, <1>2, <1>3, <1>4, <1>5 DEF Manage

\* What they wait for.
LEMMA CallStepIInv == IInv /\ CallStep => IInv'
  <1> SUFFICES ASSUME IInv, CallStep PROVE IInv'
    OBVIOUS
  <1> USE DriverAssumption
  <1>1. CASE DrainInput
    <2>1. call' \in Calls /\ call' # None /\ call'.pc \in {"drain", "query"}
            /\ call # None /\ call.pc = "drain"
      <3>1. call \in [pc : {"drain", "query"}, left : 1 .. Attempts]
        BY <1>1 DEF DrainInput, IInv, TypeOK, Calls
      <3>2. CASE UNCHANGED call
        BY <1>1, <3>1, <3>2 DEF DrainInput, Calls
      <3>3. CASE call' = [call EXCEPT !.pc = "query"]
        <4>1. call' \in [pc : {"drain", "query"}, left : 1 .. Attempts]
                /\ call'.pc = "query"
          BY <3>1, <3>3
        <4> QED
          BY <1>1, <4>1, WaitingIsNotIdle DEF DrainInput, Calls
      <3> QED
        BY <1>1, <3>2, <3>3 DEF DrainInput
    <2>2. TypeOK'
      <3>1. line' \in Seq(Frames) /\ Len(line') <= MaxLine
        <4>1. CASE line' = <<>>
          BY <4>1
        <4>2. CASE line' = line
          BY <4>2 DEF IInv, TypeOK
        <4> QED
          BY <1>1, <4>1, <4>2 DEF DrainInput
      <3> QED
        BY <1>1, <2>1, <3>1 DEF DrainInput, IInv, TypeOK, health
    <2>3. LifecycleOwnsIo' /\ CallOwns'
      BY <1>1, <2>1 DEF DrainInput, IInv, LifecycleOwnsIo, CallOwns
    <2> QED
      BY <1>1, <2>2, <2>3, BlockKept DEF DrainInput, IInv, health
  <1>2. ASSUME NEW answered \in BOOLEAN, QueryIdentity(answered) PROVE IInv'
    <2>1. call \in [pc : {"drain", "query"}, left : 1 .. Attempts] /\ call.pc = "query"
      BY <1>2 DEF QueryIdentity, IInv, TypeOK, Calls
    <2>2. CASE answered \/ call.left = 1
      <3>1. TypeOK'
        BY <1>2, <2>2 DEF QueryIdentity, IInv, TypeOK, device
      <3>2. LifecycleOwnsIo' /\ CallOwns'
        BY <1>2, <2>2 DEF QueryIdentity, IInv, LifecycleOwnsIo, CallOwns
      <3> QED
        BY <1>2, <3>1, <3>2, BlockKept DEF QueryIdentity, IInv
    <2>3. CASE ~(answered \/ call.left = 1)
      <3>1. call' = [call EXCEPT !.left = @ - 1] /\ lc' = lc
        BY <1>2, <2>3 DEF QueryIdentity
      <3>2. call' \in [pc : {"drain", "query"}, left : 1 .. Attempts]
              /\ call'.pc = "query"
        BY <2>1, <2>3, <3>1
      <3>3. call' \in Calls /\ call' # None
        BY <3>2, WaitingIsNotIdle DEF Calls
      <3>4. TypeOK'
        BY <1>2, <3>1, <3>3 DEF QueryIdentity, IInv, TypeOK, device
      <3>5. LifecycleOwnsIo' /\ CallOwns'
        BY <1>2, <2>1, <3>1, <3>2, <3>3
        DEF QueryIdentity, IInv, LifecycleOwnsIo, CallOwns
      <3> QED
        BY <1>2, <3>4, <3>5, BlockKept DEF QueryIdentity, IInv
    <2> QED
      BY <2>2, <2>3
  <1>3. CASE DeactivateJoin
    <2>1. TypeOK'
      BY <1>3 DEF DeactivateJoin, IInv, TypeOK, health, device
    <2>2. LifecycleOwnsIo' /\ CallOwns'
      BY <1>3 DEF DeactivateJoin, IInv, LifecycleOwnsIo, CallOwns
    <2> QED
      BY <1>3, <2>1, <2>2, BlockKept DEF DeactivateJoin, IInv, health
  <1>4. CASE ShutdownJoin
    <2>1. TypeOK'
      BY <1>4 DEF ShutdownJoin, IInv, TypeOK, health, device
    <2>2. LifecycleOwnsIo' /\ CallOwns'
      BY <1>4 DEF ShutdownJoin, IInv, LifecycleOwnsIo, CallOwns
    <2> QED
      BY <1>4, <2>1, <2>2, BlockKept DEF ShutdownJoin, IInv, health
  <1> QED
    BY <1>1, <1>2, <1>3, <1>4 DEF CallStep

-----------------------------------------------------------------------------
\* The read thread only moves between places where it is a thread.
LEMMA ThreadMoves ==
    ASSUME IInv, UNCHANGED <<lc, call, fd, running>>, thread # "none",
           thread' # "none"
    PROVE  LifecycleOwnsIo' /\ CallOwns'
BY DEF IInv, LifecycleOwnsIo, CallOwns

\* accumulate_sample: a full block is published and begun anew.
LEMMA AccumulateBlock ==
    ASSUME IInv, Accumulate, activation' = activation
    PROVE  BlockOfOne' /\ MeanOfOneActivation'
  <1> USE DriverAssumption
  <1>1. PICK b : b = [count |-> block.count + 1, acts |-> block.acts \cup {activation}]
    OBVIOUS
  <1>2. /\ block' = IF b.count >= PublishEveryN THEN EmptyBlock ELSE b
        /\ pub' = IF b.count >= PublishEveryN THEN b ELSE pub
    BY <1>1 DEF Accumulate
  <1>3. b.acts = {activation} /\ b.count = block.count + 1
          /\ block.count \in 0 .. PublishEveryN - 1
    BY <1>1 DEF IInv, BlockOfOne
  <1>4. CASE b.count >= PublishEveryN
    <2>1. b.count = PublishEveryN
      BY <1>3, <1>4
    <2>2. MeanOfOneActivation'
      BY <1>2, <1>3, <1>4, <2>1 DEF MeanOfOneActivation
    <2>3. BlockOfOne'
      BY <1>2, <1>4 DEF BlockOfOne, EmptyBlock
    <2> QED
      BY <2>2, <2>3
  <1>5. CASE ~(b.count >= PublishEveryN)
    <2>1. b.count \in 0 .. PublishEveryN - 1
      BY <1>3, <1>5
    <2>2. b \in [count : 0 .. PublishEveryN - 1, acts : SUBSET {activation}]
      BY <1>1, <1>3, <2>1
    <2>3. BlockOfOne'
      BY <1>2, <1>3, <1>5, <2>2 DEF BlockOfOne
    <2>4. MeanOfOneActivation'
      BY <1>2, <1>5 DEF IInv, MeanOfOneActivation
    <2> QED
      BY <2>3, <2>4
  <1> QED
    BY <1>4, <1>5

\* The steps of the read thread.
LEMMA ThreadIInv == IInv /\ (ThreadStep \/ ReadInterrupted) => IInv'
  <1> SUFFICES ASSUME IInv, ThreadStep \/ ReadInterrupted PROVE IInv'
    OBVIOUS
  <1>1. ASSUME LoopCheck \/ ReadEnter \/ ReadError \/ ReadInterrupted \/ FramesHandled
        PROVE  IInv'
    <2>1. /\ UNCHANGED <<lc, call, fd, running, got, block, health, diag, device,
                         activation>>
          /\ thread # "none" /\ thread' # "none"
          /\ thread' \in {"check", "enter", "read", "handle", "done"}
      BY <1>1 DEF LoopCheck, ReadEnter, ReadError, ReadInterrupted, FramesHandled
    <2>2. TypeOK'
      BY <2>1 DEF IInv, TypeOK, health, device
    <2> QED
      BY <2>1, <2>2, ThreadMoves, BlockKept DEF IInv, health
  <1>2. CASE ReadBytes
    <2>1. PICK n \in 1 .. Len(line) : /\ got' = SubSeq(line, 1, n)
                                      /\ line' = SubSeq(line, n + 1, Len(line))
      BY <1>2 DEF ReadBytes
    <2>2. line \in Seq(Frames) /\ Len(line) \in Nat /\ Len(line) <= MaxLine
      BY DEF IInv, TypeOK
    <2>3. got' \in Seq(Frames)
      BY <2>1, <2>2
    <2>4. line' \in Seq(Frames) /\ Len(line') <= MaxLine
      BY <2>1, <2>2, DriverAssumption
    <2>5. TypeOK'
      BY <1>2, <2>3, <2>4 DEF ReadBytes, IInv, TypeOK, health
    <2> QED
      BY <1>2, <2>5, ThreadMoves, BlockKept DEF ReadBytes, IInv, health
  <1>3. CASE HandleFrame
    <2>1. /\ UNCHANGED <<lc, call, fd, running, thread, diag, device, activation>>
          /\ thread # "none"
      BY <1>3 DEF HandleFrame
    <2>2. got' \in Seq(Frames)
      BY <1>3 DEF HandleFrame, IInv, TypeOK
    <2>3. samples' \in 0 .. ExpectedSamples
      BY <1>3, DriverAssumption DEF HandleFrame, IInv, TypeOK, Upto
    <2>4. BlockOfOne' /\ MeanOfOneActivation'
      BY <1>3, <2>1, AccumulateBlock, BlockKept DEF HandleFrame, IInv
    <2>5. TypeOK'
      BY <2>1, <2>2, <2>3, <2>4 DEF IInv, TypeOK, BlockOfOne, device
    <2> QED
      BY <2>1, <2>4, <2>5, ThreadMoves DEF IInv
  <1> QED
    BY <1>1, <1>2, <1>3 DEF ThreadStep

\* The device, the diagnostics and time.
LEMMA RestIInv ==
    IInv /\ (Emit \/ Unplug \/ ProduceDiagnostics \/ Elapse \/ UNCHANGED vars) => IInv'
  <1> SUFFICES ASSUME IInv,
                      Emit \/ Unplug \/ ProduceDiagnostics \/ Elapse \/ UNCHANGED vars
               PROVE  IInv'
    OBVIOUS
  <1>1. UNCHANGED <<lc, call, fd, running, thread, got, block, pub, activation>>
    BY DEF Emit, Unplug, ProduceDiagnostics, Elapse, vars, health
  <1>2. line' \in Seq(Frames) /\ Len(line') <= MaxLine
    <2>1. CASE Emit
      <3>1. PICK f \in Samples : line' = Append(line, f)
        BY <2>1 DEF Emit
      <3>2. line \in Seq(Frames) /\ Len(line) \in Nat /\ f \in Frames
        BY <3>1 DEF IInv, TypeOK, Frames
      <3> QED
        BY <2>1, <3>1, <3>2, DriverAssumption DEF Emit
    <2>2. CASE ~Emit
      BY <2>2 DEF Unplug, ProduceDiagnostics, Elapse, vars, device, IInv, TypeOK
    <2> QED
      BY <2>1, <2>2
  <1>3. samples' \in 0 .. ExpectedSamples
    BY DriverAssumption
    DEF Emit, Unplug, ProduceDiagnostics, Elapse, vars, health, IInv, TypeOK
  <1>4. diag' \in {"none", "error", "warn", "ok"}
    BY DEF Emit, Unplug, ProduceDiagnostics, Elapse, vars, IInv, TypeOK, Summary
  <1>5. TypeOK'
    BY <1>1, <1>2, <1>3, <1>4 DEF IInv, TypeOK
  <1> QED
    BY <1>1, <1>5, MachineKept, BlockKept DEF IInv, Machine

-----------------------------------------------------------------------------
\* The inductive invariant holds throughout.
THEOREM InvariantHolds == Spec => []IInv
  <1>1. IInv /\ [Next]_vars => IInv'
    BY ManageIInv, CallStepIInv, ThreadIInv, RestIInv DEF Next
  <1> QED
    BY <1>1, InitIInv, PTL DEF Spec

\* The node's variables keep their types; the block in hand is never full.
THEOREM TypeCorrect == Spec => []TypeOK
BY InvariantHolds, PTL DEF IInv

\* Between callbacks the port and the read thread are exactly those of the
\* lifecycle state (on_activate, on_deactivate, on_cleanup, on_shutdown).
THEOREM OwnsIo == Spec => []LifecycleOwnsIo
BY InvariantHolds, PTL DEF IInv

\* Every Imu is a mean of publish_every_n samples of one activation, for every
\* publish_every_n (accumulate_sample, publish_block).
THEOREM MeansAreWhole == Spec => []MeanOfOneActivation
BY InvariantHolds, PTL DEF IInv
=============================================================================
