----------------------------- MODULE ImuDriver ------------------------------
(***************************************************************************)
(* The IMU driver (imu_driver_node.cpp): a lifecycle node whose read       *)
(* thread turns the frames of a serial device into averaged Imu messages.  *)
(*                                                                         *)
(* The lifecycle callbacks and the diagnostics run one at a time on a      *)
(* single-threaded executor; `call` is the callback that is waiting for    *)
(* something.  The read thread runs beside them.  A frame on the line is   *)
(* one that passes the parser's checksum; damaged ones are as if never     *)
(* sent.  The port is a tty: ::shutdown() fails on it (it is no socket)    *)
(* and ::close() does not wake a read() that is already blocked.           *)
(***************************************************************************)
EXTENDS Integers, Sequences

CONSTANTS
    None,
    PublishEveryN,   \* publish_every_n, already clamped to 1 or more
    ExpectedSamples, \* expected_rate_hz times the period of the diagnostics
    Samples,         \* the CalibHR frames the device may send, told by their USW
    Attempts,        \* the 3 attempts of query_device_identity
    MaxLine,         \* bound: frames in the tty's input queue
    MaxActivations   \* bound: calls of on_activate

\* The callbacks that wait for something, and what they know while they wait.
Calls == [pc : {"drain", "query"}, left : 1 .. Attempts]
            \cup [pc : {"deactivate", "shutdown"}]

ASSUME DriverAssumption ==
    /\ PublishEveryN \in Nat \ {0}
    /\ Samples \subseteq {"good", "failure", "range"}
    /\ ExpectedSamples \in Nat \ {0}
    /\ Attempts \in Nat \ {0}
    /\ MaxLine \in Nat /\ MaxActivations \in Nat
    /\ None \notin Calls

VARIABLES
    lc,              \* the lifecycle state
    call,            \* the callback in progress, or None
    fd,              \* fd_ >= 0
    running,         \* running_
    thread,          \* where the read thread is; "none": not joinable
    got,             \* the frames of the last read(), still to be handled
    block,           \* block_: the count, and the activations it has samples of
    pub,             \* the newest Imu on ~/data, or None
    usw,             \* last_usw_
    sampleAge,       \* last_sample_time_: None, "fresh" or "old"
    samples,         \* samples_total_ - samples_at_last_diag_
    published,       \* published_total_ - published_at_last_diag_
    devInfo, bit,    \* dev_info_, bit_status_ are known
    diag,            \* the newest diagnostic summary
    plugged, streaming, line,   \* external: the device and the tty's queue
    activation       \* history: calls of on_activate

device == <<plugged, streaming, line>>
health == <<pub, usw, sampleAge, samples, published, devInfo, bit>>
vars == <<lc, call, fd, running, thread, got, block, health, diag, device,
          activation>>

Frames == Samples \cup {"bit", "other"}
EmptyBlock == [count |-> 0, acts |-> {}]
Upto(n, cap) == IF n < cap THEN n + 1 ELSE n

-----------------------------------------------------------------------------
(* The device *)

\* It may stream from power-on (the auto-start format).
Emit ==
    /\ plugged
    /\ streaming
    /\ Len(line) < MaxLine
    /\ \E f \in Samples : line' = Append(line, f)
    /\ UNCHANGED <<lc, call, fd, running, thread, got, block, health, diag,
                   plugged, streaming, activation>>

Unplug ==
    /\ plugged
    /\ plugged' = FALSE
    /\ UNCHANGED <<lc, call, fd, running, thread, got, block, health, diag,
                   streaming, line, activation>>

-----------------------------------------------------------------------------
(* Lifecycle callbacks *)

\* mutant: the auto-start stream is not halted before the line is drained
OnConfigure_NoStop ==
    /\ call = None
    /\ lc = "unconfigured"
    /\ plugged
    /\ fd' = TRUE
    /\ call' = [pc |-> "drain", left |-> Attempts]
    /\ line' = <<>>
    /\ UNCHANGED <<lc, running, thread, got, block, health, diag, plugged,
                   streaming, activation>>

\* Opens and flushes the port and sends Stop; fails without a device.  With
\* query_device_info, which is the default and taken for granted here.
OnConfigure ==
    /\ call = None
    /\ lc = "unconfigured"
    /\ plugged
    /\ fd' = TRUE
    /\ call' = [pc |-> "drain", left |-> Attempts]
    /\ streaming' = FALSE
    /\ line' = <<>>
    /\ UNCHANGED <<lc, running, thread, got, block, health, diag, plugged,
                   activation>>

\* drain_input: read on until the line stays silent; an error ends it too.
DrainInput ==
    /\ call # None
    /\ call.pc = "drain"
    /\ \/ /\ plugged /\ line # <<>>
          /\ line' = <<>>
          /\ UNCHANGED call
       \/ /\ ~plugged \/ (line = <<>> /\ ~streaming)
          /\ call' = [call EXCEPT !.pc = "query"]
          /\ UNCHANGED line
    /\ UNCHANGED <<lc, fd, running, thread, got, block, health, diag, plugged,
                   streaming, activation>>

\* wait_for_response, up to three times; configuration succeeds either way.
QueryIdentity(answered) ==
    /\ call # None
    /\ call.pc = "query"
    /\ answered => plugged
    /\ devInfo' = (devInfo \/ answered)
    /\ IF answered \/ call.left = 1
       THEN call' = None /\ lc' = "inactive"
       ELSE call' = [call EXCEPT !.left = @ - 1] /\ UNCHANGED lc
    /\ UNCHANGED <<fd, running, thread, got, block, pub, usw, sampleAge,
                   samples, published, bit, diag, device, activation>>

\* mutant: the block of the last activation is carried on
OnActivate_KeepBlock ==
    /\ call = None
    /\ lc = "inactive"
    /\ activation < MaxActivations
    /\ activation' = activation + 1
    /\ streaming' = TRUE
    /\ \E reply \in {<<>>, <<"bit">>, <<"other">>} :
          line' = IF plugged /\ Len(line) < MaxLine THEN line \o reply ELSE line
    /\ samples' = 0
    /\ running' = TRUE
    /\ thread' = "check"
    /\ lc' = "active"
    /\ UNCHANGED <<call, fd, got, block, pub, usw, sampleAge, published,
                   devInfo, bit, diag, plugged>>

\* Stop, GetBIT (answered, unanswered or answered oddly) and CalibHR are sent, then the read
\* thread starts.  What the queue still holds is not flushed.
OnActivate ==
    /\ call = None
    /\ lc = "inactive"
    /\ activation < MaxActivations
    /\ activation' = activation + 1
    /\ streaming' = TRUE
    /\ \E reply \in {<<>>, <<"bit">>, <<"other">>} :
          line' = IF plugged /\ Len(line) < MaxLine THEN line \o reply ELSE line
    /\ samples' = 0
    /\ block' = EmptyBlock
    /\ running' = TRUE
    /\ thread' = "check"
    /\ lc' = "active"
    /\ UNCHANGED <<call, fd, got, pub, usw, sampleAge, published, devInfo,
                   bit, diag, plugged>>

\* The stream is stopped; ::shutdown() does nothing to a tty.
OnDeactivate ==
    /\ call = None
    /\ lc = "active"
    /\ running' = FALSE
    /\ streaming' = FALSE
    /\ call' = [pc |-> "deactivate"]
    /\ UNCHANGED <<lc, fd, thread, got, block, health, diag, plugged, line,
                   activation>>

\* mutant: the thread is left to end by itself
DeactivateJoin_Detached ==
    /\ call # None
    /\ call.pc = "deactivate"
    /\ call' = None
    /\ lc' = "inactive"
    /\ UNCHANGED <<fd, running, thread, got, block, health, diag, device,
                   activation>>

DeactivateJoin ==
    /\ call # None
    /\ call.pc = "deactivate"
    /\ thread = "done"
    /\ thread' = "none"
    /\ call' = None
    /\ lc' = "inactive"
    /\ UNCHANGED <<fd, running, got, block, health, diag, device, activation>>

OnCleanup ==
    /\ call = None
    /\ lc = "inactive"
    /\ fd' = FALSE
    /\ lc' = "unconfigured"
    /\ UNCHANGED <<call, running, thread, got, block, health, diag, device,
                   activation>>

\* The port is closed under the read thread, and the device streams on.
OnShutdown ==
    /\ call = None
    /\ lc # "finalized"
    /\ running' = FALSE
    /\ fd' = FALSE
    /\ call' = [pc |-> "shutdown"]
    /\ UNCHANGED <<lc, thread, got, block, health, diag, device, activation>>

ShutdownJoin ==
    /\ call # None
    /\ call.pc = "shutdown"
    /\ thread \in {"none", "done"}
    /\ thread' = "none"
    /\ call' = None
    /\ lc' = "finalized"
    /\ UNCHANGED <<fd, running, got, block, health, diag, device, activation>>

-----------------------------------------------------------------------------
(* read_loop *)

LoopCheck ==
    /\ thread = "check"
    /\ thread' = IF running /\ fd THEN "enter" ELSE "done"
    /\ UNCHANGED <<lc, call, fd, running, got, block, health, diag, device,
                   activation>>

\* read(fd): an error on a port closed since fd_ was loaded.
ReadEnter ==
    /\ thread = "enter"
    /\ thread' = IF fd THEN "read" ELSE "done"
    /\ UNCHANGED <<lc, call, fd, running, got, block, health, diag, device,
                   activation>>

\* read() returns some of what has come in.
ReadBytes ==
    /\ thread = "read"
    /\ line # <<>>
    /\ \E n \in 1 .. Len(line) :
          /\ got' = SubSeq(line, 1, n)
          /\ line' = SubSeq(line, n + 1, Len(line))
    /\ thread' = "handle"
    /\ UNCHANGED <<lc, call, fd, running, block, health, diag, plugged,
                   streaming, activation>>

\* The device is gone: the loop ends for good, whatever the lifecycle says.
ReadError ==
    /\ thread = "read"
    /\ ~plugged
    /\ line = <<>>
    /\ thread' = "done"
    /\ UNCHANGED <<lc, call, fd, running, got, block, health, diag, device,
                   activation>>

\* EINTR
ReadInterrupted ==
    /\ thread = "read"
    /\ thread' = "check"
    /\ UNCHANGED <<lc, call, fd, running, got, block, health, diag, device,
                   activation>>

\* accumulate_sample and publish_block.
Accumulate ==
    LET b == [count |-> block.count + 1, acts |-> block.acts \cup {activation}]
        full == b.count >= PublishEveryN
    IN  /\ block' = IF full THEN EmptyBlock ELSE b
        /\ pub' = IF full THEN b ELSE pub
        /\ published' = IF full THEN Upto(published, 1) ELSE published

HandleFrame ==
    /\ thread = "handle"
    /\ got # <<>>
    /\ got' = Tail(got)
    /\ LET f == Head(got)
       IN  \/ /\ f \in Samples
              /\ sampleAge' = "fresh"
              /\ samples' = Upto(samples, ExpectedSamples)
              /\ usw' = f
              /\ Accumulate
              /\ UNCHANGED bit
           \/ /\ f = "bit"
              /\ bit' = TRUE
              /\ UNCHANGED <<sampleAge, samples, usw, block, pub, published>>
           \/ /\ f = "other"
              /\ UNCHANGED <<sampleAge, samples, usw, block, pub, published, bit>>
    /\ UNCHANGED <<lc, call, fd, running, thread, devInfo, diag, device,
                   activation>>

FramesHandled ==
    /\ thread = "handle"
    /\ got = <<>>
    /\ thread' = "check"
    /\ UNCHANGED <<lc, call, fd, running, got, block, health, diag, device,
                   activation>>

-----------------------------------------------------------------------------
(* Diagnostics *)

\* mutant: the age of the last sample is not looked at
Summary_NoAge ==
    IF sampleAge = None THEN "error"
    ELSE IF usw = "failure" THEN "error"
    ELSE IF 2 * samples < ExpectedSamples \/ usw = "range" THEN "warn"
    ELSE "ok"

Summary ==
    IF sampleAge \in {None, "old"} THEN "error"
    ELSE IF usw = "failure" THEN "error"
    ELSE IF 2 * samples < ExpectedSamples \/ usw = "range" THEN "warn"
    ELSE "ok"

\* The updater exists from on_configure to on_cleanup.
ProduceDiagnostics ==
    /\ call = None
    /\ lc \in {"inactive", "active"}
    /\ diag' = Summary
    /\ samples' = 0
    /\ published' = 0
    /\ UNCHANGED <<lc, call, fd, running, thread, got, block, pub, usw,
                   sampleAge, devInfo, bit, device, activation>>

\* More than a second passes without a sample.
Elapse ==
    /\ sampleAge = "fresh"
    /\ sampleAge' = "old"
    /\ UNCHANGED <<lc, call, fd, running, thread, got, block, pub, usw,
                   samples, published, devInfo, bit, diag, device, activation>>

-----------------------------------------------------------------------------
Init ==
    /\ lc = "unconfigured" /\ call = None
    /\ fd = FALSE /\ running = FALSE
    /\ thread = "none" /\ got = <<>>
    /\ block = EmptyBlock /\ pub = None
    /\ usw = "good" /\ sampleAge = None
    /\ samples = 0 /\ published = 0
    /\ devInfo = FALSE /\ bit = FALSE
    /\ diag = "none"
    /\ plugged \in BOOLEAN /\ streaming \in BOOLEAN /\ line = <<>>
    /\ activation = 0

CallStep ==
    \/ DrainInput
    \/ \E answered \in BOOLEAN : QueryIdentity(answered)
    \/ DeactivateJoin
    \/ ShutdownJoin

ThreadStep ==
    \/ LoopCheck
    \/ ReadEnter
    \/ ReadBytes
    \/ ReadError
    \/ HandleFrame
    \/ FramesHandled

Manage ==
    \/ OnConfigure
    \/ OnActivate
    \/ OnDeactivate
    \/ OnCleanup
    \/ OnShutdown

Next ==
    \/ Manage \/ CallStep
    \/ ThreadStep \/ ReadInterrupted
    \/ Emit \/ Unplug
    \/ ProduceDiagnostics \/ Elapse

Spec == Init /\ [][Next]_vars

\* The executor and the read thread are scheduled, the diagnostics are due every
\* second, a streaming device sends samples, and a silent one lets time pass.
\* Nobody need ask for a transition, pull the plug or send a signal; a signal may
\* come again and again but does not keep read() from ever returning bytes.
FairSpec ==
    /\ Spec
    /\ WF_vars(CallStep)
    /\ WF_vars(LoopCheck) /\ WF_vars(ReadEnter) /\ WF_vars(ReadError)
    /\ WF_vars(HandleFrame) /\ WF_vars(FramesHandled)
    /\ SF_vars(ReadBytes)
    /\ WF_vars(ProduceDiagnostics)
    /\ WF_vars(Elapse /\ ~(plugged /\ streaming))
    /\ WF_vars(Emit)

-----------------------------------------------------------------------------
(* Properties *)

\* Types; a block is published as soon as it has publish_every_n samples, so the
\* one in hand always has fewer (accumulate_sample).
TypeOK ==
    /\ lc \in {"unconfigured", "inactive", "active", "finalized"}
    /\ call \in Calls \cup {None}
    /\ fd \in BOOLEAN /\ running \in BOOLEAN
    /\ thread \in {"none", "check", "enter", "read", "handle", "done"}
    /\ got \in Seq(Frames) /\ line \in Seq(Frames) /\ Len(line) <= MaxLine
    /\ block.count \in 0 .. PublishEveryN - 1
    /\ diag \in {"none", "error", "warn", "ok"}
    /\ samples \in 0 .. ExpectedSamples
    /\ activation \in 0 .. MaxActivations

\* Between callbacks the port is open exactly while the node is configured and a
\* read thread exists exactly while it is active, so that on_activate never
\* overwrites a joinable thread and on_cleanup never closes under a reader.
LifecycleOwnsIo ==
    call = None =>
        /\ fd <=> lc \in {"inactive", "active"}
        /\ thread # "none" <=> lc = "active"
        /\ running <=> lc = "active"

\* Every Imu is the mean of publish_every_n samples, none of them accumulated
\* before the activation that publishes it (on_activate, accumulate_sample).
MeanOfOneActivation ==
    pub # None => pub.count = PublishEveryN /\ \E a \in pub.acts : pub.acts = {a}

\* A loop that ended under an active node has one witness, the diagnostics: they
\* settle on ERROR (read_loop, produce_diagnostics).
DeadStreamReported ==
    <>[](lc = "active" /\ call = None /\ ~plugged) => <>[](diag = "error")

\* on_configure and on_shutdown come back: the first drains a line it has
\* silenced, the second joins a thread that the live stream wakes.
CallsReturn ==
    (call # None /\ call.pc # "deactivate") ~> (call = None)

=============================================================================
