----------------------------- MODULE NtripClient ----------------------------
(***************************************************************************)
(* The NTRIP client (ntrip_client_node.cpp): it keeps one session with a   *)
(* caster, uploads the robot's position (GGA) on it and publishes the RTCM *)
(* frames it receives.                                                     *)
(*                                                                         *)
(* Four threads of control: the io thread (run and one_session, `pc`), the *)
(* reader it spawns for the body of each session (`rd`), the executor that *)
(* keeps the newest GGA, and the destructor (`dtor`).  A tick is one 100 ms*)
(* nap of the session loop.  The bytes of a frame arrive in two parts, so  *)
(* the framer may hold an unfinished frame; what a shut socket still has   *)
(* buffered counts as received before.  A send never blocks (the requests  *)
(* and sentences are short), and EINTR is retried unseen.                  *)
(***************************************************************************)
EXTENDS Integers

CONSTANTS
    Version,                 \* ntrip_version: "1", "2" or "auto"
    SendGga,                 \* send_gga
    GgaPeriod,               \* gga_period_s in ticks, 0: never upload
    RtcmTimeout,             \* rtcm_timeout_s in ticks, 0: no watchdog
    MaxNap,                  \* the longest nap, in ticks
    BackoffMin, BackoffMax   \* reconnect_backoff_s_min, reconnect_backoff_s_max

ASSUME ClientAssumption ==
    /\ Version \in {"1", "2", "auto"}
    /\ SendGga \in BOOLEAN
    /\ {GgaPeriod, RtcmTimeout} \subseteq Nat
    /\ MaxNap \in Nat \ {0}
    /\ {BackoffMin, BackoffMax} \subseteq Nat \ {0}
    /\ BackoffMin <= BackoffMax

VARIABLES
    running,        \* running_
    sockFd,         \* sock_fd_ >= 0
    sock,           \* the socket itself: "closed", "open" or "shut"
    pc,             \* where the io thread is
    ver,            \* the version this session speaks
    backoff,        \* backoff of run()
    rd,             \* the reader: "off", "check" (running_), "recv" or "done"
    item,           \* what it reads next: "raw", or a part of a chunk
    aligned,        \* it is where the caster's chunks begin
    buf,            \* framer_: the sessions its buffer has bytes of
    streamed,       \* frames_emitted() > before
    idle,           \* ticks since last_frame_ns_
    ggaAge,         \* ticks since last_gga_send
    gga,            \* last_gga_ is not empty
    dtor,           \* where the destructor is; "no": not called
    held,           \* it took the descriptor out of sock_fd_
    net,            \* external: "good" once the caster can be relied on
    mute,           \* external: the caster took the connection, never answers
    served,         \* external: the caster has a position on this session
    sess,           \* history: the session, told apart from the last one
    quiet           \* history: ticks since this stream opened or sent a frame

socket == <<sockFd, sock>>
reader == <<rd, item, aligned>>
stream == <<buf, streamed, idle, quiet>>
caster == <<net, mute, served>>
vars == <<running, socket, pc, ver, backoff, reader, stream, ggaAge, gga,
          dtor, held, caster, sess>>

AtMost(n, cap) == IF n < cap THEN n ELSE cap
FirstVersion == IF Version = "1" THEN "1" ELSE "2"

Init ==
    /\ running = TRUE
    /\ sockFd = FALSE /\ sock = "closed"
    /\ pc = "loop" /\ ver = FirstVersion /\ backoff = BackoffMin
    /\ rd = "off" /\ item = "raw" /\ aligned = TRUE
    /\ buf = {} /\ streamed = FALSE /\ idle = RtcmTimeout /\ quiet = 0
    /\ ggaAge = GgaPeriod /\ gga = FALSE
    /\ dtor = "no" /\ held = FALSE
    /\ net = "bad" /\ mute = FALSE /\ served = FALSE /\ sess = 0

-----------------------------------------------------------------------------
(* The world: the network and the caster, and the GGA of the receiver *)

\* A good caster takes every connection, answers it, and sends frames in
\* time from the moment it has a position; with a bad one anything happens.
Weather ==
    /\ dtor # "done"
    /\ net' \in {"good", "bad"} \ {net}
    /\ UNCHANGED <<running, socket, pc, ver, backoff, reader, stream, ggaAge,
                   gga, dtor, held, mute, served, sess>>

\* The subscription, while the node spins.
StashGga ==
    /\ SendGga
    /\ dtor = "no"
    /\ ~gga
    /\ gga' = TRUE
    /\ UNCHANGED <<running, socket, pc, ver, backoff, reader, stream, ggaAge,
                   dtor, held, caster, sess>>

\* A frame on a good session is due before the watchdog's patience ends.
FrameDue(ticks) ==
    net = "good" /\ served /\ sock = "open" /\ aligned /\ rd # "done"
        /\ RtcmTimeout > 0 /\ idle + ticks >= RtcmTimeout

-----------------------------------------------------------------------------
(* run() *)

RunLoop ==
    /\ pc = "loop"
    /\ ver' = FirstVersion
    /\ pc' = IF running THEN "connect" ELSE "done"
    /\ UNCHANGED <<running, socket, backoff, reader, stream, ggaAge, gga, dtor,
                   held, caster, sess>>

\* After a session: fall back to v1, give up, or sleep and try again.
Decide ==
    /\ pc = "decide"
    /\ IF Version = "auto" /\ ver = "2" /\ ~streamed /\ running
       THEN pc' = "connect" /\ ver' = "1" /\ UNCHANGED backoff
       ELSE /\ pc' = IF running THEN "wait" ELSE "done"
            /\ backoff' = IF streamed THEN BackoffMin ELSE backoff
            /\ UNCHANGED ver
    /\ UNCHANGED <<running, socket, reader, stream, ggaAge, gga, dtor, held,
                   caster, sess>>

\* mutant: the backoff doubles without end
Backoff_NoCap ==
    /\ pc = "wait"
    /\ pc' = "loop"
    /\ backoff' = backoff * 2
    /\ UNCHANGED <<running, socket, ver, reader, stream, ggaAge, gga, dtor,
                   held, caster, sess>>

\* The interruptible sleep ends.
Backoff ==
    /\ pc = "wait"
    /\ pc' = "loop"
    /\ backoff' = AtMost(backoff * 2, BackoffMax)
    /\ UNCHANGED <<running, socket, ver, reader, stream, ggaAge, gga, dtor,
                   held, caster, sess>>

-----------------------------------------------------------------------------
(* one_session(): connect and handshake *)

ConnectFails ==
    /\ pc = "connect"
    /\ net = "bad"
    /\ streamed' = FALSE
    /\ pc' = "decide"
    /\ UNCHANGED <<running, socket, ver, backoff, reader, buf, idle, quiet,
                   ggaAge, gga, dtor, held, caster, sess>>

\* mutant: the destructor is not shown the socket of the handshake
Connected_Private ==
    /\ pc = "connect"
    /\ sock' = "open"
    /\ sockFd' = FALSE
    /\ mute' \in IF net = "good" THEN {FALSE} ELSE BOOLEAN
    /\ served' = FALSE
    /\ pc' = "send"
    /\ UNCHANGED <<running, ver, backoff, reader, stream, ggaAge, gga, dtor,
                   held, net, sess>>

\* tcp_connect has a connection and sock_fd_ takes it.
Connected ==
    /\ pc = "connect"
    /\ sock' = "open"
    /\ sockFd' = TRUE
    /\ mute' \in IF net = "good" THEN {FALSE} ELSE BOOLEAN
    /\ served' = FALSE
    /\ pc' = "send"
    /\ UNCHANGED <<running, ver, backoff, reader, stream, ggaAge, gga, dtor,
                   held, net, sess>>

\* close_socket: whoever takes the descriptor out of sock_fd_ disposes of it.
CloseSocket ==
    /\ sock' = IF sockFd THEN "closed" ELSE sock
    /\ sockFd' = FALSE

\* The session ends before its stream: the request cannot be sent, the
\* headers end in an error, or they say anything but 200.
Rejected ==
    /\ streamed' = FALSE
    /\ CloseSocket
    /\ mute' = FALSE
    /\ pc' = "decide"
    /\ UNCHANGED <<running, ver, backoff, reader, buf, idle, quiet, ggaAge,
                   gga, dtor, held, net, served, sess>>

SendRequest ==
    /\ pc = "send"
    /\ \/ /\ sock = "open"
          /\ pc' = "headers"
          /\ UNCHANGED <<running, socket, ver, backoff, reader, stream, ggaAge,
                         gga, dtor, held, caster, sess>>
       \/ /\ sock = "shut" \/ net = "bad"
          /\ Rejected

\* read_headers looks at running_ and enters recv().
HeadersCheck ==
    /\ pc = "headers"
    /\ IF running
       THEN /\ pc' = "answer"
            /\ UNCHANGED <<running, socket, ver, backoff, reader, stream,
                           ggaAge, gga, dtor, held, caster, sess>>
       ELSE Rejected

\* recv() ends without headers, or with a response that is not 200.
AnswerRefused ==
    /\ pc = "answer"
    /\ sock = "shut" \/ (net = "bad" /\ ~mute)
    /\ Rejected

-----------------------------------------------------------------------------
(* The framer *)

\* RtcmFramer::push of the next part of a frame: its first part is buffered,
\* its last one completes a frame unless foreign bytes precede it.
\* publish_frame notes the time.
Push ==
    LET whole == buf = {sess}
    IN /\ buf' = IF sess \in buf THEN {} ELSE buf \cup {sess}
       /\ streamed' = (streamed \/ whole)
       /\ idle' = IF whole THEN 0 ELSE idle
       /\ quiet' = IF whole THEN 0 ELSE quiet

-----------------------------------------------------------------------------
(* one_session(): the stream *)

\* The headers are complete and say 200; whether the body is chunked is theirs to
\* say, and a good caster does not chunk an HTTP/1.0 answer.  The bytes that came
\* with them are pushed by a raw reader; a chunked reader never sees them, and if
\* they were not whole chunks it starts inside one.
OpenStreamWith(backdated, lastFrame, kept) ==
    /\ pc = "answer"
    /\ sock = "open"
    /\ ~mute
    /\ \E chunked \in IF ver = "1" /\ net = "good" THEN {FALSE} ELSE BOOLEAN,
          leftover \in BOOLEAN :
          /\ item' = IF chunked THEN "size" ELSE "raw"
          /\ aligned' \in IF chunked /\ leftover THEN BOOLEAN ELSE {TRUE}
          /\ buf' = IF leftover /\ ~chunked THEN kept \cup {1 - sess} ELSE kept
    /\ streamed' = FALSE
    /\ idle' = lastFrame
    /\ quiet' = 0
    /\ ggaAge' = backdated
    /\ rd' = "check"
    /\ sess' = 1 - sess
    /\ pc' = "poll"
    /\ UNCHANGED <<running, socket, ver, backoff, gga, dtor, held, caster>>

\* mutants: the first upload waits a whole period; the watchdog is not armed;
\* the framer is not reset
OpenStream_NotBackdated == OpenStreamWith(0, 0, {})
OpenStream_NotArmed == OpenStreamWith(GgaPeriod, idle, {})
OpenStream_KeepBytes == OpenStreamWith(GgaPeriod, 0, buf)

OpenStream == OpenStreamWith(GgaPeriod, 0, {})

\* The loop condition, then the nap.
Poll ==
    /\ pc = "poll"
    /\ pc' = IF running /\ rd # "done" THEN "nap" ELSE "join"
    /\ UNCHANGED <<running, socket, ver, backoff, reader, stream, ggaAge, gga,
                   dtor, held, caster, sess>>

Nap(ticks) ==
    /\ pc = "nap"
    /\ ~FrameDue(ticks)
    /\ idle' = AtMost(idle + ticks, RtcmTimeout)
    /\ quiet' = AtMost(quiet + ticks, RtcmTimeout)
    /\ ggaAge' = AtMost(ggaAge + ticks, GgaPeriod)
    /\ pc' = "watch"
    /\ UNCHANGED <<running, socket, ver, backoff, reader, buf, streamed, gga,
                   dtor, held, caster, sess>>

Stalled == RtcmTimeout > 0 /\ idle >= RtcmTimeout

\* The watchdog wakes the reader and leaves the loop.
StallOut ==
    /\ pc = "watch"
    /\ Stalled
    /\ sock' = IF sockFd THEN "shut" ELSE sock
    /\ pc' = "join"
    /\ UNCHANGED <<running, sockFd, ver, backoff, reader, stream, ggaAge, gga,
                   dtor, held, caster, sess>>

\* Otherwise a GGA that is due is uploaded; one that fails or is lost counts too.
UploadGga ==
    /\ pc = "watch"
    /\ ~Stalled
    /\ IF SendGga /\ GgaPeriod > 0 /\ ggaAge >= GgaPeriod /\ gga
       THEN /\ ggaAge' = 0
            /\ served' \in IF sock # "open" THEN {served}
                          ELSE IF net = "good" THEN {TRUE}
                          ELSE {served, TRUE}
       ELSE UNCHANGED <<ggaAge, served>>
    /\ pc' = "poll"
    /\ UNCHANGED <<running, socket, ver, backoff, reader, stream, gga, dtor,
                   held, net, mute, sess>>

\* mutant: the descriptor is closed whoever has it
JoinReader_CloseAny ==
    /\ pc = "join"
    /\ rd = "done"
    /\ rd' = "off"
    /\ sock' = "closed"
    /\ sockFd' = FALSE
    /\ pc' = "decide"
    /\ UNCHANGED <<running, ver, backoff, item, aligned, stream, ggaAge, gga,
                   dtor, held, caster, sess>>

\* Joins the reader and closes the session.
JoinReader ==
    /\ pc = "join"
    /\ rd = "done"
    /\ rd' = "off"
    /\ CloseSocket
    /\ pc' = "decide"
    /\ UNCHANGED <<running, ver, backoff, item, aligned, stream, ggaAge, gga,
                   dtor, held, caster, sess>>

-----------------------------------------------------------------------------
(* The reader: read_raw, read_chunked *)

ReaderCheck ==
    /\ rd = "check"
    /\ rd' = IF running THEN "recv" ELSE "done"
    /\ UNCHANGED <<running, socket, pc, ver, backoff, item, aligned, stream,
                   ggaAge, gga, dtor, held, caster, sess>>

\* Out of step with the chunks, a size line is binary and mostly refused.
ReadItem ==
    \/ /\ item = "raw"
       /\ Push
       /\ rd' = "check"
       /\ UNCHANGED item
    \/ /\ item = "size"
       /\ \/ rd' = "check" /\ item' = "data"
          \/ (net = "bad" \/ ~aligned) /\ rd' = "check" /\ item' = "last"
          \/ (net = "bad" \/ ~aligned) /\ rd' = "done" /\ UNCHANGED item
       /\ UNCHANGED stream
    \/ /\ item = "data"
       /\ Push \/ (~aligned /\ UNCHANGED stream)
       /\ rd' = "check"
       /\ item' = "crlf"
    \/ /\ item = "crlf"
       /\ rd' = "check"
       /\ item' = "size"
       /\ UNCHANGED stream
    \/ /\ item = "last"
       /\ rd' = "done"
       /\ UNCHANGED <<item, stream>>

ReaderRecv ==
    /\ rd = "recv"
    /\ sock = "open"
    /\ net = "good" => served
    /\ ReadItem
    /\ UNCHANGED <<running, socket, pc, ver, backoff, aligned, ggaAge, gga,
                   dtor, held, caster, sess>>

\* recv() returns 0 or fails.
ReaderEof ==
    /\ rd = "recv"
    /\ sock = "shut" \/ net = "bad"
    /\ rd' = "done"
    /\ UNCHANGED <<running, socket, pc, ver, backoff, item, aligned, stream,
                   ggaAge, gga, dtor, held, caster, sess>>

-----------------------------------------------------------------------------
(* ~NtripClientNode *)

DtorStop ==
    /\ dtor = "no"
    /\ running' = FALSE
    /\ dtor' = "exchange"
    /\ UNCHANGED <<socket, pc, ver, backoff, reader, stream, ggaAge, gga, held,
                   caster, sess>>

DtorExchange ==
    /\ dtor = "exchange"
    /\ held' = sockFd
    /\ sockFd' = FALSE
    /\ dtor' = "shutdown"
    /\ UNCHANGED <<running, sock, pc, ver, backoff, reader, stream, ggaAge,
                   gga, caster, sess>>

DtorShutdown ==
    /\ dtor = "shutdown"
    /\ sock' = IF held THEN "shut" ELSE sock
    /\ dtor' = "join"
    /\ UNCHANGED <<running, sockFd, pc, ver, backoff, reader, stream, ggaAge,
                   gga, held, caster, sess>>

DtorJoin ==
    /\ dtor = "join"
    /\ pc = "done"
    /\ dtor' = "done"
    /\ UNCHANGED <<running, socket, pc, ver, backoff, reader, stream, ggaAge,
                   gga, held, caster, sess>>

-----------------------------------------------------------------------------
Session ==
    \/ ConnectFails \/ Connected \/ SendRequest \/ HeadersCheck
    \/ AnswerRefused \/ OpenStream
    \/ Poll \/ (\E t \in 1..MaxNap : Nap(t)) \/ StallOut \/ UploadGga
    \/ JoinReader

Io == RunLoop \/ Decide \/ Backoff \/ Session
Reader == ReaderCheck \/ ReaderRecv \/ ReaderEof
Dtor == DtorStop \/ DtorExchange \/ DtorShutdown \/ DtorJoin

Next == Io \/ Reader \/ Dtor \/ Weather \/ StashGga

Spec == Init /\ [][Next]_vars

\* A frame reaches rtcm/out.
Publish == ReaderRecv /\ idle' = 0 /\ buf' = {}

\* What the scheduler and a good caster guarantee: the threads run on, a shut
\* socket ends a recv(), and a good caster sends to whoever it serves.
Fairness ==
    /\ WF_vars(Io)
    /\ WF_vars(DtorExchange \/ DtorShutdown \/ DtorJoin)
    /\ WF_vars(ReaderCheck)
    /\ WF_vars(ReaderEof /\ sock = "shut")
    /\ WF_vars(ReaderRecv /\ net = "good")

FairSpec == Spec /\ Fairness

-----------------------------------------------------------------------------
(* Properties *)

\* Types; the backoff of run() stays between its two parameters.
TypeOK ==
    /\ running \in BOOLEAN
    /\ sockFd \in BOOLEAN /\ sock \in {"closed", "open", "shut"}
    /\ pc \in {"loop", "connect", "send", "headers", "answer", "poll", "nap",
               "watch", "join", "decide", "wait", "done"}
    /\ ver \in {"1", "2"}
    /\ backoff \in BackoffMin..BackoffMax
    /\ rd \in {"off", "check", "recv", "done"}
    /\ item \in {"raw", "size", "data", "crlf", "last"}
    /\ aligned \in BOOLEAN
    /\ buf \in SUBSET {0, 1}
    /\ streamed \in BOOLEAN
    /\ idle \in 0..RtcmTimeout /\ quiet \in 0..RtcmTimeout
    /\ ggaAge \in 0..GgaPeriod /\ gga \in BOOLEAN
    /\ dtor \in {"no", "exchange", "shutdown", "join", "done"}
    /\ held \in BOOLEAN
    /\ net \in {"good", "bad"} /\ mute \in BOOLEAN /\ served \in BOOLEAN
    /\ sess \in {0, 1}

\* One owner for the descriptor: what sock_fd_ shows and what the destructor
\* has taken out of it is never closed yet, so no shutdown() or close() hits a
\* number the kernel gave to somebody else, and a session's socket is closed
\* before the next one connects.
DescriptorOwned ==
    /\ sockFd => sock # "closed"
    /\ (dtor = "shutdown" /\ held) => sock # "closed"
    /\ pc \in {"loop", "connect", "wait"} => sock = "closed"

\* No frame is put together from the bytes of two sessions: while a reader
\* runs, the framer holds bytes of its session only.
SessionBytes == rd # "off" => buf \subseteq {sess}

\* The watchdog gives up a stream only when this stream has been without a
\* frame for the whole of rtcm_timeout_s, whatever earlier sessions did.
StallIsReal == [][StallOut => quiet = RtcmTimeout]_vars

\* From the moment the caster can be relied on and the receiver has a
\* position, corrections flow for good, though the caster sends nothing before
\* it has the position and gga_period_s is longer than rtcm_timeout_s.  A
\* connection a mute caster has taken before is not covered.
CorrectionsFlow ==
    <>[](net = "good" /\ gga /\ running /\ ~mute) => []<><<Publish>>_vars

\* The destructor comes back, whatever the io thread and its reader wait for.
DestructorReturns == (dtor = "exchange") ~> (dtor = "done")

=============================================================================
