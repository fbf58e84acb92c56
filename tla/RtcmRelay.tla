------------------------------ MODULE RtcmRelay -----------------------------
(***************************************************************************)
(* The relays that bring corrections from a local base: over TCP as client *)
(* or server (tcp_rtcm_relay_node.cpp) or from a radio on a serial line    *)
(* (serial_rtcm_relay_node.cpp).  The three share one shape: an io thread  *)
(* (`pc`) opens its source, reads it into the framer until it breaks and   *)
(* starts over; the destructor (`dtor`) runs beside it, takes the          *)
(* descriptors out of the atomics, wakes the thread and joins it.          *)
(*                                                                         *)
(* A step of a thread goes from one access of shared state (running_, the  *)
(* atomics, the descriptors) to the next.  EINTR is retried unseen; sleeps *)
(* are untimed, a sleeping thread may go on at once.                       *)
(***************************************************************************)
EXTENDS RtcmFramer

CONSTANTS
    Streams,                    \* what a base may send, as byte sequences
    BackoffMin, BackoffMax      \* reconnect_backoff_s_min, reconnect_backoff_s_max

ASSUME RelayAssumption ==
    /\ Streams \subseteq Seq(Byte)
    /\ BackoffMin \in Nat \ {0} /\ BackoffMax \in Nat \ {0}
    /\ BackoffMin <= BackoffMax

VARIABLES
    role,           \* "client", "server" or "serial"
    running,        \* running_
    pc,             \* where the io thread is
    backoff,        \* backoff of run_client
    listenFd,       \* listen_fd_ >= 0
    listener,       \* the listening socket: "closed" or "open"
    fd,             \* conn_fd_ >= 0, or fd_ of the serial relay
    conn,           \* the connection or port: see Conns
    buffer,         \* framer_'s buffer_
    dtor,           \* where the destructor is; "no": not called
    heldListen,     \* it took the listening descriptor
    held,           \* it took the connection's descriptor
    net,            \* external: "up" when opens work and nothing breaks
    wire,           \* external: what the base wrote on this connection
    got,            \* how much of it the thread has read
    out             \* the frames published from this connection

Roles == {"client", "server", "serial"}
Conns == {"closed", "open", "shut", "eof", "dead"}
Pcs == {"loop", "open", "retry", "storeListen", "accepting", "accept",
        "store", "check", "enter", "read", "close", "pause", "unlisten", "done"}

fds == <<listenFd, listener, fd, conn>>
data == <<buffer, wire, got, out>>
killer == <<dtor, heldListen, held>>
vars == <<role, running, pc, backoff, fds, data, killer, net>>

Init ==
    /\ role \in Roles
    /\ running = TRUE /\ pc = "loop" /\ backoff = BackoffMin
    /\ listenFd = FALSE /\ listener = "closed" /\ fd = FALSE /\ conn = "closed"
    /\ buffer = << >> /\ wire = << >> /\ got = 0 /\ out = << >>
    /\ dtor = "no" /\ heldListen = FALSE /\ held = FALSE
    /\ net \in {"up", "down"}

\* The io thread goes from one label to another.
Goto(from, to) ==
    /\ pc = from
    /\ pc' = to
    /\ UNCHANGED <<role, running, killer, net>>

-----------------------------------------------------------------------------
(* The base and the network *)

Weather ==
    /\ net' \in {"up", "down"} \ {net}
    /\ UNCHANGED <<role, running, pc, backoff, fds, data, killer>>

\* The base writes the next byte of one of the streams.
BaseWrites ==
    /\ conn = "open"
    /\ \E s \in Streams :
        /\ Len(wire) < Len(s)
        /\ wire = SubSeq(s, 1, Len(wire))
        /\ wire' = Append(wire, s[Len(wire) + 1])
    /\ UNCHANGED <<role, running, pc, backoff, fds, buffer, got, out, killer, net>>

\* The base closes or is unplugged ("eof"), or vanishes without a word.
BaseBreaks ==
    /\ net = "down" /\ conn = "open"
    /\ conn' \in {"eof", "dead"}
    /\ UNCHANGED <<role, running, pc, backoff, listenFd, listener, fd, data,
                   killer, net>>

-----------------------------------------------------------------------------
(* run_client, run_server and run of the serial relay *)

Loop ==
    /\ Goto("loop", IF running THEN "open" ELSE "done")
    /\ UNCHANGED <<backoff, fds, data>>

\* tcp_connect, tcp_listen or open_serial returns a descriptor.
OpenWorks ==
    /\ Goto("open", IF role = "server" THEN "storeListen" ELSE "store")
    /\ IF role = "server"
       THEN listener' = "open" /\ UNCHANGED <<conn, wire, got, out>>
       ELSE /\ conn' = "open" /\ UNCHANGED listener
            /\ wire' = << >> /\ got' = 0 /\ out' = << >>
    /\ UNCHANGED <<backoff, listenFd, fd, buffer>>

OpenFails ==
    /\ net = "down"
    /\ Goto("open", "retry")
    /\ UNCHANGED <<backoff, fds, data>>

\* The interruptible sleep after a failed open; only the client backs off.
Retry ==
    /\ Goto("retry", "loop")
    /\ backoff' = IF role # "client" THEN backoff
                  ELSE IF backoff * 2 < BackoffMax THEN backoff * 2 ELSE BackoffMax
    /\ UNCHANGED <<fds, data>>

StoreListen ==
    /\ Goto("storeListen", "accepting")
    /\ listenFd' = TRUE
    /\ UNCHANGED <<backoff, listener, fd, conn, data>>

\* The test of running_ before each accept().
Accepting ==
    /\ Goto("accepting", IF running THEN "accept" ELSE "unlisten")
    /\ UNCHANGED <<backoff, fds, data>>

\* accept() returns a peer, or fails: the destructor closed the listener, or
\* the network did something.
AcceptPeer ==
    /\ listener = "open"
    /\ Goto("accept", "store")
    /\ conn' = "open" /\ wire' = << >> /\ got' = 0 /\ out' = << >>
    /\ UNCHANGED <<backoff, listenFd, listener, fd, buffer>>

AcceptFails ==
    /\ listener = "closed" \/ net = "down"
    /\ Goto("accept", "unlisten")
    /\ UNCHANGED <<backoff, fds, data>>

\* mutant: the framer keeps the unfinished frame of the connection before
Store_KeepFramer ==
    /\ Goto("store", "check")
    /\ fd' = TRUE
    /\ backoff' = IF role = "client" THEN BackoffMin ELSE backoff
    /\ UNCHANGED <<listenFd, listener, conn, data>>

\* The descriptor is stored for the destructor and the framer reset.
Store ==
    /\ Goto("store", "check")
    /\ fd' = TRUE
    /\ backoff' = IF role = "client" THEN BackoffMin ELSE backoff
    /\ buffer' = << >>
    /\ UNCHANGED <<listenFd, listener, conn, wire, got, out>>

Check ==
    /\ Goto("check", IF running THEN "enter" ELSE "close")
    /\ UNCHANGED <<backoff, fds, data>>

\* recv() or read() is called: it fails at once on a closed descriptor.
Enter ==
    /\ Goto("enter", IF conn = "closed" THEN "close" ELSE "read")
    /\ UNCHANGED <<backoff, fds, data>>

\* It returns some of the bytes that have come, and the framer takes them.
\* A read() in progress outlives the close() of its descriptor.
ReadBytes ==
    /\ Goto("read", "check")
    /\ \E n \in got + 1 .. Len(wire) :
        LET r == push(buffer, SubSeq(wire, got + 1, n))
        IN  /\ buffer' = r.rest
            /\ out' = out \o r.frames
            /\ got' = n
    /\ UNCHANGED <<backoff, fds, wire>>

\* It returns 0 or an error: the base has gone or the destructor shut the
\* socket down.  Nothing of the kind wakes a read() of a closed tty.
ReadEnds ==
    /\ conn \in {"eof", "shut"}
    /\ Goto("read", "close")
    /\ UNCHANGED <<backoff, fds, data>>

\* The thread closes the connection unless the destructor has taken it.
Close ==
    /\ Goto("close", IF role = "server" THEN "accepting" ELSE "pause")
    /\ fd' = FALSE
    /\ conn' = IF fd THEN "closed" ELSE conn
    /\ UNCHANGED <<backoff, listenFd, listener, data>>

\* The sleep after a session, skipped when the node is going.
Pause ==
    /\ Goto("pause", "loop")
    /\ UNCHANGED <<backoff, fds, data>>

Unlisten ==
    /\ Goto("unlisten", "loop")
    /\ listenFd' = FALSE
    /\ listener' = IF listenFd THEN "closed" ELSE listener
    /\ UNCHANGED <<backoff, fd, conn, data>>

-----------------------------------------------------------------------------
(* The destructor *)

\* Only a server has a listener to take.
Destroy ==
    /\ dtor = "no"
    /\ running' = FALSE
    /\ dtor' = IF role = "server" THEN "takeListen" ELSE "take"
    /\ UNCHANGED <<role, pc, backoff, fds, data, heldListen, held, net>>

TakeListen ==
    /\ dtor = "takeListen"
    /\ dtor' = "closeListen"
    /\ heldListen' = listenFd /\ listenFd' = FALSE
    /\ UNCHANGED <<role, running, pc, backoff, listener, fd, conn, data, held, net>>

\* shutdown() wakes a blocked accept(); close() frees the descriptor.
CloseListen ==
    /\ dtor = "closeListen"
    /\ dtor' = "take"
    /\ listener' = IF heldListen THEN "closed" ELSE listener
    /\ UNCHANGED <<role, running, pc, backoff, listenFd, fd, conn, data,
                   heldListen, held, net>>

Take ==
    /\ dtor = "take"
    /\ dtor' = "wake"
    /\ held' = fd /\ fd' = FALSE
    /\ UNCHANGED <<role, running, pc, backoff, listenFd, listener, conn, data,
                   heldListen, net>>

\* mutant: the destructor of the TCP relay closes the connection as well
Wake_Close ==
    /\ dtor = "wake"
    /\ dtor' = "join"
    /\ conn' = IF held THEN "closed" ELSE conn
    /\ UNCHANGED <<role, running, pc, backoff, listenFd, listener, fd, data,
                   heldListen, held, net>>

\* The TCP relay shuts the connection down, the serial one closes the port.
Wake ==
    /\ dtor = "wake"
    /\ dtor' = "join"
    /\ conn' = IF ~held THEN conn ELSE IF role = "serial" THEN "closed" ELSE "shut"
    /\ UNCHANGED <<role, running, pc, backoff, listenFd, listener, fd, data,
                   heldListen, held, net>>

Join ==
    /\ dtor = "join" /\ pc = "done"
    /\ dtor' = "done"
    /\ UNCHANGED <<role, running, pc, backoff, fds, data, heldListen, held, net>>

-----------------------------------------------------------------------------
IoStep ==
    \/ Loop \/ OpenWorks \/ OpenFails \/ Retry \/ StoreListen \/ Accepting
    \/ AcceptPeer \/ AcceptFails \/ Store \/ Check \/ Enter \/ ReadBytes
    \/ ReadEnds \/ Close \/ Pause \/ Unlisten
DtorStep == TakeListen \/ CloseListen \/ Take \/ Wake \/ Join

Next == Weather \/ BaseWrites \/ BaseBreaks \/ IoStep \/ Destroy \/ DtorStep

Spec == Init /\ [][Next]_vars

-----------------------------------------------------------------------------
(* Properties *)

TypeOK ==
    /\ role \in Roles
    /\ {running, listenFd, fd, heldListen, held} \subseteq BOOLEAN
    /\ pc \in Pcs
    /\ backoff \in BackoffMin .. BackoffMax
    /\ listener \in {"closed", "open"}
    /\ conn \in Conns
    /\ {buffer, wire} \subseteq Seq(Byte)
    /\ got \in 0 .. Len(wire)
    /\ dtor \in {"no", "takeListen", "closeListen", "take", "wake", "join", "done"}
    /\ net \in {"up", "down"}

\* The relays implement the feed: through connects, breaks, partial reads,
\* false preambles and the destructor, rtcm/out carries exactly the frames
\* of the connection's bytes read so far.
Feed == INSTANCE FrameFeed WITH wire <- wire, out <- out
ImplementsFeed == Feed!FeedSpec

\* What that asks of the framer alone, on everything a base may have written so
\* far: it finds the frames of the stream, and finds the same ones when the
\* bytes come in two reads as when they come in one (RtcmFramer::push).
Prefixes == {<< >>} \cup UNION {{SubSeq(s, 1, n) : n \in 0 .. Len(s)} : s \in Streams}

Framing(w) == try_extract_frames[w]

FramerLaw ==
    /\ Framing(<< >>) = [frames |-> << >>, rest |-> << >>]
    /\ \A w \in Prefixes :
          /\ Framing(w).frames = Feed!FramesFrom(w)
          /\ \A k \in 0 .. Len(w) :
                LET r == push(Framing(SubSeq(w, 1, k)).rest, SubSeq(w, k + 1, Len(w)))
                IN  /\ Framing(SubSeq(w, 1, k)).frames \in Seq(Seq(Byte))
                    /\ r.frames \in Seq(Seq(Byte))
                    /\ Framing(SubSeq(w, 1, k)).frames \o r.frames = Framing(w).frames
                    /\ r.rest = Framing(w).rest

\* While the thread of a TCP relay uses its connection nobody has closed it,
\* and it opens a new one only when the last is closed: a read never meets a
\* descriptor number that belongs to someone else, and no session leaves its own
\* open for the next.
ConnectionOwned ==
    /\ role # "serial" /\ pc \in {"store", "check", "enter", "read"}
            => conn # "closed"
    /\ pc = "open" \/ (pc = "accept" /\ running) => conn = "closed"

=============================================================================
