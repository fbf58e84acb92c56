------------------------- MODULE NtripClientProofs --------------------------
(***************************************************************************)
(* Proofs about the NTRIP client, for every version, period and timeout:   *)
(* the ownership of its socket, the separation of its sessions and the     *)
(* soundness of its watchdog.                                              *)
(***************************************************************************)
EXTENDS NtripClient, TLAPS

\* running_ is cleared by the destructor and by nobody else.
StoppedByDtor == running <=> dtor = "no"

\* A descriptor the destructor took is out of sock_fd_ for good and not closed.
TakenOnce == held => ~sockFd /\ sock # "closed"

\* Inside a session sock_fd_ shows its socket, unless the destructor took it.
SessionShowsSocket ==
    pc \in {"send", "headers", "answer", "poll", "nap", "watch", "join"}
        => sockFd \/ ~running

\* A session leaves its socket closed, unless the node is going down.
SessionClosed == pc = "decide" => sock = "closed" \/ ~running

\* While the session loop runs, the watchdog's clock is that of this stream.
WatchdogClock == pc \in {"poll", "nap", "watch"} => idle = quiet

IInv ==
    /\ TypeOK
    /\ DescriptorOwned
    /\ SessionBytes
    /\ StoppedByDtor
    /\ TakenOnce
    /\ SessionShowsSocket
    /\ SessionClosed
    /\ WatchdogClock

\* The conjuncts of IInv about the socket and the threads that share it.
SocketInv ==
    /\ DescriptorOwned
    /\ StoppedByDtor
    /\ TakenOnce
    /\ SessionShowsSocket
    /\ SessionClosed

-----------------------------------------------------------------------------
\* AtMost returns a number of the range it caps to.
LEMMA AtMostType ==
    ASSUME NEW n \in Nat, NEW cap \in Nat, NEW low \in Nat, low <= n, low <= cap
    PROVE  AtMost(n, cap) \in low .. cap
BY DEF AtMost

\* The client starts with no socket, no reader and the least backoff.
LEMMA InitIInv == Init => IInv
  <1> SUFFICES ASSUME Init PROVE IInv
    OBVIOUS
  <1> USE DEF Init
  <1>1. /\ backoff \in BackoffMin..BackoffMax
        /\ idle \in 0..RtcmTimeout /\ quiet \in 0..RtcmTimeout
        /\ ggaAge \in 0..GgaPeriod
    BY ClientAssumption
  <1>2. TypeOK
    BY <1>1 DEF TypeOK, FirstVersion
  <1>3. SessionBytes /\ WatchdogClock
    BY DEF SessionBytes, WatchdogClock
  <1>4. SocketInv
    BY DEF SocketInv, DescriptorOwned, StoppedByDtor, TakenOnce,
           SessionShowsSocket, SessionClosed
  <1> QED
    BY <1>2, <1>3, <1>4 DEF IInv, SocketInv

\* No step of any thread breaks the ownership of the socket.
LEMMA NextSocket ==
    ASSUME IInv, Next
    PROVE  SocketInv'
  <1> USE DEF IInv, TypeOK, SocketInv, DescriptorOwned, StoppedByDtor,
          TakenOnce, SessionShowsSocket, SessionClosed, socket, reader, stream,
          caster
  <1>1. CASE RunLoop
    BY <1>1 DEF RunLoop
  <1>2. CASE Decide
    BY <1>2 DEF Decide
  <1>3. CASE Backoff
    BY <1>3 DEF Backoff
  <1>4. CASE ConnectFails
    BY <1>4 DEF ConnectFails
  <1>5. CASE Connected
    BY <1>5 DEF Connected
  <1>6. CASE SendRequest
    BY <1>6 DEF SendRequest, Rejected, CloseSocket
  <1>7. CASE HeadersCheck
    BY <1>7 DEF HeadersCheck, Rejected, CloseSocket
  <1>8. CASE AnswerRefused
    BY <1>8 DEF AnswerRefused, Rejected, CloseSocket
  <1>9. CASE OpenStream
    BY <1>9 DEF OpenStream, OpenStreamWith
  <1>10. CASE Poll
    BY <1>10 DEF Poll
  <1>11. CASE \E t \in 1..MaxNap : Nap(t)
    BY <1>11 DEF Nap
  <1>12. CASE StallOut
    BY <1>12 DEF StallOut
  <1>13. CASE UploadGga
    BY <1>13 DEF UploadGga
  <1>14. CASE JoinReader
    BY <1>14 DEF JoinReader, CloseSocket
  <1>15. CASE ReaderCheck
    BY <1>15 DEF ReaderCheck
  <1>16. CASE ReaderRecv
    BY <1>16 DEF ReaderRecv
  <1>17. CASE ReaderEof
    BY <1>17 DEF ReaderEof
  <1>18. CASE DtorStop
    BY <1>18 DEF DtorStop
  <1>19. CASE DtorExchange
    BY <1>19 DEF DtorExchange
  <1>20. CASE DtorShutdown
    BY <1>20 DEF DtorShutdown
  <1>21. CASE DtorJoin
    BY <1>21 DEF DtorJoin
  <1>22. CASE Weather
    BY <1>22 DEF Weather
  <1>23. CASE StashGga
    BY <1>23 DEF StashGga
  <1> QED
    BY <1>1, <1>2, <1>3, <1>4, <1>5, <1>6, <1>7, <1>8, <1>9, <1>10, <1>11,
       <1>12, <1>13, <1>14, <1>15, <1>16, <1>17, <1>18, <1>19, <1>20, <1>21,
       <1>22, <1>23
       DEF Next, Io, Session, Reader, Dtor

\* TypeOK in two parts, for the two kinds of reasoning they take.
Flags ==
    /\ running \in BOOLEAN /\ sockFd \in BOOLEAN /\ aligned \in BOOLEAN
    /\ streamed \in BOOLEAN /\ gga \in BOOLEAN /\ held \in BOOLEAN
    /\ mute \in BOOLEAN /\ served \in BOOLEAN

Ranges ==
    /\ sock \in {"closed", "open", "shut"}
    /\ pc \in {"loop", "connect", "send", "headers", "answer", "poll", "nap",
               "watch", "join", "decide", "wait", "done"}
    /\ ver \in {"1", "2"}
    /\ backoff \in BackoffMin..BackoffMax
    /\ rd \in {"off", "check", "recv", "done"}
    /\ item \in {"raw", "size", "data", "crlf", "last"}
    /\ buf \in SUBSET {0, 1}
    /\ idle \in 0..RtcmTimeout /\ quiet \in 0..RtcmTimeout
    /\ ggaAge \in 0..GgaPeriod
    /\ dtor \in {"no", "exchange", "shutdown", "join", "done"}
    /\ net \in {"good", "bad"}
    /\ sess \in {0, 1}

\* A session that ends before its stream opens leaves every range alone.
LEMMA RejectedRanges ==
    ASSUME IInv, Rejected
    PROVE  Ranges'
BY DEF IInv, TypeOK, Ranges, Rejected, CloseSocket, reader

\* A part of a frame that reaches the framer leaves bytes of this session only
\* and moves both clocks together; nothing else a reader takes in matters.
LEMMA ReadItemFacts ==
    ASSUME IInv, ReadItem
    PROVE  /\ rd' \in {"check", "done"}
           /\ item' \in {"raw", "size", "data", "crlf", "last"}
           /\ buf' \in SUBSET {0, 1}
           /\ buf \subseteq {sess} => buf' \subseteq {sess}
           /\ idle' \in 0..RtcmTimeout /\ quiet' \in 0..RtcmTimeout
           /\ idle = quiet => idle' = quiet'
  <1>1. ASSUME Push
        PROVE  /\ buf' \in SUBSET {0, 1}
               /\ buf \subseteq {sess} => buf' \subseteq {sess}
               /\ idle' \in 0..RtcmTimeout /\ quiet' \in 0..RtcmTimeout
               /\ idle = quiet => idle' = quiet'
    <2>1. buf' = {} \/ buf' = buf \cup {sess}
      BY <1>1 DEF Push
    <2>2. \/ idle' = 0 /\ quiet' = 0
          \/ UNCHANGED <<idle, quiet>>
      BY <1>1 DEF Push
    <2>3. buf \in SUBSET {0, 1} /\ sess \in {0, 1}
      BY DEF IInv, TypeOK
    <2>4. idle \in 0..RtcmTimeout /\ quiet \in 0..RtcmTimeout /\ 0 \in 0..RtcmTimeout
      BY ClientAssumption DEF IInv, TypeOK
    <2>5. buf' \in SUBSET {0, 1} /\ (buf \subseteq {sess} => buf' \subseteq {sess})
      BY <2>1, <2>3
    <2> QED
      BY <2>2, <2>4, <2>5
  <1>2. /\ rd' \in {"check", "done"}
        /\ item' \in {"raw", "size", "data", "crlf", "last"}
        /\ Push \/ UNCHANGED stream
    BY DEF ReadItem, IInv, TypeOK
  <1> QED
    BY <1>1, <1>2 DEF stream, IInv, TypeOK

\* No step makes a flag anything but a flag.
LEMMA NextFlags ==
    ASSUME IInv, Next
    PROVE  Flags'
  <1> USE DEF IInv, TypeOK, Flags, socket, reader, stream, caster
  <1>1. CASE RunLoop
    BY <1>1, Zenon DEF RunLoop, FirstVersion
  <1>2. CASE Decide
    BY <1>2, Zenon DEF Decide
  <1>3. CASE Backoff
    BY <1>3, Zenon DEF Backoff, AtMost
  <1>4. CASE ConnectFails
    BY <1>4, Zenon DEF ConnectFails
  <1>5. CASE Connected
    BY <1>5, Zenon DEF Connected
  <1>6. CASE SendRequest
    BY <1>6, Zenon DEF SendRequest, Rejected, CloseSocket
  <1>7. CASE HeadersCheck
    BY <1>7, Zenon DEF HeadersCheck, Rejected, CloseSocket
  <1>8. CASE AnswerRefused
    BY <1>8, Zenon DEF AnswerRefused, Rejected, CloseSocket
  <1>9. CASE OpenStream
    BY <1>9, Zenon DEF OpenStream, OpenStreamWith
  <1>10. CASE Poll
    BY <1>10, Zenon DEF Poll
  <1>11. CASE \E t \in 1..MaxNap : Nap(t)
    BY <1>11, Zenon DEF Nap, AtMost
  <1>12. CASE StallOut
    BY <1>12, Zenon DEF StallOut
  <1>13. CASE UploadGga
    BY <1>13, Zenon DEF UploadGga
  <1>14. CASE JoinReader
    BY <1>14, Zenon DEF JoinReader, CloseSocket
  <1>15. CASE ReaderCheck
    BY <1>15, Zenon DEF ReaderCheck
  <1>16. CASE ReaderRecv
    BY <1>16, Zenon DEF ReaderRecv, ReadItem, Push
  <1>17. CASE ReaderEof
    BY <1>17, Zenon DEF ReaderEof
  <1>18. CASE DtorStop
    BY <1>18, Zenon DEF DtorStop
  <1>19. CASE DtorExchange
    BY <1>19, Zenon DEF DtorExchange
  <1>20. CASE DtorShutdown
    BY <1>20, Zenon DEF DtorShutdown
  <1>21. CASE DtorJoin
    BY <1>21, Zenon DEF DtorJoin
  <1>22. CASE Weather
    BY <1>22, Zenon DEF Weather
  <1>23. CASE StashGga
    BY <1>23, Zenon DEF StashGga
  <1> QED
    BY <1>1, <1>2, <1>3, <1>4, <1>5, <1>6, <1>7, <1>8, <1>9, <1>10, <1>11,
       <1>12, <1>13, <1>14, <1>15, <1>16, <1>17, <1>18, <1>19, <1>20, <1>21,
       <1>22, <1>23
       DEF Next, Io, Session, Reader, Dtor

\* No step takes a thread, a clock or the buffer out of its range.
LEMMA NextRanges ==
    ASSUME IInv, Next
    PROVE  Ranges'
  <1> SUFFICES ASSUME ~Rejected PROVE Ranges'
    BY RejectedRanges
  <1> USE ClientAssumption DEF IInv, TypeOK, Ranges, socket, reader, stream, caster
  <1>1. CASE RunLoop
    BY <1>1 DEF RunLoop, FirstVersion
  <1>2. CASE Decide
    BY <1>2 DEF Decide
  <1>3. CASE Backoff
    BY <1>3 DEF Backoff, AtMost
  <1>4. CASE ConnectFails
    BY <1>4 DEF ConnectFails
  <1>5. CASE Connected
    BY <1>5 DEF Connected
  <1>6. CASE SendRequest
    <2>1. /\ pc' = "headers"
          /\ UNCHANGED <<sock, ver, backoff, rd, item, buf, idle, quiet, ggaAge,
                         dtor, net, sess>>
      BY <1>6, Zenon DEF SendRequest
    <2> QED
      BY <2>1
  <1>7. CASE HeadersCheck
    <2>1. /\ pc' = "answer"
          /\ UNCHANGED <<sock, ver, backoff, rd, item, buf, idle, quiet, ggaAge,
                         dtor, net, sess>>
      BY <1>7, Zenon DEF HeadersCheck
    <2> QED
      BY <2>1
  <1>8. CASE AnswerRefused
    BY <1>8 DEF AnswerRefused
  <1>9. CASE OpenStream
    BY <1>9 DEF OpenStream, OpenStreamWith
  <1>10. CASE Poll
    BY <1>10 DEF Poll
  <1>11. CASE \E t \in 1..MaxNap : Nap(t)
    BY <1>11 DEF Nap, AtMost
  <1>12. CASE StallOut
    BY <1>12 DEF StallOut
  <1>13. CASE UploadGga
    <2>1. ggaAge' = 0 \/ ggaAge' = ggaAge
      BY <1>13 DEF UploadGga
    <2>2. ggaAge' \in 0..GgaPeriod
      BY <2>1
    <2>3. /\ pc' = "poll"
          /\ UNCHANGED <<sock, ver, backoff, rd, item, buf, idle, quiet, dtor,
                         net, sess>>
      BY <1>13 DEF UploadGga
    <2> QED
      BY <2>2, <2>3
  <1>14. CASE JoinReader
    BY <1>14 DEF JoinReader, CloseSocket
  <1>15. CASE ReaderCheck
    BY <1>15 DEF ReaderCheck
  <1>16. CASE ReaderRecv
    BY <1>16, ReadItemFacts DEF ReaderRecv
  <1>17. CASE ReaderEof
    BY <1>17 DEF ReaderEof
  <1>18. CASE DtorStop
    BY <1>18 DEF DtorStop
  <1>19. CASE DtorExchange
    BY <1>19 DEF DtorExchange
  <1>20. CASE DtorShutdown
    BY <1>20 DEF DtorShutdown
  <1>21. CASE DtorJoin
    BY <1>21 DEF DtorJoin
  <1>22. CASE Weather
    BY <1>22 DEF Weather
  <1>23. CASE StashGga
    BY <1>23 DEF StashGga
  <1> QED
    BY <1>1, <1>2, <1>3, <1>4, <1>5, <1>6, <1>7, <1>8, <1>9, <1>10, <1>11,
       <1>12, <1>13, <1>14, <1>15, <1>16, <1>17, <1>18, <1>19, <1>20, <1>21,
       <1>22, <1>23
       DEF Next, Io, Session, Reader, Dtor

\* No step mixes the bytes of two sessions in the framer, or lets the watchdog's
\* clock differ from the age of the stream it watches.
LEMMA NextStream ==
    ASSUME IInv, Next
    PROVE  SessionBytes' /\ WatchdogClock'
  <1> USE DEF IInv, TypeOK, SessionBytes, WatchdogClock, socket, reader,
          stream, caster
  <1>1. CASE RunLoop
    BY <1>1 DEF RunLoop
  <1>2. CASE Decide
    BY <1>2 DEF Decide
  <1>3. CASE Backoff
    BY <1>3 DEF Backoff
  <1>4. CASE ConnectFails
    BY <1>4 DEF ConnectFails
  <1>5. CASE Connected
    BY <1>5 DEF Connected
  <1>6. CASE SendRequest
    BY <1>6 DEF SendRequest, Rejected
  <1>7. CASE HeadersCheck
    BY <1>7 DEF HeadersCheck, Rejected
  <1>8. CASE AnswerRefused
    BY <1>8 DEF AnswerRefused, Rejected
  <1>9. CASE OpenStream
    BY <1>9 DEF OpenStream, OpenStreamWith
  <1>10. CASE Poll
    BY <1>10 DEF Poll
  <1>11. CASE \E t \in 1..MaxNap : Nap(t)
    BY <1>11 DEF Nap
  <1>12. CASE StallOut
    BY <1>12 DEF StallOut
  <1>13. CASE UploadGga
    BY <1>13 DEF UploadGga
  <1>14. CASE JoinReader
    BY <1>14 DEF JoinReader
  <1>15. CASE ReaderCheck
    BY <1>15 DEF ReaderCheck
  <1>16. CASE ReaderRecv
    BY <1>16, ReadItemFacts DEF ReaderRecv
  <1>17. CASE ReaderEof
    BY <1>17 DEF ReaderEof
  <1>18. CASE DtorStop
    BY <1>18 DEF DtorStop
  <1>19. CASE DtorExchange
    BY <1>19 DEF DtorExchange
  <1>20. CASE DtorShutdown
    BY <1>20 DEF DtorShutdown
  <1>21. CASE DtorJoin
    BY <1>21 DEF DtorJoin
  <1>22. CASE Weather
    BY <1>22 DEF Weather
  <1>23. CASE StashGga
    BY <1>23 DEF StashGga
  <1> QED
    BY <1>1, <1>2, <1>3, <1>4, <1>5, <1>6, <1>7, <1>8, <1>9, <1>10, <1>11,
       <1>12, <1>13, <1>14, <1>15, <1>16, <1>17, <1>18, <1>19, <1>20, <1>21,
       <1>22, <1>23
       DEF Next, Io, Session, Reader, Dtor

\* No step leaves the invariant.
LEMMA NextIInv == IInv /\ [Next]_vars => IInv'
  <1>1. ASSUME IInv, Next PROVE IInv'
    <2>1. TypeOK'
      BY <1>1, NextFlags, NextRanges DEF TypeOK, Flags, Ranges
    <2>2. SocketInv'
      BY <1>1, NextSocket
    <2>3. SessionBytes' /\ WatchdogClock'
      BY <1>1, NextStream
    <2> QED
      BY <2>1, <2>2, <2>3 DEF IInv, SocketInv
  <1>2. ASSUME IInv, UNCHANGED vars PROVE IInv'
    BY <1>2
       DEF IInv, TypeOK, DescriptorOwned, SessionBytes, StoppedByDtor, TakenOnce,
           SessionShowsSocket, SessionClosed, WatchdogClock, vars, socket,
           reader, stream, caster
  <1> QED
    BY <1>1, <1>2

-----------------------------------------------------------------------------
\* The inductive invariant holds in every reachable state.
THEOREM InvariantHolds == Spec => []IInv
  <1>1. Init => IInv
    BY InitIInv
  <1>2. IInv /\ [Next]_vars => IInv'
    BY NextIInv
  <1> QED
    BY <1>1, <1>2, PTL DEF Spec

\* The types hold, the backoff of run() within its two parameters included.
THEOREM TypeCorrect == Spec => []TypeOK
  <1>1. IInv => TypeOK
    BY DEF IInv
  <1> QED
    BY <1>1, InvariantHolds, PTL

\* The socket has one owner: neither close_socket nor the destructor ever acts
\* on a descriptor the other has closed, and no session leaks its socket.
THEOREM OneOwner == Spec => []DescriptorOwned
  <1>1. IInv => DescriptorOwned
    BY DEF IInv
  <1> QED
    BY <1>1, InvariantHolds, PTL

\* The framer never holds bytes of two sessions (framer_.reset in one_session).
THEOREM SessionsApart == Spec => []SessionBytes
  <1>1. IInv => SessionBytes
    BY DEF IInv
  <1> QED
    BY <1>1, InvariantHolds, PTL

\* The watchdog only ends a stream that has really been without a frame for
\* rtcm_timeout_s: last_frame_ns_ is armed by every session.
THEOREM StallsAreReal == Spec => StallIsReal
  <1>1. IInv /\ StallOut => quiet = RtcmTimeout
    BY ClientAssumption DEF IInv, TypeOK, WatchdogClock, StallOut, Stalled
  <1>2. IInv /\ [Next]_vars => [StallOut => quiet = RtcmTimeout]_vars
    BY <1>1
  <1> QED
    BY <1>2, InvariantHolds, PTL DEF Spec, StallIsReal
=============================================================================
