----------------------------- MODULE Um982Driver ----------------------------
(***************************************************************************)
(* The UM982 GNSS driver node (um982_driver_node.cpp).  Two threads: the   *)
(* executor runs the lifecycle transitions, the RTCM subscription and the  *)
(* diagnostics timer one at a time (`cb`); the io thread (`io`) blocks in  *)
(* read() on the tty, splits, parses and publishes.                        *)
(*                                                                         *)
(* A tick is one second.  One read brings one piece of a line; a sentence  *)
(* says what the receiver sees (`sky`) when it is completed.  `pub` is the *)
(* set of messages the last sentence led to.  EINTR is retried unseen, and *)
(* a write to the tty does not block.  The counters that only /diagnostics *)
(* shows are left out.                                                     *)
(***************************************************************************)
EXTENDS Um982Parsers

CONSTANTS
    Report,             \* external: what the receiver says, by what it sees
    Mode, Unlogall, Save,       \* mode, unlogall_on_configure, save_config_on_configure
    OutputMessages,     \* output_messages.names, a sequence of sentence names
    MinHeadingQuality,  \* min_heading_quality
    GstStale            \* kGstStaleSec in ticks

Skies == DOMAIN Report

ASSUME DriverAssumption ==
    /\ {MinHeadingQuality, GstStale} \subseteq Nat
    /\ {Unlogall, Save} \subseteq BOOLEAN
    /\ {"none", "rtk"} \subseteq Skies

VARIABLES
    lc,             \* the lifecycle state
    cb,             \* the executor: "idle" or the callback that waits in join
    made,           \* rtcm_sub_ and diag_ exist
    fd,             \* fd_: "none", "ok", or "stale" when the device was unplugged
    running,        \* running_
    io,             \* io_thread_: "none" (not joinable) or where it is
    active,         \* the publishers are activated
    split,          \* splitter_
    gst,            \* last_gst_ and its age, capped at GstStale
    quality,        \* last_quality_
    diag,           \* the level of the last diagnostics
    pub,            \* the messages the last completed sentence led to
    port,           \* external: the device is plugged in
    logs,           \* external: the sentences the receiver sends
    corr,           \* external: it has fresh corrections
    sky,            \* external: what it sees
    since           \* external: ticks since it had a fixed solution, capped

node == <<lc, cb, made, fd, running, io, active>>
snapshot == <<gst, quality, diag, pub>>
receiver == <<port, logs, corr, sky, since>>
vars == <<node, split, snapshot, receiver>>

Kinds == {"GGA", "GST", "RMC", "VTG", "KSXT", "UNIHEADING"}
NoGst == [lat |-> 0, lon |-> 0, age |-> GstStale]

Init ==
    /\ lc = "unconfigured" /\ cb = "idle" /\ made = FALSE /\ fd = "none"
    /\ running = FALSE /\ io = "none" /\ active = FALSE
    /\ split = "idle"
    /\ gst = NoGst /\ quality = 0 /\ diag = "none" /\ pub = {}
    /\ port = TRUE /\ logs = {} /\ corr = FALSE /\ sky = "none"
    /\ since = GstStale

-----------------------------------------------------------------------------
(* The receiver *)

Sees(s) == sky' = s /\ since' = IF s = "rtk" THEN 0 ELSE since

\* What it sees gets better, for a fixed solution with corrections only, or
\* worse.
Clears ==
    /\ \E s \in Skies \ {sky} :
        /\ s = "rtk" => corr
        /\ Sees(s)
    /\ UNCHANGED <<node, split, snapshot, port, logs, corr>>

\* Corrections age, and a fixed solution with them.
LosesCorrections ==
    /\ corr
    /\ corr' = FALSE
    /\ \E s \in Skies \ {"rtk"} : Sees(s)
    /\ UNCHANGED <<node, split, snapshot, port, logs>>

\* The receiver restarts, behind a USB bridge that stays up or with it: it
\* sends nothing until it is configured again, unless it was told to save.
Resets ==
    /\ port
    /\ logs' = IF Save THEN logs ELSE {}
    /\ corr' = FALSE /\ Sees("none")

Restarts ==
    /\ Resets
    /\ UNCHANGED <<node, split, snapshot, port>>

\* The descriptor goes bad for good, and a read() on it returns.
Unplugged ==
    /\ Resets
    /\ port' = FALSE
    /\ fd' = IF fd = "ok" THEN "stale" ELSE fd
    /\ io' = IF io = "read" THEN "ended" ELSE io
    /\ UNCHANGED <<lc, cb, made, running, active, split, snapshot>>

Plugged ==
    /\ ~port
    /\ port' = TRUE
    /\ UNCHANGED <<node, split, snapshot, logs, corr, sky, since>>

Older(t) == IF t < GstStale THEN t + 1 ELSE t

Tick ==
    /\ gst' = [gst EXCEPT !.age = Older(gst.age)]
    /\ since' = IF sky = "rtk" THEN 0 ELSE Older(since)
    /\ <<gst, since>>' # <<gst, since>>
    /\ UNCHANGED <<node, split, quality, diag, pub, port, logs, corr, sky>>

-----------------------------------------------------------------------------
(* The executor *)

\* The sentences the receiver sends once it has taken the commands.
Commands ==
    InitCommands(Mode, Unlogall, FALSE, << >>, OutputMessages, Save)
LogsAfter(cmds) ==
    LET unlogs == {i \in DOMAIN cmds : cmds[i] = "unlogall"}
        kept == {i \in DOMAIN cmds : \A u \in unlogs : i > u}
    IN  ({cmds[i] : i \in kept} \cap Kinds)
        \cup (IF unlogs = {} THEN logs ELSE {})

\* The port is opened and the commands written.  Without a port it fails and
\* leaves the node unconfigured, with its subscription and its timer.
on_configure ==
    /\ cb = "idle" /\ lc = "unconfigured"
    /\ made' = TRUE /\ active' = FALSE
    /\ \/ /\ port
          /\ lc' = "inactive" /\ fd' = "ok"
          /\ split' = "idle"
          /\ logs' = LogsAfter(Commands)
       \/ /\ ~port /\ ~made
          /\ UNCHANGED <<lc, fd, split, logs>>
    /\ UNCHANGED <<cb, running, io, snapshot, port, corr, sky, since>>

on_activate ==
    /\ cb = "idle" /\ lc = "inactive"
    /\ lc' = "active" /\ active' = TRUE
    /\ running' = TRUE /\ io' = "test"
    /\ UNCHANGED <<cb, made, fd, split, snapshot, receiver>>

\* ::shutdown() on a tty does nothing; the join waits for the thread.
on_deactivate ==
    /\ cb = "idle" /\ lc = "active"
    /\ running' = FALSE /\ cb' = "deactivate"
    /\ UNCHANGED <<lc, made, fd, io, active, split, snapshot, receiver>>

Joined == io \in {"none", "ended"}

Deactivated ==
    /\ cb = "deactivate" /\ Joined
    /\ cb' = "idle" /\ lc' = "inactive" /\ active' = FALSE /\ io' = "none"
    /\ UNCHANGED <<made, fd, running, split, snapshot, receiver>>

on_cleanup ==
    /\ cb = "idle" /\ lc = "inactive"
    /\ lc' = "unconfigured" /\ fd' = "none" /\ made' = FALSE
    /\ UNCHANGED <<cb, running, io, active, split, snapshot, receiver>>

\* on_shutdown, and the destructor, from any state: the port is closed under
\* the thread and the thread joined.
Stop ==
    /\ cb = "idle" /\ lc # "finalized"
    /\ running' = FALSE /\ fd' = "none" /\ cb' = "stop"
    /\ UNCHANGED <<lc, made, io, active, split, snapshot, receiver>>

Stopped ==
    /\ cb = "stop" /\ Joined
    /\ cb' = "idle" /\ lc' = "finalized" /\ io' = "none"
    /\ UNCHANGED <<made, fd, running, active, split, snapshot, receiver>>

\* A correction is written to the receiver in every state with an open port;
\* write_all fails without one.
on_rtcm ==
    /\ cb = "idle" /\ made
    /\ fd = "ok" /\ ~corr
    /\ corr' = TRUE
    /\ UNCHANGED <<node, split, snapshot, port, logs, sky, since>>

Level(q) ==
    CASE q = 4 -> "OK" [] q = 0 -> "ERROR" [] OTHER -> "WARN"

produce_diagnostics ==
    /\ cb = "idle" /\ made
    /\ diag' = Level(quality) /\ diag' # diag
    /\ UNCHANGED <<node, split, gst, quality, pub, receiver>>

-----------------------------------------------------------------------------
(* The io thread *)

Goto(from, to) ==
    /\ io = from
    /\ io' = to
    /\ UNCHANGED <<lc, cb, made, fd, running, active, receiver>>

\* running_ and fd_ are loaded.
Test ==
    /\ Goto("test", IF running /\ fd # "none" THEN "enter" ELSE "ended")
    /\ pub' = {}
    /\ UNCHANGED <<split, gst, quality, diag>>

\* read() is called: it fails on a descriptor that is closed or gone.
Enter ==
    /\ Goto("enter", IF fd = "ok" THEN "read" ELSE "ended")
    /\ UNCHANGED <<split, snapshot>>

\* A piece of a line that completes no sentence.
ReadPiece ==
    /\ port /\ logs # {}
    /\ Goto("read", "test")
    /\ \E piece \in Pieces :
        /\ ~Emits(split, piece)
        /\ split' = Split(split, piece)
    /\ UNCHANGED snapshot

\* The sentence of a kind that says what is seen at a sky.
SentenceOf(kind, at, sum) ==
    [family |-> IF kind = "UNIHEADING" THEN "unicore" ELSE "nmea",
     id |-> kind, sum |-> sum, count |-> Report[at].count, fields |-> Report[at]]

\* mutant: the age of the GST is not looked at
FreshGst_Any == gst # NoGst

FreshGst == gst.age < GstStale

\* mutant: the fixed solutions fall through to the default
Status_NoGbas(q) ==
    CASE q \in {1, 3, 6} -> "FIX" [] q = 2 -> "SBAS_FIX" [] OTHER -> "NO_FIX"

Status(q) ==
    CASE q \in {1, 3, 6} -> "FIX" [] q = 2 -> "SBAS_FIX" [] q \in {4, 5} -> "GBAS_FIX"
      [] OTHER -> "NO_FIX"
quality_to_sigma(q) ==
    CASE q = 4 -> 2 [] q = 5 -> 30 [] q = 2 -> 100 [] q \in {1, 3} -> 300
      [] q = 6 -> 1000 [] OTHER -> 10000

\* The variances of a fix: the receiver's own when they are recent, else an
\* estimate (hdop in halves, at least one half).
Fix(gga) ==
    LET h == IF gga.hdop > 1 THEN gga.hdop ELSE 1
        sigma == quality_to_sigma(gga.quality) * h
    IN  [topic |-> "fix", status |-> Status(gga.quality), position |-> gga.position,
         type |-> IF FreshGst THEN "KNOWN" ELSE "APPROXIMATED",
         east |-> IF FreshGst THEN gst.lon * gst.lon ELSE (sigma * sigma) \div 4,
         north |-> IF FreshGst THEN gst.lat * gst.lat ELSE (sigma * sigma) \div 4]

\* What a publisher that is_activated() lets through.
Published(m) == IF active THEN {m} ELSE {}

\* mutant: the state for the diagnostics is kept when there is no fix
publish_gga_KeepQuality(gga, raw) ==
    /\ pub' = raw \cup Published(Fix(gga))
    /\ quality' = IF gga.quality = 0 THEN quality ELSE gga.quality
    /\ UNCHANGED gst

publish_gga(gga, raw) ==
    /\ pub' = raw \cup Published(Fix(gga))
    /\ quality' = gga.quality
    /\ UNCHANGED gst

publish_rmc(rmc) == IF rmc.valid THEN Published([topic |-> "time"]) ELSE {}

\* The speed is along the course, or along x when there is none.
publish_vtg(vtg) == Published([topic |-> "velocity", course |-> vtg.course # NoField])

\* mutant: the placeholder of an unsolved baseline is published
publish_ksxt_Any(k) ==
    IF k.heading # NoField
    THEN Published([topic |-> "heading", yaw |-> (90 - k.heading) % 360]) ELSE {}

publish_ksxt(k) ==
    IF k.heading # NoField /\ k.quality >= MinHeadingQuality
    THEN Published([topic |-> "heading", yaw |-> (90 - k.heading) % 360]) ELSE {}

\* A Unicore message and a bad checksum change nothing; every other sentence
\* is republished as it is, and then published for what it says, if it parses.
handle_sentence(s) ==
    LET raw == Published([topic |-> "nmea", id |-> s.id])
    IN  IF s.family = "unicore" \/ ~Verified(s)
        THEN pub' = {} /\ UNCHANGED <<gst, quality>>
        ELSE \/ \E gga \in parse_gga(s) : publish_gga(gga, raw)
             \/ /\ parse_gga(s) = {}
                /\ pub' = raw \cup UNION (  {publish_rmc(r) : r \in parse_rmc(s)}
                                         \cup {publish_vtg(v) : v \in parse_vtg(s)}
                                         \cup {publish_ksxt(k) : k \in parse_ksxt(s)})
                /\ \/ gst' \in parse_gst(s)
                   \/ parse_gst(s) = {} /\ UNCHANGED gst
                /\ UNCHANGED quality

\* The end of a line arrives, or a whole line at once.
ReadSentence(kind) ==
    /\ port /\ kind \in logs
    /\ Goto("read", "test")
    /\ split' = Split(split, "end")
    /\ handle_sentence(SentenceOf(kind, sky, TRUE))
    /\ UNCHANGED diag

\* The end of a line that was damaged on the way: it may read as anything,
\* and its checksum does not agree.
ReadDamaged(kind) ==
    /\ port /\ kind \in logs
    /\ split = "damaged"
    /\ Goto("read", "test")
    /\ split' = Split(split, "end")
    /\ \E at \in Skies : handle_sentence(SentenceOf(kind, at, FALSE))
    /\ UNCHANGED diag

-----------------------------------------------------------------------------
IoStep == Test \/ Enter
Executor ==
    \/ on_configure \/ on_activate \/ on_deactivate \/ Deactivated \/ on_cleanup
    \/ Stop \/ Stopped \/ on_rtcm \/ produce_diagnostics
External ==
    Clears \/ LosesCorrections \/ Restarts \/ Unplugged \/ Plugged \/ Tick

Next ==
    \/ lc # "finalized" /\ External
    \/ Executor \/ IoStep \/ ReadPiece
    \/ \E k \in Kinds : ReadSentence(k) \/ ReadDamaged(k)

Spec == Init /\ [][Next]_vars

\* Both threads run and joins return; the timer fires; the sentences the
\* receiver is told to send come (it is enough that two kinds do).
FairSpec ==
    /\ Spec
    /\ WF_vars(IoStep) /\ WF_vars(Deactivated \/ Stopped)
    /\ WF_vars(produce_diagnostics)
    /\ \A k \in {"GGA", "GST"} : SF_vars(ReadSentence(k))

-----------------------------------------------------------------------------
(* Properties *)

TypeOK ==
    /\ lc \in {"unconfigured", "inactive", "active", "finalized"}
    /\ cb \in {"idle", "deactivate", "stop"}
    /\ fd \in {"none", "ok", "stale"}
    /\ {running, active, made, port, corr} \subseteq BOOLEAN
    /\ io \in {"none", "test", "enter", "read", "ended"}
    /\ lc = "active" /\ cb = "idle" => running /\ active /\ io # "none"
    /\ lc # "active" => io = "none"
    /\ split \in SplitStates
    /\ {gst.age, since} \subseteq 0 .. GstStale
    /\ quality \in 0 .. 8
    /\ diag \in {"none", "OK", "WARN", "ERROR"}
    /\ logs \subseteq Kinds
    /\ sky \in Skies

\* When the receiver loses its fix and keeps saying so, /diagnostics says
\* ERROR and goes on saying it.
FixLossReported ==
    <>[](/\ lc = "active" /\ cb = "idle" /\ fd = "ok"
         /\ logs = Kinds /\ sky = "none")
        => <>[](diag = "ERROR")
=============================================================================
