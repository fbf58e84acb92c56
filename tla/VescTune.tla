------------------------------ MODULE VescTune ------------------------------
(***************************************************************************)
(* vesc_tune.py: one run of the host's tuning tool against the motor       *)
(* controller's command line.  The main thread sends commands and waits    *)
(* for OK; a reader thread cuts the byte stream into lines and queues      *)
(* them; Ctrl-C runs a handler in the main thread between any two of its   *)
(* steps.  The controller, the line and the operator are external.         *)
(*                                                                         *)
(* A line on the wire is two pieces, its body and its newline, so that a   *)
(* read can end inside it.  An answer carries the command it answers,      *)
(* which the tool cannot see.  Time is a deadline that may pass at any     *)
(* moment.                                                                 *)
(***************************************************************************)
EXTENDS Naturals, Sequences, SequencesExt

CONSTANTS
    Subcommands,    \* the subcommands the operator may run
    Typed,          \* commands typed at, or piped into, the repl
    MaxTyped,       \* bound: how many of them
    MaxRows,        \* bound: telemetry rows counted, at least one
    MaxBacklog      \* bound: pieces and lines not taken yet

Experiments == {"step", "chirp"}

ASSUME TuneAssumption ==
    /\ Subcommands \subseteq Experiments \cup {"status", "repl"}
    /\ MaxTyped \in Nat /\ MaxRows \in Nat \ {0} /\ MaxBacklog \in Nat

VARIABLES
    sub, tcp,           \* args.cmd; whether --host was given
    pc, exc, rc,        \* main thread, the exception on its way, exit status
    step,               \* how many of run_experiment's commands were sent
    rows,               \* len(rows)
    saved,              \* the CSV was written
    rx, q,              \* _rx_buf, _lines
    reader, stop, open, \* reader thread alive, _stop set, link not closed
    up, toFw, toHost,   \* external: the line, the commands and pieces on it
    fw,                 \* external: the controller
    typed,              \* external: commands typed so far
    stale,              \* an answer to an earlier run is on its way
    sent,               \* history: the newest command the line took
    matched             \* history: every OK answered the command waited for

host == <<pc, exc, rc, step, rows, saved, matched>>
io == <<rx, q, reader>>
wire == <<up, toFw, toHost, fw>>
fixed == <<sub, tcp, stale>>
vars == <<host, io, wire, fixed, stop, open, typed, sent>>

Line(kind, of) == [kind |-> kind, of |-> of]
NewLine == Line("nl", "")

-----------------------------------------------------------------------------
(* The link *)

\* A write is queued, lost in a dead line's buffers, or raises.
Send(c) ==
    /\ open
    /\ toFw' = IF up THEN Append(toFw, c) ELSE toFw
    /\ sent' = IF up THEN c ELSE sent
    /\ UNCHANGED <<up, toHost, fw>>

SendRaises ==
    /\ ~open \/ ~up
    /\ UNCHANGED <<wire, sent>>

\* try: link.send(...) except Exception: pass
TrySend(c) == Send(c) \/ SendRaises

\* The whole lines in the buffer, and what is left of it: up to the last newline
\* every second piece is the body of a line.
Complete(buf) ==
    LET ends == {i \in DOMAIN buf : buf[i] = NewLine}
        last == IF ends = {} THEN 0 ELSE Max(ends)
    IN  [lines |-> [k \in 1 .. last \div 2 |-> buf[2 * k - 1]],
         rest |-> SubSeq(buf, last + 1, Len(buf))]

\* A chunk of n pieces; a read that times out, and one at a TCP peer's end of
\* file, change nothing and are tried again.
ReadChunk(n) ==
    /\ reader /\ ~stop /\ open
    /\ n <= Len(toHost)
    /\ LET got == Complete(rx \o SubSeq(toHost, 1, n))
       IN  rx' = got.rest /\ q' = q \o got.lines
    /\ toHost' = SubSeq(toHost, n + 1, Len(toHost))
    /\ UNCHANGED <<host, reader, up, toFw, fw, fixed, stop, open, typed, sent>>

\* _stop is set, or the read raised on a closed or broken link.
ReaderEnds ==
    /\ reader
    /\ stop \/ ~open \/ ~up
    /\ reader' = FALSE
    /\ UNCHANGED <<host, rx, q, wire, fixed, stop, open, typed, sent>>

\* recv_line with a line of one of these kinds at the head of the queue
Take(kinds) ==
    /\ q # <<>>
    /\ Head(q).kind \in kinds
    /\ q' = Tail(q)
    /\ UNCHANGED <<rx, reader, wire, sent>>

-----------------------------------------------------------------------------
(* The main thread *)

Goto(at) == pc' = at
Raise(e, at) == exc' = e /\ pc' = at

Init ==
    /\ sub \in Subcommands
    /\ tcp \in BOOLEAN
    /\ stale \in BOOLEAN /\ (stale => ~tcp)
    /\ pc = "main" /\ exc = "none" /\ rc = 0
    /\ step = 0 /\ rows = 0 /\ saved = FALSE
    /\ rx = <<>> /\ q = <<>>
    /\ reader = TRUE /\ stop = FALSE /\ open = TRUE
    /\ up = TRUE
    /\ toFw = <<>>
    /\ toHost = IF stale THEN <<Line("OK", "stop"), NewLine>> ELSE <<>>
    /\ \E on \in BOOLEAN : fw = [enabled |-> FALSE, log |-> on, running |-> FALSE]
    /\ typed = 0
    /\ sent = "none" /\ matched = TRUE

\* The subcommand of args; its first command for status.
Main ==
    /\ pc = "main"
    /\ \/ /\ sub \in Experiments
          /\ Goto("send") /\ UNCHANGED <<exc, wire, sent>>
       \/ /\ sub = "repl"
          /\ Goto("repl") /\ UNCHANGED <<exc, wire, sent>>
       \/ /\ sub = "status"
          /\ \/ Send("status") /\ Goto("status") /\ UNCHANGED exc
             \/ SendRaises /\ Raise("OSError", "final")
    /\ UNCHANGED <<rc, step, rows, saved, matched, io, fixed, stop, open, typed>>

Script == <<"enable", "log", "experiment">>
Awaited == IF pc = "waitstop" THEN "stop" ELSE Script[step]

\* run_experiment's three commands, outside its try block
SendCommand ==
    /\ pc = "send"
    /\ \/ Send(Script[step + 1]) /\ Goto("wait") /\ UNCHANGED exc
       \/ SendRaises /\ Raise("OSError", "final")
    /\ step' = step + 1
    /\ UNCHANGED <<rc, rows, saved, matched, io, fixed, stop, open, typed>>

\* wait_ok passes over everything that is not OK or ERR.
WaitSkip ==
    /\ pc \in {"wait", "waitstop"}
    /\ Take({"T", "R", "E"})
    /\ UNCHANGED <<host, fixed, stop, open, typed>>

AfterOk == IF step < Len(Script) THEN "send" ELSE "capture"

\* run_experiment's finally lets a pending exception go on.
AfterStop == IF exc = "none" THEN "save" ELSE "final"

WaitOk ==
    /\ pc \in {"wait", "waitstop"}
    /\ Take({"OK"})
    /\ matched' = (matched /\ Head(q).of = Awaited)
    /\ Goto(IF pc = "wait" THEN AfterOk ELSE AfterStop)
    /\ UNCHANGED <<exc, rc, step, rows, saved, fixed, stop, open, typed>>

\* RuntimeError; the one after `stop` is caught.
WaitErr ==
    /\ pc \in {"wait", "waitstop"}
    /\ Take({"ERR"})
    /\ IF pc = "wait" THEN Raise("RuntimeError", "final")
       ELSE Goto(AfterStop) /\ UNCHANGED exc
    /\ UNCHANGED <<rc, step, rows, saved, matched, fixed, stop, open, typed>>

\* mutant: every line received starts the wait again
WaitTimeout_PerLine ==
    /\ pc \in {"wait", "waitstop"}
    /\ q = <<>>
    /\ IF pc = "wait" THEN Raise("TimeoutError", "final")
       ELSE Goto(AfterStop) /\ UNCHANGED exc
    /\ UNCHANGED <<rc, step, rows, saved, matched, io, wire, sent, fixed, stop,
                   open, typed>>

\* mutant: a command that is not answered counts as done
WaitTimeout_GoOn ==
    /\ pc \in {"wait", "waitstop"}
    /\ Goto(IF pc = "wait" THEN AfterOk ELSE AfterStop)
    /\ UNCHANGED <<exc, rc, step, rows, saved, matched, io, wire, sent, fixed,
                   stop, open, typed>>

\* One deadline for all the lines of a wait: it passes even while they arrive.
WaitTimeout ==
    /\ pc \in {"wait", "waitstop"}
    /\ IF pc = "wait" THEN Raise("TimeoutError", "final")
       ELSE Goto(AfterStop) /\ UNCHANGED exc
    /\ UNCHANGED <<rc, step, rows, saved, matched, io, wire, sent, fixed, stop,
                   open, typed>>

\* A row is kept; E,exp_done only brings the deadline nearer.
CaptureLine ==
    /\ pc = "capture"
    /\ Take({"T", "E", "R", "OK", "ERR"})
    /\ rows' = IF Head(q).kind = "T" /\ rows < MaxRows THEN rows + 1 ELSE rows
    /\ UNCHANGED <<pc, exc, rc, step, saved, matched, fixed, stop, open, typed>>

CaptureDeadline ==
    /\ pc = "capture"
    /\ Goto("stop")
    /\ UNCHANGED <<exc, rc, step, rows, saved, matched, io, wire, sent, fixed,
                   stop, open, typed>>

\* run_experiment's finally: this send is not in a try block of its own.
StopExperiment ==
    /\ pc = "stop"
    /\ \/ Send("stop") /\ Goto("waitstop") /\ UNCHANGED exc
       \/ SendRaises /\ Raise("OSError", "final")
    /\ UNCHANGED <<rc, step, rows, saved, matched, io, fixed, stop, open, typed>>

\* The directory or the file may not be there to write to.
SaveCsv ==
    /\ pc = "save"
    /\ \/ saved' = TRUE /\ Goto("final") /\ UNCHANGED exc
       \/ Raise("OSError", "final") /\ UNCHANGED saved
    /\ UNCHANGED <<rc, step, rows, matched, io, wire, sent, fixed, stop, open, typed>>

\* The first R line ends the query; none before the deadline is exit status 1.
StatusLine ==
    /\ pc = "status"
    /\ Take({"R", "T", "E", "OK", "ERR"})
    /\ Goto(IF Head(q).kind = "R" THEN "final" ELSE "status")
    /\ UNCHANGED <<exc, rc, step, rows, saved, matched, fixed, stop, open, typed>>

StatusTimeout ==
    /\ pc = "status"
    /\ rc' = 1
    /\ Goto("final")
    /\ UNCHANGED <<exc, step, rows, saved, matched, io, wire, sent, fixed, stop,
                   open, typed>>

\* cmd_repl: a line of stdin is sent as it is; a failed send ends the loop.
ReplSend(c) ==
    /\ pc = "repl"
    /\ typed < MaxTyped
    /\ typed' = typed + 1
    /\ \/ Send(c) /\ UNCHANGED <<pc, exc>>
       \/ SendRaises /\ Raise("OSError", "replstop")
    /\ UNCHANGED <<rc, step, rows, saved, matched, io, fixed, stop, open>>

\* The printer thread shows whatever arrives.
ReplPrint ==
    /\ pc = "repl"
    /\ Take({"T", "R", "E", "OK", "ERR"})
    /\ UNCHANGED <<host, fixed, stop, open, typed>>

ReplEof ==
    /\ pc = "repl"
    /\ Goto("replstop")
    /\ UNCHANGED <<exc, rc, step, rows, saved, matched, io, wire, sent, fixed,
                   stop, open, typed>>

ReplStop ==
    /\ pc = "replstop"
    /\ TrySend("stop")
    /\ Goto("final")
    /\ UNCHANGED <<exc, rc, step, rows, saved, matched, io, fixed, stop, open,
                   typed>>

ExitStatus(e) == IF e = "SystemExit" THEN 130 ELSE IF e = "none" THEN rc ELSE 1

\* mutant: only the experiment's own finally stops the motors
Final_CloseOnly ==
    /\ pc = "final"
    /\ stop' = TRUE /\ open' = FALSE
    /\ rc' = ExitStatus(exc)
    /\ Goto("exited")
    /\ UNCHANGED <<exc, step, rows, saved, matched, io, wire, sent, fixed, typed>>

\* main's finally: stop, whatever happened, and close.
Final ==
    /\ pc = "final"
    /\ TrySend("stop")
    /\ stop' = TRUE /\ open' = FALSE
    /\ rc' = ExitStatus(exc)
    /\ Goto("exited")
    /\ UNCHANGED <<exc, step, rows, saved, matched, io, fixed, typed>>

\* Where sys.exit, raised by the handler, leaves the block it interrupts.
Unwound ==
    CASE pc = "capture" -> "stop"
      [] pc = "repl" -> "replstop"
      [] pc = "final" -> "exited"
      [] OTHER -> "final"

\* on_sigint, between two steps of the main thread.  A second Ctrl-C, which would
\* run the handler again inside the blocks its SystemExit unwinds, is left out.
OnSigint ==
    /\ pc # "exited"
    /\ exc # "SystemExit"
    /\ TrySend("stop")
    /\ stop' = TRUE /\ open' = FALSE
    /\ Raise("SystemExit", Unwound)
    /\ rc' = IF Unwound = "exited" THEN 130 ELSE rc
    /\ UNCHANGED <<step, rows, saved, matched, io, fixed, typed>>

-----------------------------------------------------------------------------
(* External: the controller, the line *)

Room == Len(q) + Len(toHost) < MaxBacklog

Emit(l) == toHost' = toHost \o <<l, NewLine>>

\* What the controller answers to c, and what becomes of it.
Answers(c) ==
    CASE c = "status" -> {<<"R", fw>>}
      [] c = "enable" -> {<<"OK", [fw EXCEPT !.enabled = TRUE]>>, <<"ERR", fw>>}
      [] c = "log" -> {<<"OK", [fw EXCEPT !.log = TRUE]>>}
      [] c = "experiment" -> IF fw.enabled THEN {<<"OK", [fw EXCEPT !.running = TRUE]>>}
                             ELSE {<<"ERR", fw>>}
      [] c = "stop" -> {<<"OK", [fw EXCEPT !.enabled = FALSE, !.running = FALSE]>>}
      [] OTHER -> {<<"OK", fw>>, <<"ERR", fw>>}

Execute ==
    /\ up /\ toFw # <<>> /\ Room
    /\ \E a \in Answers(Head(toFw)) :
          /\ Emit(Line(a[1], Head(toFw)))
          /\ fw' = a[2]
    /\ toFw' = Tail(toFw)
    /\ UNCHANGED <<host, io, up, fixed, stop, open, typed, sent>>

Telemetry ==
    /\ up /\ fw.log /\ Room
    /\ Emit(Line("T", ""))
    /\ UNCHANGED <<host, io, up, toFw, fw, fixed, stop, open, typed, sent>>

ExpDone ==
    /\ up /\ fw.running /\ Room
    /\ fw' = [fw EXCEPT !.running = FALSE]
    /\ Emit(Line("E", ""))
    /\ UNCHANGED <<host, io, up, toFw, fixed, stop, open, typed, sent>>

\* The line breaks: what was on it is lost, but for n pieces already received,
\* and the controller's watchdog stops the motors.
LinkLost(n) ==
    /\ up /\ n <= Len(toHost)
    /\ up' = FALSE
    /\ toFw' = <<>>
    /\ toHost' = SubSeq(toHost, 1, n)
    /\ fw' = [fw EXCEPT !.enabled = FALSE, !.running = FALSE]
    /\ UNCHANGED <<host, io, fixed, stop, open, typed, sent>>

-----------------------------------------------------------------------------
RunExperiment ==
    \/ SendCommand
    \/ WaitSkip \/ WaitOk \/ WaitErr
    \/ CaptureLine
    \/ StopExperiment
    \/ SaveCsv

MainThread ==
    \/ Main
    \/ RunExperiment
    \/ StatusLine
    \/ ReplPrint \/ ReplStop
    \/ Final

Deadlines == WaitTimeout \/ CaptureDeadline \/ StatusTimeout

External ==
    \/ Execute \/ Telemetry \/ ExpDone
    \/ \E n \in 0 .. MaxBacklog + 1 : LinkLost(n)
    \/ \E c \in Typed : ReplSend(c)
    \/ ReplEof
    \/ OnSigint

Next ==
    \/ MainThread
    \/ Deadlines
    \/ \E n \in 1 .. 3 : ReadChunk(n)
    \/ ReaderEnds
    \/ External
    \/ pc = "exited" /\ UNCHANGED vars

Spec == Init /\ [][Next]_vars

\* The main thread runs, and the clock reaches every deadline.
FairSpec ==
    /\ Spec
    /\ WF_vars(MainThread)
    /\ WF_vars(WaitTimeout)
    /\ WF_vars(CaptureDeadline)
    /\ WF_vars(StatusTimeout)

-----------------------------------------------------------------------------
(* Properties *)

\* An OK is the answer to the command it is waited for: a late answer is never
\* taken for the next one's, so telemetry is captured only from an experiment
\* that the controller accepted, unless an earlier run left an answer on the
\* serial line (wait_ok, run_experiment).
AnswersMatch ==
    ~stale =>
        /\ matched
        /\ pc = "capture" /\ up => fw.enabled

\* Whatever ends the run, an error, a deadline or Ctrl-C at any step, the last
\* command a working line took is `stop` (main's and run_experiment's finally,
\* on_sigint).
StopLast == pc = "exited" /\ up => sent = "stop"

\* Every subcommand but the repl comes to an end, with telemetry that never
\* pauses, a controller that never answers or a line that is gone (lines).
ClientReturns == sub # "repl" => <>(pc = "exited")
=============================================================================
