------------------------------ MODULE TuningMC ------------------------------
(***************************************************************************)
(* The bench runs one script at a time: vesc_tune.py by hand, or the       *)
(* search of auto_tune.py, which sees the tool as a child by its result    *)
(* only, so that the one that is not run rests.                            *)
(***************************************************************************)
EXTENDS AutoTune, VescTune

mcSubcommands == {"step", "chirp", "status", "repl"}
mcTyped == {"enable", "gains"}

mcStart == [kp |-> 40, ki |-> 6, kd |-> 0]
mcRow(ms, tgt, erpm, amps) ==
    [t |-> ms, tgt |-> [L |-> tgt, R |-> 0], erpm |-> [L |-> erpm, R |-> 0],
     i |-> [L |-> amps, R |-> 0]]

\* A response that overshoots, and one with too much current, which the average
\* with one of the first hides.  With two steps of two repeats the costs are 2, 13
\* and 24, within the margin of one another and beyond it, and those with one
\* sentinel or two.
mcRinging == <<mcRow(0, 0, 0, 0), mcRow(100, 500, 100, 4), mcRow(200, 500, 600, 8),
               mcRow(400, 500, 450, 6), mcRow(700, 500, 520, 4), mcRow(800, 500, 500, 4),
               mcRow(900, 0, 300, 0)>>
mcHot == <<mcRow(0, 500, 100, 12), mcRow(200, 500, 500, 20), mcRow(800, 500, 500, 6)>>

ASSUME Scores ==
    LET score(a, b) == score_one(avg_metrics(<<metrics(a, "L"), metrics(b, "L")>>))
    IN  /\ score(mcRinging, mcRinging) = 12
        /\ score(mcRinging, mcHot) = 1
        /\ score(mcHot, mcHot) = Reject

\* A capture with no side given is read for the wheel that has a target.
ASSUME SideDetected ==
    /\ \A c \in {mcRinging, mcHot} : metrics(c, "none") = metrics(c, "L")
    /\ metrics(<<mcRow(0, 0, 3, 1)>>, "none") = NoMetrics

mcCaptures == {mcRinging, mcHot}

VARIABLE script     \* the one that is run

bench == <<script, tunerVars, vars>>

\* While the search runs the tool rests where a repl would begin.
BenchInit ==
    /\ Init /\ TunerInit
    /\ \/ script = "vesc_tune"
       \/ script = "auto_tune" /\ sub = "repl" /\ ~tcp /\ ~stale /\ ~fw.log

BenchTool == script = "vesc_tune" /\ Next /\ UNCHANGED <<script, tunerVars>>
BenchSearch == script = "auto_tune" /\ TunerNext /\ UNCHANGED <<script, vars>>

BenchNext == BenchTool \/ BenchSearch

\* FairSpec of the tool, and TunerSpec
BenchSpec ==
    /\ BenchInit /\ [][BenchNext]_bench
    /\ WF_vars(script = "vesc_tune" /\ MainThread)
    /\ WF_vars(script = "vesc_tune" /\ WaitTimeout)
    /\ WF_vars(script = "vesc_tune" /\ CaptureDeadline)
    /\ WF_vars(script = "vesc_tune" /\ StatusTimeout)
=============================================================================
