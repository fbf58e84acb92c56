------------------------------ MODULE AutoTune ------------------------------
(***************************************************************************)
(* auto_tune.py: coordinate descent over the speed controller's gains.     *)
(* Each trial applies gains, captures every step NRepeats times and scores *)
(* the averages.  vesc_tune.py is run as a child process and is seen here  *)
(* by its result, which need not be what became of its commands; the       *)
(* controller keeps the gains it last took and its response to them is any *)
(* of Captures.                                                            *)
(*                                                                         *)
(* kp and kd are counted in 0.0001, ki in 0.001, a cost in tenths.         *)
(***************************************************************************)
EXTENDS StepMetrics

CONSTANTS
    Start,          \* the gains of the command line
    Side,           \* --side
    Cycles,         \* --cycles
    StepTargets,    \* STEP_TARGETS, by position
    NRepeats,       \* N_REPEATS
    Captures        \* the telemetry a capture may hold, one per response

Bounds == [kp |-> [lo |-> 5, hi |-> 50],
           ki |-> [lo |-> 5, hi |-> 40],
           kd |-> [lo |-> 0, hi |-> 30]]
IPeakLimit == 15
OsLimit == 100
Reject == 10000000
Margin == 20
Axes == {"kp", "ki", "kd"}

ASSUME TunerAssumption ==
    /\ Start \in [Axes -> Nat]
    /\ Cycles \in Nat /\ NRepeats \in Nat \ {0}
    /\ StepTargets \in Nat \ {0}

VARIABLES
    stage,
    cycle, move,    \* the loops of coord_descent
    improved,
    best, bestCost, \* best_kp, best_ki, best_kd; best_cost
    kdBase,         \* best_kd when kd_candidates was made
    cand,           \* the gains of the trial
    target, reps,   \* the loops of evaluate: step, metrics of its repeats
    cost,           \* cost so far
    took,           \* external: it took the gains last sent to it
    inForce,        \* external: the gains on the controller
    costOf,         \* history: what the trial of the gains in best cost
    least           \* history: the lowest cost of the search

search == <<cycle, move, improved, best, bestCost, kdBase, costOf, least>>
trial == <<cand, target, reps, cost>>
controller == <<took, inForce>>
tunerVars == <<stage, search, trial, controller>>

-----------------------------------------------------------------------------
(* Scoring *)

PosPart(x) == IF x > 0 THEN x ELSE 0

Averaged == {"overshoot", "undershoot", "settle", "ssMean", "ssStd", "iPeak",
             "rise10", "rise90"}

avg_metrics(ms) ==
    [f \in DOMAIN ms[1] |->
        IF f \in Averaged THEN SumOver(ms, LAMBDA m : m[f]) \div Len(ms)
        ELSE ms[1][f]]

\* More than half off the target is lost tracking.
score_one(m) ==
    IF \/ m.iPeak > IPeakLimit
       \/ m.overshoot > OsLimit
       \/ 2 * AbsOf(m.ssMean - m.target) > AbsOf(m.target)
    THEN Reject
    ELSE 2 * PosPart(m.overshoot - 15) + PosPart(m.settle - 400) \div 10
         + m.ssStd \div 5 + PosPart(m.undershoot - 20)

\* The figures that captures yield; averaged over the repeats of a step they
\* make a score, a number.
Figures == {metrics(rows, Side) : rows \in Captures} \ {NoMetrics}

ASSUME ScoreAssumption ==
    \A ms \in [1 .. NRepeats -> Figures] : score_one(avg_metrics(ms)) \in Int

-----------------------------------------------------------------------------
(* The moves of a cycle: kp and ki down and up, then kd *)

Moves == 1 .. 6
AxisOf(k) == IF k <= 2 THEN "kp" ELSE IF k <= 4 THEN "ki" ELSE "kd"
Scaled(x, k) == IF k % 2 = 1 THEN (7 * x) \div 10 ELSE (3 * x) \div 2

Clamp(x, axis) ==
    IF x < Bounds[axis].lo THEN Bounds[axis].lo
    ELSE IF x > Bounds[axis].hi THEN Bounds[axis].hi
    ELSE x

\* kp and ki move from the best so far, kd from the best at the start of its
\* turn; from nothing kd has one candidate, and the second place is empty.
Candidate(k) ==
    LET axis == AxisOf(k)
        from == IF axis = "kd" THEN kdBase ELSE best[axis]
        value == IF axis = "kd" /\ kdBase = 0
                 THEN IF k = 5 THEN 5 ELSE best.kd
                 ELSE Clamp(Scaled(from, k), axis)
    IN  [best EXCEPT ![axis] = value]

TunerInit ==
    /\ stage = "warmup"
    /\ cycle = 1 /\ move = 0
    /\ improved = FALSE
    /\ best = Start /\ bestCost = Reject
    /\ kdBase = Start.kd
    /\ cand = Start
    /\ target = 1 /\ reps = <<>> /\ cost = 0
    /\ took = FALSE
    /\ inForce = Start
    /\ costOf = Reject /\ least = Reject

\* The controller says vesc_ok or not, and the discarded capture may end as it
\* likes, but for a child that hangs: its timeout is not caught.
WarmUp ==
    /\ stage = "warmup"
    /\ stage' \in {"apply", "aborted"}
    /\ UNCHANGED <<search, trial, controller>>

Fresh == target' = 1 /\ reps' = <<>> /\ cost' = 0

\* The repl sends what it reads, then a stop, and closes at the end of its input
\* without waiting for an answer: what the controller makes of the gains shows in
\* the output only if the answer was there in time.
Sent == took' \in BOOLEAN /\ inForce' = IF took' THEN cand ELSE inForce

\* check_vesc_ok and apply_gains: it is True if the child ended well and printed
\* no ERR, False otherwise; a timeout of the child is not caught, and with the
\* controller not well the search ends before anything is sent.
Apply ==
    /\ stage = "apply"
    /\ \/ Sent /\ stage' = "capture" /\ Fresh
       \/ Sent /\ stage' = "log" /\ target' = 1 /\ reps' = <<>> /\ cost' = Reject
       \/ Sent /\ stage' = "aborted" /\ UNCHANGED <<target, reps, cost>>
       \/ UNCHANGED <<controller, target, reps, cost>> /\ stage' = "aborted"
    /\ UNCHANGED <<search, cand>>

\* capture_step and analyze_metrics: one more repeat of the step
CaptureStep(rows) ==
    LET m == metrics(rows, Side)
        all == Append(reps, m)
        full == Len(all) = NRepeats
    IN  /\ stage = "capture"
        /\ ~m.none
        /\ reps' = IF full THEN <<>> ELSE all
        /\ cost' = IF full THEN cost + score_one(avg_metrics(all)) ELSE cost
        /\ target' = IF full THEN target + 1 ELSE target
        /\ stage' = IF target' > StepTargets THEN "log" ELSE "capture"
        /\ UNCHANGED <<search, cand, controller>>

\* Every try failed, the controller is not well, or the file holds no step.
CaptureFails ==
    /\ stage = "capture"
    /\ reps' = <<>> /\ cost' = Reject /\ target' = 1
    /\ stage' = "log"
    /\ UNCHANGED <<search, cand, controller>>

\* The child ran into the timeout of subprocess.run: nothing catches it.
CaptureHangs ==
    /\ stage = "capture"
    /\ stage' = "aborted"
    /\ UNCHANGED <<search, trial, controller>>

\* mutant: the gains are taken over, their cost is not
Decide_KeepCost ==
    IF cost < bestCost - Margin
    THEN best' = cand /\ improved' = TRUE /\ UNCHANGED bestCost
    ELSE UNCHANGED <<best, bestCost, improved>>

\* A candidate has to be better by more than the noise.
Decide ==
    IF cost < bestCost - Margin
    THEN best' = cand /\ bestCost' = cost /\ improved' = TRUE
    ELSE UNCHANGED <<best, bestCost, improved>>

\* eval_and_log returned: the baseline sets the mark, the others are compared.
Log ==
    /\ stage = "log"
    /\ \/ /\ move = 0
          /\ bestCost' = cost
          /\ UNCHANGED <<best, improved>>
       \/ /\ move \in Moves
          /\ Decide
       \/ /\ move > Max(Moves)
          /\ UNCHANGED <<best, bestCost, improved>>
    /\ costOf' = IF move = 0 \/ best' # best THEN cost ELSE costOf
    /\ least' = IF move = 0 THEN cost
                ELSE IF move \in Moves /\ cost < least THEN cost ELSE least
    /\ stage' = IF move > Max(Moves) THEN "done" ELSE "choose"
    /\ move' = IF move > Max(Moves) THEN move ELSE move + 1
    /\ kdBase' = IF move = 4 THEN best'.kd ELSE kdBase
    /\ UNCHANGED <<cycle, trial, controller>>

\* The next candidate; one that changes nothing is passed over.
Choose ==
    /\ stage = "choose"
    /\ move \in Moves
    /\ \/ /\ Candidate(move) # best
          /\ cand' = Candidate(move)
          /\ stage' = "apply"
          /\ UNCHANGED <<move, kdBase>>
       \/ /\ Candidate(move) = best
          /\ move' = move + 1
          /\ kdBase' = IF move = 4 THEN best.kd ELSE kdBase
          /\ UNCHANGED <<cand, stage>>
    /\ UNCHANGED <<cycle, improved, best, bestCost, costOf, least, target, reps, cost,
                   controller>>

\* mutant: the search ends without the last trial
EndCycle_NoVerify ==
    /\ stage = "choose"
    /\ move > Max(Moves)
    /\ \/ /\ improved /\ cycle < Cycles
          /\ cycle' = cycle + 1 /\ move' = 1 /\ improved' = FALSE
          /\ UNCHANGED <<cand, stage>>
       \/ /\ ~improved \/ cycle >= Cycles
          /\ stage' = "done"
          /\ UNCHANGED <<cycle, move, improved, cand>>
    /\ UNCHANGED <<best, bestCost, kdBase, costOf, least, target, reps, cost, controller>>

\* Another cycle while there is something to gain, then the best once more.
EndCycle ==
    /\ stage = "choose"
    /\ move > Max(Moves)
    /\ \/ /\ improved /\ cycle < Cycles
          /\ cycle' = cycle + 1 /\ move' = 1 /\ improved' = FALSE
          /\ UNCHANGED <<cand, stage>>
       \/ /\ ~improved \/ cycle >= Cycles
          /\ cand' = best /\ stage' = "apply"
          /\ UNCHANGED <<cycle, move, improved>>
    /\ UNCHANGED <<best, bestCost, kdBase, costOf, least, target, reps, cost, controller>>

TunerNext ==
    \/ WarmUp
    \/ Apply
    \/ \E rows \in Captures : CaptureStep(rows)
    \/ CaptureFails
    \/ CaptureHangs
    \/ Log
    \/ Choose
    \/ EndCycle
    \/ stage \in {"done", "aborted"} /\ UNCHANGED tunerVars

TunerSpec == TunerInit /\ [][TunerNext]_tunerVars

-----------------------------------------------------------------------------
(* Properties *)

\* The cost kept as the best is what the trial of the best gains cost, and no
\* trial of the search was better by more than the margin for noise
\* (coord_descent).  It is a failure's sentinel, or the sum of several, only if
\* nothing better by the margin was tried: among failures alone the search keeps
\* the one with the fewest sentinels.
BestOfSearch ==
    move > 0 =>
        /\ costOf = bestCost
        /\ least <= bestCost /\ bestCost - Margin <= least

\* A search that ends leaves the controller with the gains it reports, and not
\* with those of its last candidate, if it took those of the verify trial.
BestInForce == stage = "done" /\ took => inForce = best
=============================================================================
