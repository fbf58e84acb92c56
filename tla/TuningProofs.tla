---------------------------- MODULE TuningProofs ----------------------------
(***************************************************************************)
(* Proofs about the two tuning scripts: what the search of auto_tune.py    *)
(* keeps and leaves on the controller, for every start, bound, number of   *)
(* cycles and repeats and set of captures; and that vesc_tune.py leaves    *)
(* the motors stopped, for every subcommand and whatever is typed.         *)
(***************************************************************************)
EXTENDS AutoTune, VescTune, SequenceTheorems, WellFoundedInduction, TLAPS

-----------------------------------------------------------------------------
(* The search *)

LastMove == 6

LEMMA MaxMove == Max(Moves) = LastMove
  <1>1. 6 \in Moves /\ \A y \in Moves : 6 >= y
    BY DEF Moves
  <1>2. \A x \in Moves : (\A y \in Moves : x >= y) => x = 6
    BY DEF Moves
  <1> QED
    BY <1>1, <1>2 DEF Max, LastMove

\* The numbers the search compares.
Numbers ==
    /\ move \in Nat
    /\ bestCost \in Int /\ least \in Int /\ cost \in Int
    /\ reps \in Seq(Figures) /\ Len(reps) < NRepeats

\* Gains that the controller took are the trial's until the next trial; a
\* candidate is not the best, and the last trial of a search is of the best.
Trials ==
    /\ stage \in {"capture", "log"} /\ took => inForce = cand
    /\ stage \in {"warmup", "apply", "capture", "log"} /\ move > LastMove => cand = best
    /\ stage \in {"warmup", "apply", "capture", "log"} /\ move \in Moves => cand # best

IInv == Numbers /\ Trials /\ BestOfSearch /\ BestInForce

LEMMA InitIInv == TunerInit => IInv
  <1> SUFFICES ASSUME TunerInit PROVE IInv
    OBVIOUS
  <1>1. move = 0 /\ bestCost = Reject /\ least = Reject /\ cost = 0 /\ reps = << >>
    BY DEF TunerInit
  <1>2. Numbers
    BY <1>1, TunerAssumption DEF Numbers, Reject
  <1>3. Trials /\ BestOfSearch /\ BestInForce
    BY DEF TunerInit, Trials, LastMove, Moves, BestOfSearch, BestInForce
  <1> QED
    BY <1>2, <1>3 DEF IInv

\* A capture adds its figures to the repeats or, the last of them, their score.
LEMMA CaptureNumbers ==
    ASSUME Numbers, NEW c \in Captures, CaptureStep(c)
    PROVE  Numbers'
  <1>1. PICK m : m = metrics(c, Side) /\ ~m.none
    BY DEF CaptureStep
  <1>2. m \in Figures
    BY <1>1 DEF Figures, NoMetrics
  <1>3. PICK all : all = Append(reps, m)
    OBVIOUS
  <1>4. /\ all \in Seq(Figures) /\ Len(all) = Len(reps) + 1
        /\ Len(all) \in Nat /\ Len(all) <= NRepeats
    BY <1>2, <1>3, TunerAssumption DEF Numbers
  <1>5. CASE Len(all) = NRepeats
    <2>1. all \in [1 .. NRepeats -> Figures]
      BY <1>4, <1>5
    <2>2. score_one(avg_metrics(all)) \in Int
      BY <2>1, ScoreAssumption
    <2>3. reps' = << >> /\ cost' = cost + score_one(avg_metrics(all))
      BY <1>1, <1>3, <1>5 DEF CaptureStep
    <2>4. UNCHANGED <<move, bestCost, least>>
      BY DEF CaptureStep, search
    <2> QED
      BY <2>2, <2>3, <2>4, TunerAssumption DEF Numbers
  <1>6. CASE Len(all) # NRepeats
    <2>1. reps' = all /\ cost' = cost
      BY <1>1, <1>3, <1>6 DEF CaptureStep
    <2>2. UNCHANGED <<move, bestCost, least>>
      BY DEF CaptureStep, search
    <2> QED
      BY <1>4, <1>6, <2>1, <2>2, TunerAssumption DEF Numbers
  <1> QED
    BY <1>5, <1>6

LEMMA NextNumbers == IInv /\ [TunerNext]_tunerVars => Numbers'
  <1> SUFFICES ASSUME IInv, [TunerNext]_tunerVars PROVE Numbers'
    OBVIOUS
  <1>0. Numbers
    BY DEF IInv
  <1>1. << >> \in Seq(Figures) /\ Len(<< >>) = 0 /\ NRepeats \in Nat /\ NRepeats > 0 /\ Reject \in Int
    BY TunerAssumption DEF Reject
  <1>2. CASE WarmUp \/ CaptureHangs \/ UNCHANGED tunerVars
    BY <1>0, <1>2 DEF WarmUp, CaptureHangs, tunerVars, search, trial, Numbers
  <1>3. CASE Apply
    <2>1. UNCHANGED <<move, bestCost, least>>
      BY <1>3 DEF Apply, search
    <2>2. (reps' = << >> /\ cost' \in Int) \/ UNCHANGED <<reps, cost>>
      BY <1>1, <1>3 DEF Apply, Fresh
    <2> QED
      BY <1>0, <1>1, <2>1, <2>2 DEF Numbers
  <1>4. CASE \E c \in Captures : CaptureStep(c)
    BY <1>0, <1>4, CaptureNumbers
  <1>5. CASE CaptureFails
    BY <1>0, <1>1, <1>5 DEF CaptureFails, search, Numbers
  <1>6. CASE Log
    <2>1. move' \in Nat /\ UNCHANGED <<cost, reps>>
      BY <1>0, <1>6 DEF Log, trial, Numbers
    <2>2. bestCost' \in Int /\ least' \in Int
      BY <1>0, <1>6 DEF Log, Decide, Numbers
    <2> QED
      BY <1>0, <2>1, <2>2 DEF Numbers
  <1>7. CASE Choose
    BY <1>0, <1>7 DEF Choose, Numbers
  <1>8. CASE EndCycle
    BY <1>0, <1>8 DEF EndCycle, Numbers
  <1> QED
    BY <1>2, <1>3, <1>4, <1>5, <1>6, <1>7, <1>8 DEF TunerNext

LEMMA NextTrials == IInv /\ [TunerNext]_tunerVars => Trials' /\ BestInForce'
  <1> SUFFICES ASSUME IInv, [TunerNext]_tunerVars PROVE Trials' /\ BestInForce'
    OBVIOUS
  <1>0. /\ move \in Nat /\ Max(Moves) = 6
        /\ stage \in {"capture", "log"} /\ took => inForce = cand
        /\ stage \in {"warmup", "apply", "capture", "log"} /\ move > 6 => cand = best
        /\ stage \in {"warmup", "apply", "capture", "log"} /\ move \in Moves => cand # best
        /\ stage = "done" /\ took => inForce = best
    BY MaxMove DEF IInv, Numbers, Trials, BestInForce, LastMove
  <1> USE DEF Trials, BestInForce, LastMove
  <1>2. CASE WarmUp
    BY <1>0, <1>2 DEF WarmUp, search, trial, controller
  <1>3. CASE Apply
    BY <1>0, <1>3 DEF Apply, Sent, search
  <1>4. CASE \E c \in Captures : CaptureStep(c)
    <2>1. stage = "capture" /\ stage' \in {"log", "capture"} /\ UNCHANGED <<move, best, cand, took, inForce>>
      BY <1>4 DEF CaptureStep, search, controller
    <2> QED
      BY <1>0, <2>1
  <1>5. CASE CaptureFails \/ CaptureHangs
    BY <1>0, <1>5 DEF CaptureFails, CaptureHangs, search, trial, controller
  <1>6. CASE Log
    <2>1. CASE move > 6
      <3>1. stage' = "done" /\ UNCHANGED <<best, cand, took, inForce>>
        BY <1>0, <1>6, <2>1 DEF Log, trial, controller, Moves
      <3> QED
        BY <1>0, <1>6, <2>1, <3>1 DEF Log
    <2>2. CASE ~(move > 6)
      <3>1. stage' = "choose"
        BY <1>0, <1>6, <2>2 DEF Log
      <3> QED
        BY <3>1
    <2> QED
      BY <2>1, <2>2
  <1>7. CASE Choose
    <2>1. move' \in Nat /\ stage' \in {"choose", "apply"}
      BY <1>0, <1>7 DEF Choose
    <2>2. stage' = "apply" => ~(move' > 6) /\ cand' # best'
      BY <1>0, <1>7 DEF Choose, Moves
    <2> QED
      BY <2>1, <2>2
  <1>8. CASE EndCycle
    BY <1>0, <1>8 DEF EndCycle, Moves
  <1>9. CASE UNCHANGED tunerVars
    BY <1>0, <1>9 DEF tunerVars, search, trial, controller
  <1> QED
    BY <1>2, <1>3, <1>4, <1>5, <1>6, <1>7, <1>8, <1>9 DEF TunerNext

LEMMA NextBest == IInv /\ [TunerNext]_tunerVars => BestOfSearch'
  <1> SUFFICES ASSUME IInv, [TunerNext]_tunerVars PROVE BestOfSearch'
    OBVIOUS
  <1>0. /\ move \in Nat /\ bestCost \in Int /\ least \in Int /\ cost \in Int
        /\ move > 0 => costOf = bestCost /\ least <= bestCost /\ bestCost - 20 <= least
        /\ stage = "log" /\ move \in Moves => cand # best
        /\ Max(Moves) = 6
    BY MaxMove DEF IInv, Numbers, Trials, BestOfSearch, Margin, LastMove
  <1> USE DEF BestOfSearch, Margin
  <1>1. CASE UNCHANGED <<move, bestCost, costOf, least>>
    BY <1>0, <1>1
  <1>2. CASE WarmUp \/ Apply \/ CaptureFails \/ CaptureHangs \/ UNCHANGED tunerVars
    BY <1>1, <1>2 DEF WarmUp, Apply, CaptureFails, CaptureHangs, tunerVars, search
  <1>3. CASE \E c \in Captures : CaptureStep(c)
    BY <1>1, <1>3 DEF CaptureStep, search
  <1>4. CASE Log
    <2>1. CASE move = 0
      <3>1. bestCost' = cost /\ costOf' = cost /\ least' = cost
        BY <1>0, <1>4, <2>1 DEF Log, Moves
      <3> QED
        BY <1>0, <3>1
    <2>2. CASE move \in Moves
      <3>1. /\ move > 0 /\ cand # best
            /\ Decide
            /\ costOf' = IF best' # best THEN cost ELSE costOf
            /\ least' = IF cost < least THEN cost ELSE least
        BY <1>0, <1>4, <2>2 DEF Log, Moves
      <3> QED
        BY <1>0, <3>1 DEF Decide
    <2>3. CASE move > 6
      <3>1. move > 0 /\ UNCHANGED <<bestCost, costOf, least, move>>
        BY <1>0, <1>4, <2>3 DEF Log, Moves
      <3> QED
        BY <1>0, <3>1
    <2> QED
      BY <1>0, <2>1, <2>2, <2>3 DEF Moves
  <1>5. CASE Choose
    <2>1. move > 0 /\ UNCHANGED <<bestCost, costOf, least>>
      BY <1>0, <1>5 DEF Choose, Moves
    <2> QED
      BY <1>0, <2>1
  <1>6. CASE EndCycle
    <2>1. move > 0 /\ UNCHANGED <<bestCost, costOf, least>>
      BY <1>0, <1>6 DEF EndCycle
    <2> QED
      BY <1>0, <2>1
  <1> QED
    BY <1>2, <1>3, <1>4, <1>5, <1>6 DEF TunerNext

\* The search keeps its numbers, trials and mark.
THEOREM InvariantHolds == TunerSpec => []IInv
  <1>1. IInv /\ [TunerNext]_tunerVars => IInv'
    BY NextNumbers, NextTrials, NextBest DEF IInv
  <1> QED
    BY InitIInv, <1>1, PTL DEF TunerSpec

\* The cost kept as the best is that of the trial of the best gains, and no trial
\* of the search was better by more than the margin for noise (coord_descent).
THEOREM SearchKeepsBest == TunerSpec => []BestOfSearch
  <1>1. IInv => BestOfSearch
    BY DEF IInv
  <1> QED
    BY InvariantHolds, <1>1, PTL

\* A search that ends leaves the controller with the gains it reports, if it took
\* them in the last trial (the verify trial of coord_descent).
THEOREM SearchLeavesBest == TunerSpec => []BestInForce
  <1>1. IInv => BestInForce
    BY DEF IInv
  <1> QED
    BY InvariantHolds, <1>1, PTL

-----------------------------------------------------------------------------
(* vesc_tune.py, the tool the search runs as a child process *)

\* Once the link is closed the line, if it still works, has taken a stop.
StoppedLink ==
    /\ ~open /\ up => sent = "stop"
    /\ pc = "exited" => ~open

LEMMA InitStopped == Init => StoppedLink
  BY DEF Init, StoppedLink

\* Every send needs an open link, the two that close it send a stop first, and
\* only they end the run.
LEMMA NextStopped == StoppedLink /\ [Next]_vars => StoppedLink'
  <1> SUFFICES ASSUME StoppedLink, [Next]_vars PROVE StoppedLink'
    OBVIOUS
  <1> USE DEF StoppedLink, wire
  <1>1. CASE Main
    BY <1>1 DEF Main, Send, SendRaises, Goto, Raise
  <1>2. CASE SendCommand \/ StopExperiment
    BY <1>2 DEF SendCommand, StopExperiment, Send, SendRaises,
                Goto, Raise
  <1>3. CASE WaitSkip \/ WaitOk \/ WaitErr \/ WaitTimeout
    BY <1>3 DEF WaitSkip, WaitOk, WaitErr, WaitTimeout, Take,
                Goto, Raise, AfterOk, AfterStop, host
  <1>4. CASE CaptureLine \/ CaptureDeadline \/ SaveCsv
    BY <1>4 DEF CaptureLine, CaptureDeadline, SaveCsv, Take, Goto, Raise
  <1>5. CASE StatusLine \/ StatusTimeout
    BY <1>5 DEF StatusLine, StatusTimeout, Take, Goto
  <1>6. CASE ReplPrint \/ ReplEof \/ ReplStop
    BY <1>6 DEF ReplPrint, ReplEof, ReplStop, Take, Goto,
                TrySend, Send, SendRaises, host
  <1>7. CASE \E c \in Typed : ReplSend(c)
    BY <1>7 DEF ReplSend, Send, SendRaises, Raise
  <1>8. CASE Final
    BY <1>8 DEF Final, TrySend, Send, SendRaises
  <1>9. CASE OnSigint
    BY <1>9 DEF OnSigint, TrySend, Send, SendRaises, Raise
  <1>10. CASE (\E n \in 1 .. 3 : ReadChunk(n)) \/ ReaderEnds
    BY <1>10 DEF ReadChunk, ReaderEnds, host
  <1>11. CASE Execute \/ Telemetry \/ ExpDone
    <2>1. UNCHANGED <<pc, open, up, sent>>
      BY <1>11 DEF Execute, Telemetry, ExpDone, host
    <2> QED
      BY <2>1
  <1>12. CASE \E n \in 0 .. MaxBacklog + 1 : LinkLost(n)
    BY <1>12 DEF LinkLost, host
  <1>13. CASE UNCHANGED vars
    BY <1>13 DEF vars, host
  <1> QED
    BY <1>1, <1>2, <1>3, <1>4, <1>5, <1>6, <1>7, <1>8, <1>9, <1>10, <1>11, <1>12, <1>13
    DEF Next, MainThread, RunExperiment, Deadlines, External

\* Whatever ends a run of vesc_tune.py, the last command a working line took is
\* `stop` (main's and run_experiment's finally, on_sigint).
THEOREM ToolStopsLast == Spec => []StopLast
  <1>1. StoppedLink => StopLast
    BY DEF StoppedLink, StopLast
  <1> QED
    BY InitStopped, NextStopped, <1>1, PTL DEF Spec

-----------------------------------------------------------------------------
(* wait_ok and the answers on their way *)

Commands == Typed \cup {"enable", "log", "experiment", "stop", "status"}
Kinds == {"OK", "ERR", "R", "T", "E", "nl"}
Pieces == [kind : Kinds, of : Commands \cup {""}]

Channels ==
    /\ toFw \in Seq(Commands)
    /\ q \in Seq(Pieces) /\ rx \in Seq(Pieces) /\ toHost \in Seq(Pieces)
    /\ fw \in [enabled : BOOLEAN, log : BOOLEAN, running : BOOLEAN]

\* An answer that wait_ok would take.
IsAnswer(p) == p.kind \in {"OK", "ERR"}

\* What is on its way to the main thread, the next to be taken first.
Coming == q \o (rx \o toHost)

Calm(s) == \A i \in DOMAIN s : ~IsAnswer(s[i])

\* At most one answer, and that to c.
OneAnswer(s, c) ==
    \A i \in DOMAIN s : IsAnswer(s[i]) =>
        /\ s[i].of = c
        /\ \A j \in DOMAIN s : IsAnswer(s[j]) => j = i

Quiet == toFw = << >> /\ Calm(Coming)

\* Of c, no more than the command or its answer is on the way.
Owed(c) ==
    \/ Len(toFw) = 1 /\ toFw[1] = c /\ Calm(Coming)
    \/ toFw = << >> /\ OneAnswer(Coming, c)

HasOk(s) == \E i \in DOMAIN s : s[i].kind = "OK"

\* Where run_experiment is in its script.
Steps ==
    /\ pc = "main" => step = 0
    /\ pc = "send" => step \in 0 .. 2
    /\ pc = "wait" => step \in 1 .. 3

\* run_experiment sends a command only when nothing is owed to it.
InStep ==
    /\ pc \in {"main", "send", "capture"} => Quiet
    /\ pc = "stop" /\ open => Quiet
    /\ pc = "wait" => Owed(Script[step])
    /\ pc = "waitstop" => Owed("stop")

\* An experiment gets this far only with the motors enabled.
EnabledFirst ==
    up /\ \/ pc = "capture"
          \/ pc = "send" /\ step > 0
          \/ pc = "wait" /\ step > 1
          \/ pc = "wait" /\ step = 1 /\ HasOk(Coming)
    => fw.enabled

AnswerInv == ~stale => InStep /\ EnabledFirst /\ matched

AnswerIInv == Channels /\ Steps /\ AnswerInv

\* Where s held no answer t holds none, where it held one at most so does t, and
\* an OK in t was in s.
Keeps(t, s) ==
    /\ Calm(s) => Calm(t)
    /\ \A c : OneAnswer(s, c) => OneAnswer(t, c)
    /\ HasOk(t) => HasOk(s)

LEMMA KeepsItself == ASSUME NEW s PROVE Keeps(s, s)
BY DEF Keeps

\* A set of naturals that is not empty has a least element, and a greatest if it
\* is bounded.
LEMMA LeastNatural ==
    ASSUME NEW S, S \subseteq Nat, S # {}
    PROVE  \E m \in S : \A k \in S : m <= k
  <1>1. \E x \in S : \A y \in S : ~(<<y, x>> \in OpToRel(<, Nat))
    BY NatLessThanWellFounded, WFMin
  <1>2. PICK x \in S : \A y \in S : ~(<<y, x>> \in OpToRel(<, Nat))
    BY <1>1
  <1>3. \A y \in S : ~(y < x)
    BY <1>2 DEF OpToRel
  <1> QED
    BY <1>3

LEMMA GreatestNatural ==
    ASSUME NEW n \in Nat, NEW S, S \subseteq 1 .. n, S # {}
    PROVE  Max(S) \in S
  <1> DEFINE below == {n - x : x \in S}
  <1>1. below \subseteq Nat /\ below # {}
    <2>1. ASSUME NEW x \in S PROVE n - x \in Nat
      <3>1. x \in 1 .. n
        OBVIOUS
      <3> QED
        BY <3>1
    <2> QED
      BY <2>1
  <1>2. PICK m \in below : \A k \in below : m <= k
    BY <1>1, LeastNatural
  <1>3. PICK x \in S : m = n - x
    OBVIOUS
  <1>4. ASSUME NEW y \in S PROVE x >= y
    <2>1. n - y \in below
      OBVIOUS
    <2>2. n - x <= n - y
      BY <1>2, <1>3, <2>1
    <2> QED
      BY <2>2
  <1> QED
    BY <1>4 DEF Max

\* t is a followed by b, element by element.
Join(t, a, b) ==
    /\ t = a \o b /\ Len(t) = Len(a) + Len(b)
    /\ \A i \in 1 .. Len(a) : t[i] = a[i]
    /\ \A i \in 1 .. Len(b) : t[Len(a) + i] = b[i]

LEMMA Joined ==
    ASSUME NEW S, NEW a \in Seq(S), NEW b \in Seq(S)
    PROVE  a \o b \in Seq(S) /\ Join(a \o b, a, b)
  <1>1. Len(a) \in Nat /\ Len(b) \in Nat
    OBVIOUS
  <1>2. PICK t : t = a \o b
    OBVIOUS
  <1>3. t \in Seq(S) /\ Len(t) = Len(a) + Len(b)
    BY <1>2
  <1>4. ASSUME NEW i \in 1 .. Len(a) PROVE t[i] = a[i]
    BY <1>1, <1>2
  <1>5. ASSUME NEW i \in 1 .. Len(b) PROVE t[Len(a) + i] = b[i]
    BY <1>1, <1>2
  <1> QED
    BY <1>2, <1>3, <1>4, <1>5 DEF Join

LEMMA JoinCalm ==
    ASSUME NEW a \in Seq(Pieces), NEW b \in Seq(Pieces)
    PROVE  /\ Calm(a \o b) <=> Calm(a) /\ Calm(b)
           /\ HasOk(a \o b) <=> HasOk(a) \/ HasOk(b)
  <1>1. PICK t \in Seq(Pieces) : t = a \o b /\ Join(t, a, b)
    BY Joined
  <1>2. PICK la \in Nat, lb \in Nat : la = Len(a) /\ lb = Len(b)
    OBVIOUS
  <1>3. DOMAIN a = 1 .. la /\ DOMAIN b = 1 .. lb /\ DOMAIN t = 1 .. la + lb
    BY <1>1, <1>2 DEF Join
  <1>4. (\A i \in 1 .. la : t[i] = a[i]) /\ (\A i \in 1 .. lb : t[la + i] = b[i])
    BY <1>1, <1>2 DEF Join
  <1>5. \A i \in 1 .. la + lb : i \in 1 .. la \/ \E j \in 1 .. lb : i = la + j
    <2>1. ASSUME NEW i \in 1 .. la + lb, ~(i \in 1 .. la) PROVE i - la \in 1 .. lb /\ i = la + (i - la)
      BY <2>1
    <2> QED
      BY <2>1
  <1>6. \A i \in 1 .. la : i \in 1 .. la + lb
    OBVIOUS
  <1>7. \A i \in 1 .. lb : la + i \in 1 .. la + lb
    OBVIOUS
  <1>8. Calm(t) <=> Calm(a) /\ Calm(b)
    <2>1. Calm(t) => Calm(a)
      BY <1>3, <1>4, <1>6 DEF Calm
    <2>2. ASSUME Calm(t), NEW j \in 1 .. lb PROVE ~IsAnswer(b[j])
      <3>1. t[la + j] = b[j] /\ la + j \in DOMAIN t
        BY <1>3, <1>4, <1>7
      <3> QED
        BY <2>2, <3>1 DEF Calm
    <2>3. ASSUME Calm(a), Calm(b), NEW i \in 1 .. la + lb PROVE ~IsAnswer(t[i])
      <3>1. CASE i \in 1 .. la
        BY <1>3, <1>4, <2>3, <3>1 DEF Calm
      <3>2. CASE \E j \in 1 .. lb : i = la + j
        BY <1>3, <1>4, <2>3, <3>2 DEF Calm
      <3> QED
        BY <1>5, <3>1, <3>2
    <2> QED
      BY <1>3, <2>1, <2>2, <2>3 DEF Calm
  <1>9. HasOk(t) <=> HasOk(a) \/ HasOk(b)
    <2>1. HasOk(a) => HasOk(t)
      BY <1>3, <1>4, <1>6 DEF HasOk
    <2>2. ASSUME NEW j \in 1 .. lb, b[j].kind = "OK" PROVE HasOk(t)
      <3>1. t[la + j] = b[j] /\ la + j \in DOMAIN t
        BY <1>3, <1>4, <1>7
      <3> QED
        BY <2>2, <3>1 DEF HasOk
    <2>3. ASSUME NEW i \in 1 .. la + lb, t[i].kind = "OK" PROVE HasOk(a) \/ HasOk(b)
      <3>1. CASE i \in 1 .. la
        BY <1>3, <1>4, <2>3, <3>1 DEF HasOk
      <3>2. CASE \E j \in 1 .. lb : i = la + j
        BY <1>3, <1>4, <2>3, <3>2 DEF HasOk
      <3> QED
        BY <1>5, <3>1, <3>2
    <2> QED
      BY <1>3, <2>1, <2>2, <2>3 DEF HasOk
  <1> QED
    BY <1>1, <1>8, <1>9

LEMMA JoinOne ==
    ASSUME NEW a \in Seq(Pieces), NEW b \in Seq(Pieces), NEW c
    PROVE  OneAnswer(a \o b, c) <=>
             OneAnswer(a, c) /\ OneAnswer(b, c) /\ (Calm(a) \/ Calm(b))
  <1>1. PICK t \in Seq(Pieces) : t = a \o b /\ Join(t, a, b)
    BY Joined
  <1>2. PICK la \in Nat, lb \in Nat : la = Len(a) /\ lb = Len(b)
    OBVIOUS
  <1>3. DOMAIN a = 1 .. la /\ DOMAIN b = 1 .. lb /\ DOMAIN t = 1 .. la + lb
    BY <1>1, <1>2 DEF Join
  <1>4. (\A i \in 1 .. la : t[i] = a[i]) /\ (\A i \in 1 .. lb : t[la + i] = b[i])
    BY <1>1, <1>2 DEF Join
  <1>5. ASSUME NEW i \in 1 .. la + lb, ~(i \in 1 .. la) PROVE \E j \in 1 .. lb : i = la + j
    <2>1. i - la \in 1 .. lb /\ i = la + (i - la)
      BY <1>5
    <2> QED
      BY <2>1
  <1>6. \A i \in 1 .. la : i \in 1 .. la + lb
    OBVIOUS
  <1>7. \A i \in 1 .. lb : la + i \in 1 .. la + lb
    OBVIOUS
  <1>8. \A i \in 1 .. la, j \in 1 .. lb : i # la + j
    OBVIOUS
  <1>9. \A i, j \in 1 .. lb : la + i = la + j => i = j
    OBVIOUS
  <1>10. ASSUME OneAnswer(t, c) PROVE OneAnswer(a, c) /\ OneAnswer(b, c) /\ (Calm(a) \/ Calm(b))
    <2>1. OneAnswer(a, c)
      BY <1>3, <1>4, <1>6, <1>10 DEF OneAnswer
    <2>2. OneAnswer(b, c)
      <3> SUFFICES ASSUME NEW i \in 1 .. lb, IsAnswer(b[i])
                   PROVE  b[i].of = c /\ \A j \in 1 .. lb : IsAnswer(b[j]) => j = i
        BY <1>3 DEF OneAnswer
      <3>1. la + i \in DOMAIN t /\ t[la + i] = b[i]
        BY <1>3, <1>4, <1>7
      <3>2. ASSUME NEW j \in 1 .. lb, IsAnswer(b[j]) PROVE j = i
        <4>1. la + j \in DOMAIN t /\ t[la + j] = b[j]
          BY <1>3, <1>4, <1>7
        <4>2. la + j = la + i
          BY <1>10, <3>1, <3>2, <4>1 DEF OneAnswer
        <4> QED
          BY <1>9, <4>2
      <3> QED
        BY <1>10, <3>1, <3>2 DEF OneAnswer
    <2>3. Calm(a) \/ Calm(b)
      BY <1>3, <1>4, <1>6, <1>7, <1>8, <1>10 DEF OneAnswer, Calm
    <2> QED
      BY <2>1, <2>2, <2>3
  <1>11. ASSUME OneAnswer(a, c), OneAnswer(b, c), Calm(b) PROVE OneAnswer(t, c)
    <2>1. ASSUME NEW i \in 1 .. la + lb, IsAnswer(t[i]) PROVE i \in 1 .. la /\ IsAnswer(a[i])
      BY <1>3, <1>4, <1>5, <1>11, <2>1 DEF Calm
    <2> QED
      BY <1>3, <1>4, <1>11, <2>1 DEF OneAnswer
  <1>12. ASSUME OneAnswer(a, c), OneAnswer(b, c), Calm(a) PROVE OneAnswer(t, c)
    <2>1. ASSUME NEW i \in 1 .. la + lb, IsAnswer(t[i])
          PROVE  \E j \in 1 .. lb : i = la + j /\ IsAnswer(b[j]) /\ t[i] = b[j]
      BY <1>3, <1>4, <1>5, <1>12, <2>1 DEF Calm
    <2> SUFFICES ASSUME NEW i \in 1 .. la + lb, IsAnswer(t[i])
                 PROVE  t[i].of = c /\ \A j \in 1 .. la + lb : IsAnswer(t[j]) => j = i
      BY <1>3 DEF OneAnswer
    <2>2. PICK j \in 1 .. lb : i = la + j /\ IsAnswer(b[j]) /\ t[i] = b[j]
      BY <2>1
    <2>3. ASSUME NEW k \in 1 .. la + lb, IsAnswer(t[k]) PROVE k = i
      <3>1. PICK l \in 1 .. lb : k = la + l /\ IsAnswer(b[l]) /\ t[k] = b[l]
        BY <2>1, <2>3
      <3>2. l = j
        BY <1>3, <1>12, <2>2, <3>1 DEF OneAnswer
      <3> QED
        BY <2>2, <3>1, <3>2
    <2> QED
      BY <1>3, <1>12, <2>2, <2>3 DEF OneAnswer
  <1> QED
    BY <1>1, <1>10, <1>11, <1>12

LEMMA KeepsJoin ==
    ASSUME NEW a \in Seq(Pieces), NEW b \in Seq(Pieces),
           NEW u \in Seq(Pieces), NEW v \in Seq(Pieces), Keeps(a, u), Keeps(b, v)
    PROVE  Keeps(a \o b, u \o v)
  <1>1. Calm(u \o v) => Calm(a \o b)
    BY JoinCalm DEF Keeps
  <1>2. HasOk(a \o b) => HasOk(u \o v)
    BY JoinCalm DEF Keeps
  <1>3. ASSUME NEW c, OneAnswer(u \o v, c) PROVE OneAnswer(a \o b, c)
    BY <1>3, JoinOne DEF Keeps
  <1> QED
    BY <1>1, <1>2, <1>3 DEF Keeps

LEMMA JoinPieces ==
    ASSUME NEW a \in Seq(Pieces), NEW b \in Seq(Pieces)
    PROVE  a \o b \in Seq(Pieces)
OBVIOUS

LEMMA Regroup ==
    ASSUME NEW a \in Seq(Pieces), NEW b \in Seq(Pieces), NEW c \in Seq(Pieces)
    PROVE  (a \o b) \o c = a \o (b \o c)
BY ConcatAssociative

\* A sequence cut in two.
LEMMA CutInTwo ==
    ASSUME NEW b \in Seq(Pieces), NEW n \in 0 .. Len(b)
    PROVE  /\ SubSeq(b, 1, n) \in Seq(Pieces) /\ Len(SubSeq(b, 1, n)) = n
           /\ \A i \in 1 .. n : SubSeq(b, 1, n)[i] = b[i]
           /\ SubSeq(b, n + 1, Len(b)) \in Seq(Pieces)
           /\ b = SubSeq(b, 1, n) \o SubSeq(b, n + 1, Len(b))
  <1>1. n \in Nat /\ Len(b) \in Nat /\ n <= Len(b)
    OBVIOUS
  <1>2. \A i \in 1 .. Len(b) : b[i] \in Pieces
    OBVIOUS
  <1>3. \A i \in 1 .. n : b[i] \in Pieces
    BY <1>1, <1>2
  <1>4. \A i \in n + 1 .. Len(b) : b[i] \in Pieces
    BY <1>1, <1>2
  <1>5. /\ SubSeq(b, 1, n) \in Seq(Pieces) /\ Len(SubSeq(b, 1, n)) = n
        /\ \A i \in 1 .. n : SubSeq(b, 1, n)[i] = b[i]
    BY <1>1, <1>3, SubSeqProperties
  <1>6. SubSeq(b, n + 1, Len(b)) \in Seq(Pieces)
    BY <1>1, <1>4, SubSeqProperties
  <1>7. SubSeq(b, 1, n) \o SubSeq(b, n + 1, Len(b)) = SubSeq(b, 1, Len(b))
    <2>1. 1 \in 1 .. Len(b) + 1 /\ n \in 1 - 1 .. Len(b) /\ Len(b) \in n .. Len(b)
      BY <1>1
    <2> QED
      BY <2>1, ConcatAdjacentSubSeq
  <1>8. SubSeq(b, 1, Len(b)) = b
    BY SubSeqFull
  <1> QED
    BY <1>5, <1>6, <1>7, <1>8

\* The bodies of whole lines are pieces of the text they were cut from.
LEMMA BodiesKept ==
    ASSUME NEW s \in Seq(Pieces), NEW m \in Nat, 2 * m <= Len(s)
    PROVE  /\ [k \in 1 .. m |-> s[2 * k - 1]] \in Seq(Pieces)
           /\ Keeps([k \in 1 .. m |-> s[2 * k - 1]], s)
  <1>1. PICK t : t = [k \in 1 .. m |-> s[2 * k - 1]]
    OBVIOUS
  <1>2. DOMAIN t = 1 .. m /\ \A k \in 1 .. m : t[k] = s[2 * k - 1]
    BY <1>1
  <1>3. \A k \in 1 .. m : 2 * k - 1 \in 1 .. Len(s)
    OBVIOUS
  <1>4. DOMAIN s = 1 .. Len(s) /\ \A i \in 1 .. Len(s) : s[i] \in Pieces
    OBVIOUS
  <1>5. \A k \in 1 .. m : 2 * k - 1 \in DOMAIN s /\ t[k] = s[2 * k - 1]
    BY <1>2, <1>3, <1>4
  <1>6. t \in Seq(Pieces)
    <2>1. \A k \in 1 .. m : s[2 * k - 1] \in Pieces
      BY <1>3, <1>4
    <2>2. t \in [1 .. m -> Pieces]
      BY <1>1, <2>1
    <2> QED
      BY <2>2, SeqDef
  <1>7. Calm(s) => Calm(t)
    BY <1>2, <1>5 DEF Calm
  <1>8. HasOk(t) => HasOk(s)
    BY <1>2, <1>5 DEF HasOk
  <1>9. ASSUME NEW c, OneAnswer(s, c) PROVE OneAnswer(t, c)
    <2> SUFFICES ASSUME NEW i \in 1 .. m, IsAnswer(t[i])
                 PROVE  t[i].of = c /\ \A j \in 1 .. m : IsAnswer(t[j]) => j = i
      BY <1>2 DEF OneAnswer
    <2>1. 2 * i - 1 \in DOMAIN s /\ t[i] = s[2 * i - 1]
      BY <1>5
    <2>2. ASSUME NEW j \in 1 .. m, IsAnswer(t[j]) PROVE j = i
      <3>1. 2 * j - 1 \in DOMAIN s /\ t[j] = s[2 * j - 1]
        BY <1>5
      <3>2. 2 * j - 1 = 2 * i - 1
        BY <1>9, <2>1, <2>2, <3>1 DEF OneAnswer
      <3> QED
        BY <3>2
    <2> QED
      BY <1>9, <2>1, <2>2 DEF OneAnswer
  <1> QED
    BY <1>1, <1>6, <1>7, <1>8, <1>9 DEF Keeps

\* The reader puts lines of the text before its cut in the queue.
LEMMA CompleteKeeps ==
    ASSUME NEW buf \in Seq(Pieces)
    PROVE  \E last \in 0 .. Len(buf) :
              /\ Complete(buf).rest = SubSeq(buf, last + 1, Len(buf))
              /\ Complete(buf).lines \in Seq(Pieces)
              /\ Keeps(Complete(buf).lines, SubSeq(buf, 1, last))
  <1>1. PICK ends : ends = {i \in DOMAIN buf : buf[i] = NewLine}
    OBVIOUS
  <1>2. ends \subseteq 1 .. Len(buf) /\ Len(buf) \in Nat
    BY <1>1
  <1>3. ends # {} => Max(ends) \in 1 .. Len(buf)
    BY <1>2, GreatestNatural
  <1>4. PICK last : last = IF ends = {} THEN 0 ELSE Max(ends)
    OBVIOUS
  <1>5. last \in 0 .. Len(buf)
    BY <1>2, <1>3, <1>4
  <1>6. PICK m \in Nat : m = last \div 2 /\ 2 * m <= last
    BY <1>2, <1>5
  <1>7. /\ Complete(buf).rest = SubSeq(buf, last + 1, Len(buf))
        /\ Complete(buf).lines = [k \in 1 .. m |-> buf[2 * k - 1]]
    BY <1>1, <1>4, <1>6 DEF Complete
  <1>8. PICK s : s = SubSeq(buf, 1, last)
    OBVIOUS
  <1>9. s \in Seq(Pieces) /\ Len(s) = last /\ \A i \in 1 .. last : s[i] = buf[i]
    BY <1>5, <1>8, CutInTwo
  <1>10. \A k \in 1 .. m : s[2 * k - 1] = buf[2 * k - 1]
    <2>1. ASSUME NEW k \in 1 .. m PROVE 2 * k - 1 \in 1 .. last
      BY <1>2, <1>5, <1>6
    <2> QED
      BY <1>9, <2>1
  <1>11. Complete(buf).lines = [k \in 1 .. m |-> s[2 * k - 1]]
    BY <1>7, <1>10
  <1>12. Complete(buf).lines \in Seq(Pieces) /\ Keeps(Complete(buf).lines, s)
    BY <1>6, <1>9, <1>11, BodiesKept
  <1> QED
    BY <1>5, <1>7, <1>8, <1>12

\* Reading a chunk brings no answer that was not coming.
LEMMA ReadKeeps ==
    ASSUME Channels, NEW n \in Nat, ReadChunk(n)
    PROVE  Channels' /\ Keeps(Coming', Coming)
  <1>1. PICK a, r :
            /\ a = q /\ r = rx /\ a \in Seq(Pieces) /\ r \in Seq(Pieces)
            /\ toHost \in Seq(Pieces) /\ n \in 0 .. Len(toHost)
    BY DEF Channels, ReadChunk
  <1>2. PICK got, left :
            /\ got = SubSeq(toHost, 1, n) /\ left = SubSeq(toHost, n + 1, Len(toHost))
            /\ got \in Seq(Pieces) /\ left \in Seq(Pieces) /\ toHost = got \o left
    <2>1. /\ SubSeq(toHost, 1, n) \in Seq(Pieces)
          /\ SubSeq(toHost, n + 1, Len(toHost)) \in Seq(Pieces)
          /\ toHost = SubSeq(toHost, 1, n) \o SubSeq(toHost, n + 1, Len(toHost))
      BY <1>1, CutInTwo
    <2> QED
      BY <2>1, Zenon
  <1>3. PICK buf \in Seq(Pieces) : buf = r \o got
    BY <1>1, <1>2, JoinPieces
  <1>4. PICK last \in 0 .. Len(buf) :
              /\ Complete(buf).rest = SubSeq(buf, last + 1, Len(buf))
              /\ Complete(buf).lines \in Seq(Pieces)
              /\ Keeps(Complete(buf).lines, SubSeq(buf, 1, last))
    BY CompleteKeeps
  <1>5. /\ SubSeq(buf, 1, last) \in Seq(Pieces) /\ SubSeq(buf, last + 1, Len(buf)) \in Seq(Pieces)
        /\ buf = SubSeq(buf, 1, last) \o SubSeq(buf, last + 1, Len(buf))
    BY CutInTwo
  <1>6. PICK lines, rest, front :
            /\ lines \in Seq(Pieces) /\ rest \in Seq(Pieces) /\ front \in Seq(Pieces)
            /\ lines = Complete(buf).lines /\ rest = Complete(buf).rest
            /\ Keeps(lines, front) /\ buf = front \o rest
    BY <1>4, <1>5, Zenon
  <1>7. rx' = rest /\ q' = a \o lines /\ toHost' = left
    BY <1>1, <1>2, <1>3, <1>6 DEF ReadChunk
  <1>8. /\ a \in Seq(Pieces) /\ front \in Seq(Pieces) /\ lines \in Seq(Pieces)
        /\ rest \in Seq(Pieces) /\ left \in Seq(Pieces)
    BY <1>1, <1>2, <1>6
  <1>9. PICK u : u = rest \o left /\ u \in Seq(Pieces)
    BY <1>8, JoinPieces
  <1>10. Coming = (a \o front) \o u
    <2>1. (r \o got) \o left = r \o (got \o left)
      <3>1. r \in Seq(Pieces) /\ got \in Seq(Pieces) /\ left \in Seq(Pieces)
        BY <1>1, <1>2
      <3> QED
        BY <3>1, Regroup, Zenon
    <2>2. (front \o rest) \o left = front \o (rest \o left)
      <3>1. front \in Seq(Pieces) /\ rest \in Seq(Pieces) /\ left \in Seq(Pieces)
        BY <1>8
      <3> QED
        BY <3>1, Regroup, Zenon
    <2>3. r \o toHost = front \o u
      BY <1>2, <1>3, <1>6, <1>9, <2>1, <2>2, Zenon
    <2>4. (a \o front) \o u = a \o (front \o u)
      <3>1. a \in Seq(Pieces) /\ front \in Seq(Pieces) /\ u \in Seq(Pieces)
        BY <1>8, <1>9
      <3> QED
        BY <3>1, Regroup, Zenon
    <2> QED
      BY <1>1, <2>3, <2>4, Zenon DEF Coming
  <1>11. Coming' = (a \o lines) \o u
    BY <1>7, <1>9, Zenon DEF Coming
  <1>12. Keeps(a \o lines, a \o front)
    BY <1>6, <1>8, KeepsItself, KeepsJoin
  <1>13. a \o lines \in Seq(Pieces) /\ a \o front \in Seq(Pieces) /\ u \in Seq(Pieces)
    BY <1>8, <1>9, JoinPieces
  <1>14. Keeps(Coming', Coming)
    BY <1>10, <1>11, <1>12, <1>13, KeepsItself, KeepsJoin
  <1>15. Channels'
    BY <1>6, <1>2, <1>7, <1>13 DEF Channels, ReadChunk
  <1> QED
    BY <1>14, <1>15

LEMMA OnePiece ==
    ASSUME NEW x \in Pieces
    PROVE  /\ <<x>> \in Seq(Pieces)
           /\ Calm(<<x>>) <=> ~IsAnswer(x)
           /\ \A c : OneAnswer(<<x>>, c) <=> (IsAnswer(x) => x.of = c)
           /\ HasOk(<<x>>) <=> x.kind = "OK"
  <1>1. PICK s : s = <<x>>
    OBVIOUS
  <1>2. s \in Seq(Pieces) /\ DOMAIN s = {1} /\ s[1] = x
    BY <1>1
  <1>3. (Calm(s) <=> ~IsAnswer(x)) /\ (HasOk(s) <=> x.kind = "OK")
    BY <1>2 DEF Calm, HasOk
  <1>4. \A c : OneAnswer(s, c) <=> (IsAnswer(x) => x.of = c)
    BY <1>2 DEF OneAnswer
  <1> QED
    BY <1>1, <1>2, <1>3, <1>4, Zenon

\* What is coming is a sequence of pieces.
LEMMA ComingType ==
    ASSUME Channels
    PROVE  /\ q \in Seq(Pieces) /\ rx \in Seq(Pieces) /\ toHost \in Seq(Pieces)
           /\ rx \o toHost \in Seq(Pieces) /\ Coming \in Seq(Pieces)
  <1>1. q \in Seq(Pieces) /\ rx \in Seq(Pieces) /\ toHost \in Seq(Pieces)
    BY DEF Channels
  <1>2. rx \o toHost \in Seq(Pieces)
    BY <1>1, JoinPieces
  <1> QED
    BY <1>1, <1>2, JoinPieces DEF Coming

\* The head of the queue is the first that is coming.
LEMMA TakeKeeps ==
    ASSUME Channels, NEW kinds, Take(kinds)
    PROVE  /\ Channels' /\ Keeps(Coming', Coming)
           /\ Head(q).kind = "OK" => HasOk(Coming)
           /\ IsAnswer(Head(q)) =>
                /\ ~Calm(Coming)
                /\ \A c : OneAnswer(Coming, c) => Head(q).of = c /\ Calm(Coming')
  <1>1. q \in Seq(Pieces) /\ q # << >> /\ q' = Tail(q) /\ UNCHANGED <<rx, toHost, toFw, fw>>
    BY DEF Channels, Take, wire
  <1>2. Head(q) \in Pieces /\ Tail(q) \in Seq(Pieces) /\ q = <<Head(q)>> \o Tail(q)
    BY <1>1
  <1>3. PICK x, h, t, u :
            /\ x = Head(q) /\ h = <<x>> /\ t = Tail(q) /\ u = rx \o toHost
            /\ q = h \o t
    BY <1>2, Zenon
  <1>4. x \in Pieces /\ t \in Seq(Pieces)
    BY <1>2, <1>3, Zenon
  <1>5. h \in Seq(Pieces)
    BY <1>3, <1>4, OnePiece, Zenon
  <1>6. u \in Seq(Pieces)
    BY <1>3, ComingType, Zenon
  <1>7. t \o u \in Seq(Pieces)
    BY <1>4, <1>6, JoinPieces
  <1>8. (h \o t) \o u = h \o (t \o u)
    BY <1>4, <1>5, <1>6, Regroup
  <1>9. Coming = h \o (t \o u) /\ Coming' = t \o u
    BY <1>1, <1>3, <1>8, Zenon DEF Coming
  <1>10. PICK v \in Seq(Pieces) : v = t \o u
    BY <1>7
  <1>11. /\ Calm(h) <=> ~IsAnswer(x)
         /\ \A c : OneAnswer(h, c) <=> (IsAnswer(x) => x.of = c)
         /\ HasOk(h) <=> x.kind = "OK"
    BY <1>3, <1>4, OnePiece, Zenon
  <1>12. /\ Calm(h \o v) <=> Calm(h) /\ Calm(v)
         /\ HasOk(h \o v) <=> HasOk(h) \/ HasOk(v)
         /\ \A c : OneAnswer(h \o v, c) <=>
                     OneAnswer(h, c) /\ OneAnswer(v, c) /\ (Calm(h) \/ Calm(v))
    BY <1>5, JoinCalm, JoinOne
  <1>13. Keeps(v, h \o v)
    BY <1>12, Zenon DEF Keeps
  <1>14. x.kind = "OK" => HasOk(h \o v)
    BY <1>11, <1>12, Zenon
  <1>15. IsAnswer(x) => /\ ~Calm(h \o v)
                        /\ \A c : OneAnswer(h \o v, c) => x.of = c /\ Calm(v)
    BY <1>11, <1>12, Zenon
  <1>16. Channels'
    BY <1>1, <1>2 DEF Channels
  <1>17. Coming = h \o v /\ Coming' = v
    BY <1>9, <1>10, Zenon
  <1> QED
    BY <1>3, <1>13, <1>14, <1>15, <1>16, <1>17, Zenon

\* A line the controller sends comes last.
LEMMA EmitKeeps ==
    ASSUME Channels, NEW l \in Pieces, Emit(l), UNCHANGED <<q, rx>>
    PROVE  /\ toHost' \in Seq(Pieces)
           /\ ~IsAnswer(l) => Keeps(Coming', Coming)
           /\ Calm(Coming) => OneAnswer(Coming', l.of)
           /\ HasOk(Coming') => HasOk(Coming) \/ l.kind = "OK"
  <1>1. NewLine \in Pieces /\ ~IsAnswer(NewLine) /\ NewLine.kind # "OK"
    BY DEF NewLine, Line, Pieces, Kinds, IsAnswer
  <1>2. PICK e, f : e = <<l>> /\ f = <<NewLine>>
    OBVIOUS
  <1>3. e \in Seq(Pieces) /\ f \in Seq(Pieces) /\ <<l, NewLine>> = e \o f
    BY <1>1, <1>2
  <1>4. /\ Calm(e) <=> ~IsAnswer(l)
        /\ OneAnswer(e, l.of)
        /\ HasOk(e) <=> l.kind = "OK"
    BY <1>2, OnePiece, Zenon
  <1>5. Calm(f) /\ OneAnswer(f, l.of) /\ ~HasOk(f) /\ \A c : OneAnswer(f, c)
    BY <1>1, <1>2, OnePiece, Zenon
  <1>6. PICK g \in Seq(Pieces) : g = e \o f
    BY <1>3, JoinPieces
  <1>7. /\ Calm(g) <=> ~IsAnswer(l)
        /\ OneAnswer(g, l.of)
        /\ HasOk(g) <=> l.kind = "OK"
        /\ \A c : ~IsAnswer(l) => OneAnswer(g, c)
    <2>1. /\ Calm(e \o f) <=> Calm(e) /\ Calm(f)
          /\ HasOk(e \o f) <=> HasOk(e) \/ HasOk(f)
          /\ \A c : OneAnswer(e \o f, c) <=>
                      OneAnswer(e, c) /\ OneAnswer(f, c) /\ (Calm(e) \/ Calm(f))
      BY <1>3, JoinCalm, JoinOne
    <2>2. \A c : ~IsAnswer(l) => OneAnswer(e, c)
      BY <1>2, OnePiece, Zenon
    <2> QED
      BY <1>4, <1>5, <1>6, <2>1, <2>2, Zenon
  <1>8. PICK s : s = Coming /\ s \in Seq(Pieces)
    BY ComingType
  <1>9. Coming' = s \o g
    <2>1. PICK a, b, c : a = q /\ b = rx /\ c = toHost
      OBVIOUS
    <2>2. a \in Seq(Pieces) /\ b \in Seq(Pieces) /\ c \in Seq(Pieces)
      BY <2>1 DEF Channels
    <2>3. toHost' = c \o g
      BY <1>3, <1>6, <2>1, Zenon DEF Emit
    <2>4. (b \o c) \o g = b \o (c \o g)
      <3>1. b \in Seq(Pieces) /\ c \in Seq(Pieces)
        BY <2>2
      <3> QED
        BY <3>1, Regroup
    <2>5. PICK d \in Seq(Pieces) : d = b \o c
      BY <2>2, JoinPieces
    <2>6. (a \o d) \o g = a \o (d \o g)
      <3>1. a \in Seq(Pieces)
        BY <2>2
      <3> QED
        BY <3>1, Regroup
    <2> QED
      BY <1>8, <2>1, <2>3, <2>4, <2>5, <2>6, Zenon DEF Coming
  <1>10. /\ Calm(s \o g) <=> Calm(s) /\ Calm(g)
         /\ HasOk(s \o g) <=> HasOk(s) \/ HasOk(g)
         /\ \A c : OneAnswer(s \o g, c) <=>
                     OneAnswer(s, c) /\ OneAnswer(g, c) /\ (Calm(s) \/ Calm(g))
    BY <1>8, JoinCalm, JoinOne
  <1>11. ~IsAnswer(l) => Keeps(s \o g, s)
    <2>1. ~IsAnswer(l) => l.kind # "OK"
      BY DEF IsAnswer
    <2> QED
      BY <1>7, <1>10, <2>1, Zenon DEF Keeps
  <1>12. Calm(s) => OneAnswer(s \o g, l.of)
    <2>1. Calm(s) => OneAnswer(s, l.of)
      BY DEF Calm, OneAnswer
    <2> QED
      BY <1>7, <1>10, <2>1, Zenon
  <1>13. HasOk(s \o g) => HasOk(s) \/ l.kind = "OK"
    BY <1>7, <1>10, Zenon
  <1>14. toHost' \in Seq(Pieces)
    <2>1. toHost \in Seq(Pieces)
      BY DEF Channels
    <2> QED
      BY <1>3, <1>6, <2>1, JoinPieces DEF Emit
  <1> QED
    BY <1>8, <1>9, <1>11, <1>12, <1>13, <1>14, Zenon

\* A line that breaks takes the end of what was coming with it.
LEMMA LostKeeps ==
    ASSUME Channels, NEW n \in Nat, LinkLost(n)
    PROVE  Channels' /\ Keeps(Coming', Coming)
  <1>1. PICK a, b :
            /\ a = q /\ b = rx /\ a \in Seq(Pieces) /\ b \in Seq(Pieces)
            /\ toHost \in Seq(Pieces) /\ n \in 0 .. Len(toHost)
    BY DEF Channels, LinkLost
  <1>2. PICK got, left :
            /\ got = SubSeq(toHost, 1, n)
            /\ got \in Seq(Pieces) /\ left \in Seq(Pieces) /\ toHost = got \o left
    <2>1. /\ SubSeq(toHost, 1, n) \in Seq(Pieces)
          /\ SubSeq(toHost, n + 1, Len(toHost)) \in Seq(Pieces)
          /\ toHost = SubSeq(toHost, 1, n) \o SubSeq(toHost, n + 1, Len(toHost))
      BY <1>1, CutInTwo
    <2> QED
      BY <2>1, Zenon
  <1>3. toHost' = got /\ UNCHANGED <<q, rx>> /\ toFw' = << >>
    BY <1>2 DEF LinkLost, io
  <1>4. a \in Seq(Pieces) /\ b \in Seq(Pieces) /\ got \in Seq(Pieces) /\ left \in Seq(Pieces)
    BY <1>1, <1>2
  <1>5. Keeps(got, got \o left)
    <2>1. /\ Calm(got \o left) <=> Calm(got) /\ Calm(left)
          /\ HasOk(got \o left) <=> HasOk(got) \/ HasOk(left)
          /\ \A c : OneAnswer(got \o left, c) <=>
                      OneAnswer(got, c) /\ OneAnswer(left, c) /\ (Calm(got) \/ Calm(left))
      BY <1>4, JoinCalm, JoinOne
    <2> QED
      BY <2>1, Zenon DEF Keeps
  <1>6. got \o left \in Seq(Pieces)
    BY <1>4, JoinPieces
  <1>7. Keeps(b \o got, b \o (got \o left))
    BY <1>4, <1>5, <1>6, KeepsItself, KeepsJoin
  <1>8. b \o got \in Seq(Pieces) /\ b \o (got \o left) \in Seq(Pieces)
    BY <1>4, <1>6, JoinPieces
  <1>9. Keeps(a \o (b \o got), a \o (b \o (got \o left)))
    BY <1>4, <1>7, <1>8, KeepsItself, KeepsJoin
  <1>10. Keeps(Coming', Coming)
    BY <1>1, <1>2, <1>3, <1>9, Zenon DEF Coming
  <1>11. Channels'
    <2>1. toFw' \in Seq(Commands) /\ q' \in Seq(Pieces) /\ rx' \in Seq(Pieces) /\ toHost' \in Seq(Pieces)
      BY <1>1, <1>2, <1>3
    <2>2. fw' \in [enabled : BOOLEAN, log : BOOLEAN, running : BOOLEAN]
      BY DEF Channels, LinkLost
    <2> QED
      BY <2>1, <2>2 DEF Channels
  <1> QED
    BY <1>10, <1>11

-----------------------------------------------------------------------------
\* Where the main thread waits for no answer any more.
Elsewhere == {"final", "save", "status", "repl", "replstop", "exited"}

LEMMA GoneElsewhere ==
    ASSUME AnswerInv, pc' \in Elsewhere, UNCHANGED <<stale, matched>>
    PROVE  AnswerInv'
  <1>1. InStep' /\ EnabledFirst'
    BY DEF Elsewhere, InStep, EnabledFirst
  <1> QED
    BY <1>1 DEF AnswerInv

\* Fewer pieces coming, and nothing else changed that matters.
LEMMA FewerComing ==
    ASSUME AnswerInv, Keeps(Coming', Coming),
           UNCHANGED <<pc, step, open, up, toFw, stale, matched>>, fw.enabled => fw'.enabled
    PROVE  AnswerInv'
  <1>1. Quiet => Quiet'
    BY DEF Quiet, Keeps
  <1>2. \A c : Owed(c) => Owed(c)'
    BY DEF Owed, Keeps
  <1>3. InStep => InStep'
    <2>1. (pc \in {"main", "send", "capture"} => Quiet) => (pc' \in {"main", "send", "capture"} => Quiet')
      BY <1>1
    <2>2. pc = "wait" => (Owed(Script[step]) => Owed(Script[step])')
      BY <1>2 DEF Script
    <2> QED
      BY <1>1, <1>2, <2>1, <2>2 DEF InStep
  <1>4. EnabledFirst => EnabledFirst'
    BY DEF EnabledFirst, Keeps
  <1> QED
    BY <1>3, <1>4 DEF AnswerInv

\* A command sent when nothing is owed makes its answer owed.
LEMMA SendOwes ==
    ASSUME Channels, Quiet, NEW c \in Commands, Send(c), UNCHANGED <<q, rx>>
    PROVE  Owed(c)' /\ Coming' = Coming /\ UNCHANGED <<up, fw>>
  <1>1. Coming' = Coming /\ UNCHANGED <<up, fw>>
    BY DEF Send, Coming
  <1>2. toFw' = << >> \/ toFw' = <<c>>
    BY DEF Send, Quiet
  <1>3. Calm(Coming')
    BY <1>1 DEF Quiet
  <1>4. OneAnswer(Coming', c)
    BY <1>3 DEF Calm, OneAnswer
  <1> QED
    BY <1>1, <1>2, <1>3, <1>4 DEF Owed

LEMMA SendType ==
    ASSUME Channels, NEW c \in Commands, Send(c) \/ SendRaises, UNCHANGED <<q, rx>>
    PROVE  Channels'
  <1>1. toFw \in Seq(Commands) /\ UNCHANGED <<toHost, fw>>
    BY DEF Channels, Send, SendRaises, wire
  <1>2. toFw' = toFw \/ toFw' = Append(toFw, c)
    BY DEF Send, SendRaises, wire
  <1>3. toFw' \in Seq(Commands)
    BY <1>1, <1>2
  <1> QED
    BY <1>1, <1>3 DEF Channels

LEMMA MainKeeps ==
    ASSUME Channels, Steps, AnswerInv, Main PROVE Channels' /\ AnswerInv'
  <1>1. UNCHANGED <<q, rx, stale, matched, step, open>>
    BY DEF Main, io, fixed
  <1>2. CASE pc' = "send" /\ UNCHANGED <<wire, sent>>
    <2>1. pc = "main" /\ UNCHANGED <<toFw, toHost, up, fw>>
      BY <1>2 DEF Main, wire
    <2>2. Coming' = Coming
      BY <1>1, <2>1 DEF Coming
    <2>3. InStep => InStep' /\ EnabledFirst'
      BY <1>1, <1>2, <2>1, <2>2 DEF Steps, InStep, EnabledFirst, Quiet
    <2>4. Channels'
      BY <1>1, <2>1 DEF Channels
    <2> QED
      BY <1>1, <2>3, <2>4 DEF AnswerInv
  <1>3. CASE ~(pc' = "send" /\ UNCHANGED <<wire, sent>>)
    <2>1. pc' \in Elsewhere
      BY <1>3 DEF Main, Goto, Raise, Elsewhere
    <2>2. UNCHANGED <<wire, sent>> \/ Send("status") \/ SendRaises
      BY DEF Main
    <2>3. "status" \in Commands
      BY DEF Commands
    <2>4. Channels'
      <3>1. CASE UNCHANGED <<wire, sent>>
        BY <1>1, <3>1 DEF Channels, wire
      <3>2. CASE Send("status") \/ SendRaises
        BY <1>1, <2>3, <3>2, SendType
      <3> QED
        BY <2>2, <3>1, <3>2
    <2> QED
      BY <1>1, <2>1, <2>4, GoneElsewhere
  <1> QED
    BY <1>2, <1>3

LEMMA ScriptCommands ==
    /\ Len(Script) = 3
    /\ \A k \in 1 .. 3 : Script[k] \in Commands
    /\ Script[1] = "enable" /\ Script[2] = "log" /\ Script[3] = "experiment"
BY DEF Script, Commands

LEMMA SendCommandKeeps ==
    ASSUME Channels, Steps, AnswerInv, SendCommand
    PROVE  Channels' /\ AnswerInv'
  <1>1. UNCHANGED <<q, rx, stale, matched, open>> /\ pc = "send" /\ step' = step + 1
    BY DEF SendCommand, io, fixed
  <1>2. step \in 0 .. 2
    BY <1>1 DEF Steps
  <1>3. PICK c \in Commands : c = Script[step + 1]
    BY <1>2, ScriptCommands
  <1>4. (Send(c) /\ pc' = "wait") \/ (SendRaises /\ pc' = "final")
    BY <1>3 DEF SendCommand, Goto, Raise
  <1>5. Channels'
    BY <1>1, <1>4, SendType
  <1>6. CASE Send(c) /\ pc' = "wait"
    <2>1. ASSUME ~stale PROVE InStep' /\ EnabledFirst'
      <3>1. Quiet /\ (up /\ step > 0 => fw.enabled)
        BY <1>1, <2>1 DEF AnswerInv, InStep, EnabledFirst
      <3>2. Owed(c)' /\ Coming' = Coming /\ UNCHANGED <<up, fw>>
        BY <1>1, <1>6, <3>1, SendOwes
      <3>3. InStep'
        BY <1>1, <1>3, <1>6, <3>2 DEF InStep
      <3>4. ~HasOk(Coming')
        BY <3>1, <3>2 DEF Quiet, Calm, HasOk, IsAnswer
      <3>5. EnabledFirst'
        BY <1>1, <1>2, <1>6, <3>1, <3>2, <3>4 DEF EnabledFirst
      <3> QED
        BY <3>3, <3>5
    <2>2. stale' = stale /\ matched' = matched
      BY <1>1
    <2> QED
      BY <1>5, <2>1, <2>2, Zenon DEF AnswerInv
  <1>7. CASE pc' = "final"
    <2>1. pc' \in Elsewhere
      BY <1>7 DEF Elsewhere
    <2>2. UNCHANGED <<stale, matched>>
      BY <1>1
    <2> QED
      BY <1>5, <2>1, <2>2, GoneElsewhere
  <1> QED
    BY <1>4, <1>5, <1>6, <1>7

LEMMA WaitOkKeeps ==
    ASSUME Channels, Steps, AnswerInv, WaitOk
    PROVE  Channels' /\ AnswerInv'
  <1>1. /\ pc \in {"wait", "waitstop"} /\ Take({"OK"})
        /\ matched' = (matched /\ Head(q).of = Awaited)
        /\ UNCHANGED <<stale, step, open, exc>>
    BY DEF WaitOk, fixed
  <1>2. UNCHANGED <<toFw, fw, up>> /\ Head(q).kind = "OK"
    BY <1>1 DEF Take, wire
  <1>3. /\ Channels' /\ HasOk(Coming) /\ ~Calm(Coming)
        /\ \A c : OneAnswer(Coming, c) => Head(q).of = c /\ Calm(Coming')
    BY <1>1, <1>2, TakeKeeps DEF IsAnswer
  <1>4. ASSUME ~stale PROVE InStep' /\ EnabledFirst' /\ matched'
    <2>1. InStep /\ EnabledFirst /\ matched
      BY <1>4 DEF AnswerInv
    <2>2. Owed(Awaited)
      BY <1>1, <2>1 DEF InStep, Awaited
    <2>3. toFw = << >> /\ OneAnswer(Coming, Awaited)
      BY <1>3, <2>2 DEF Owed
    <2>4. Quiet' /\ Head(q).of = Awaited
      BY <1>2, <1>3, <2>3 DEF Quiet
    <2>5. matched'
      BY <1>1, <2>1, <2>4
    <2>6. CASE pc = "waitstop"
      <3>1. pc' \in Elsewhere
        BY <2>6 DEF WaitOk, Goto, AfterStop, Elsewhere
      <3> QED
        BY <2>5, <3>1 DEF InStep, EnabledFirst, Elsewhere
    <2>7. CASE pc = "wait"
      <3>1. pc' \in {"send", "capture"}
        BY <2>7 DEF WaitOk, Goto, AfterOk
      <3>2. InStep'
        BY <2>4, <3>1 DEF InStep
      <3>3. step \in 1 .. 3
        BY <2>7 DEF Steps
      <3>4. up => fw.enabled
        BY <1>3, <2>1, <2>7, <3>3 DEF EnabledFirst
      <3>5. EnabledFirst'
        BY <1>2, <3>4 DEF EnabledFirst
      <3> QED
        BY <2>5, <3>2, <3>5
    <2> QED
      BY <1>1, <2>6, <2>7
  <1> QED
    BY <1>1, <1>3, <1>4 DEF AnswerInv

LEMMA WaitKeeps ==
    ASSUME Channels, AnswerInv, WaitSkip \/ WaitErr \/ WaitTimeout
    PROVE  Channels' /\ AnswerInv'
  <1>1. CASE WaitSkip
    <2>1. Take({"T", "R", "E"}) /\ UNCHANGED <<pc, step, open, up, toFw, stale, matched, fw>>
      BY <1>1 DEF WaitSkip, Take, host, fixed, wire
    <2>2. Channels' /\ Keeps(Coming', Coming)
      BY <2>1, TakeKeeps
    <2> QED
      BY <2>1, <2>2, FewerComing
  <1>2. CASE WaitErr
    <2>1. Take({"ERR"}) /\ pc' \in Elsewhere /\ UNCHANGED <<stale, matched>>
      BY <1>2 DEF WaitErr, Raise, Goto, AfterStop, Elsewhere, fixed
    <2>2. Channels'
      BY <2>1, TakeKeeps
    <2> QED
      BY <2>1, <2>2, GoneElsewhere
  <1>3. CASE WaitTimeout
    <2>1. pc' \in Elsewhere /\ UNCHANGED <<stale, matched, q, rx, toFw, toHost, fw>>
      BY <1>3 DEF WaitTimeout, Raise, Goto, AfterStop, Elsewhere, fixed, io, wire
    <2>2. Channels'
      BY <2>1 DEF Channels
    <2> QED
      BY <2>1, <2>2, GoneElsewhere
  <1> QED
    BY <1>1, <1>2, <1>3

LEMMA CaptureKeeps ==
    ASSUME Channels, AnswerInv, CaptureLine \/ CaptureDeadline \/ SaveCsv
    PROVE  Channels' /\ AnswerInv'
  <1>1. CASE CaptureLine
    <2>1. /\ Take({"T", "E", "R", "OK", "ERR"})
          /\ UNCHANGED <<pc, step, open, up, toFw, stale, matched, fw>>
      BY <1>1 DEF CaptureLine, Take, fixed, wire
    <2>2. Channels' /\ Keeps(Coming', Coming)
      BY <2>1, TakeKeeps
    <2> QED
      BY <2>1, <2>2, FewerComing
  <1>2. CASE CaptureDeadline
    <2>1. /\ pc = "capture" /\ pc' = "stop"
          /\ UNCHANGED <<stale, matched, open, q, rx, toFw, toHost, fw, up>>
      BY <1>2 DEF CaptureDeadline, Goto, fixed, io, wire
    <2>2. Channels' /\ Coming' = Coming
      BY <2>1 DEF Channels, Coming
    <2>3. InStep => InStep' /\ EnabledFirst'
      BY <2>1, <2>2 DEF InStep, EnabledFirst, Quiet
    <2> QED
      BY <2>1, <2>2, <2>3 DEF AnswerInv
  <1>3. CASE SaveCsv
    <2>1. pc' \in Elsewhere /\ UNCHANGED <<stale, matched, q, rx, toFw, toHost, fw>>
      BY <1>3 DEF SaveCsv, Goto, Raise, Elsewhere, fixed, io, wire
    <2>2. Channels'
      BY <2>1 DEF Channels
    <2> QED
      BY <2>1, <2>2, GoneElsewhere
  <1> QED
    BY <1>1, <1>2, <1>3

LEMMA StopKeeps ==
    ASSUME Channels, AnswerInv, StopExperiment
    PROVE  Channels' /\ AnswerInv'
  <1>1. "stop" \in Commands
    BY DEF Commands
  <1>2. pc = "stop" /\ UNCHANGED <<q, rx, stale, matched, open>>
    BY DEF StopExperiment, io, fixed
  <1>3. (Send("stop") /\ pc' = "waitstop") \/ (SendRaises /\ pc' = "final")
    BY DEF StopExperiment, Goto, Raise
  <1>4. Channels'
    BY <1>1, <1>2, <1>3, SendType
  <1>5. CASE Send("stop") /\ pc' = "waitstop"
    <2>1. ASSUME ~stale PROVE InStep' /\ EnabledFirst'
      <3>1. Quiet
        BY <1>2, <1>5, <2>1 DEF AnswerInv, InStep, Send
      <3>2. Owed("stop")'
        BY <1>1, <1>2, <1>5, <3>1, SendOwes
      <3> QED
        BY <1>5, <3>2 DEF InStep, EnabledFirst
    <2>2. stale' = stale /\ matched' = matched
      BY <1>2
    <2> QED
      BY <1>4, <2>1, <2>2, Zenon DEF AnswerInv
  <1>6. CASE pc' = "final"
    <2>1. pc' \in Elsewhere
      BY <1>6 DEF Elsewhere
    <2>2. UNCHANGED <<stale, matched>>
      BY <1>2
    <2> QED
      BY <1>4, <2>1, <2>2, GoneElsewhere
  <1> QED
    BY <1>3, <1>4, <1>5, <1>6

LEMMA OtherCommandsKeep ==
    ASSUME Channels, AnswerInv,
           StatusLine \/ StatusTimeout \/ ReplPrint \/ ReplEof \/ ReplStop \/ Final
    PROVE  Channels' /\ AnswerInv'
  <1>0. "stop" \in Commands
    BY DEF Commands
  <1>1. pc' \in Elsewhere /\ UNCHANGED <<stale, matched>>
    BY DEF StatusLine, StatusTimeout, ReplPrint, ReplEof, ReplStop, Final, Goto, Elsewhere, host, fixed
  <1>2. Channels'
    <2>1. CASE StatusLine
      BY <2>1, TakeKeeps DEF StatusLine
    <2>2. CASE ReplPrint
      BY <2>2, TakeKeeps DEF ReplPrint
    <2>3. CASE StatusTimeout \/ ReplEof
      BY <2>3 DEF StatusTimeout, ReplEof, Channels, io, wire
    <2>4. CASE ReplStop \/ Final
      <3>1. (Send("stop") \/ SendRaises) /\ UNCHANGED <<q, rx>>
        BY <2>4 DEF ReplStop, Final, TrySend, io
      <3> QED
        BY <1>0, <3>1, SendType
    <2> QED
      BY <2>1, <2>2, <2>3, <2>4
  <1> QED
    BY <1>1, <1>2, GoneElsewhere

LEMMA ReplSendKeeps ==
    ASSUME Channels, AnswerInv, NEW c \in Typed, ReplSend(c)
    PROVE  Channels' /\ AnswerInv'
  <1>1. c \in Commands
    BY DEF Commands
  <1>2. pc' \in Elsewhere /\ UNCHANGED <<stale, matched>>
    BY DEF ReplSend, Raise, Elsewhere, fixed
  <1>3. (Send(c) \/ SendRaises) /\ UNCHANGED <<q, rx>>
    BY DEF ReplSend, io
  <1>4. Channels'
    BY <1>1, <1>3, SendType
  <1> QED
    BY <1>2, <1>4, GoneElsewhere

\* The handler leaves the main thread without an answer to wait for.
LEMMA SigintKeeps ==
    ASSUME Channels, AnswerInv, OnSigint
    PROVE  Channels' /\ AnswerInv'
  <1>1. "stop" \in Commands
    BY DEF Commands
  <1>2. (Send("stop") \/ SendRaises) /\ UNCHANGED <<q, rx, stale, matched>> /\ ~open'
    BY DEF OnSigint, TrySend, io, fixed
  <1>3. Channels'
    BY <1>1, <1>2, SendType
  <1>4. pc' \in Elsewhere \/ pc' = "stop"
    BY DEF OnSigint, Raise, Unwound, Elsewhere
  <1>5. CASE pc' \in Elsewhere
    BY <1>2, <1>3, <1>5, GoneElsewhere
  <1>6. CASE pc' = "stop"
    <2>1. InStep' /\ EnabledFirst'
      BY <1>2, <1>6 DEF InStep, EnabledFirst
    <2>2. stale' = stale /\ matched' = matched
      BY <1>2
    <2> QED
      BY <1>3, <2>1, <2>2, Zenon DEF AnswerInv
  <1> QED
    BY <1>4, <1>5, <1>6

LEMMA ReaderKeeps ==
    ASSUME Channels, AnswerInv, (\E n \in 1 .. 3 : ReadChunk(n)) \/ ReaderEnds \/ UNCHANGED vars
    PROVE  Channels' /\ AnswerInv'
  <1>1. UNCHANGED <<pc, step, open, up, toFw, stale, matched, fw>>
    BY DEF ReadChunk, ReaderEnds, vars, host, fixed, wire
  <1>2. Channels' /\ Keeps(Coming', Coming)
    <2>1. CASE \E n \in 1 .. 3 : ReadChunk(n)
      <3>1. PICK n \in 1 .. 3 : ReadChunk(n)
        BY <2>1
      <3> QED
        BY <3>1, ReadKeeps
    <2>2. CASE ReaderEnds \/ UNCHANGED vars
      <3>1. UNCHANGED <<q, rx, toHost>>
        BY <2>2 DEF ReaderEnds, vars, io, wire
      <3>2. Coming' = Coming
        BY <3>1 DEF Coming
      <3>3. Channels'
        BY <1>1, <3>1 DEF Channels
      <3> QED
        BY <3>2, <3>3, KeepsItself
    <2> QED
      BY <2>1, <2>2
  <1> QED
    BY <1>1, <1>2, FewerComing

\* What the controller says by itself answers no command.
LEMMA TelemetryKeeps ==
    ASSUME Channels, AnswerInv, Telemetry \/ ExpDone \/ \E n \in 0 .. MaxBacklog + 1 : LinkLost(n)
    PROVE  Channels' /\ AnswerInv'
  <1>1. CASE Telemetry \/ ExpDone
    <2>1. UNCHANGED <<pc, step, open, up, toFw, stale, matched, q, rx>>
      BY <1>1 DEF Telemetry, ExpDone, host, fixed, io
    <2>2. /\ fw' \in [enabled : BOOLEAN, log : BOOLEAN, running : BOOLEAN]
          /\ fw.enabled => fw'.enabled
      BY <1>1 DEF Channels, Telemetry, ExpDone
    <2>3. PICK l \in Pieces : Emit(l) /\ ~IsAnswer(l)
      <3>1. \A k \in {"T", "E"} : Line(k, "") \in Pieces /\ ~IsAnswer(Line(k, ""))
        BY DEF Line, Pieces, Kinds, IsAnswer
      <3> QED
        BY <1>1, <3>1 DEF Telemetry, ExpDone
    <2>4. toHost' \in Seq(Pieces) /\ Keeps(Coming', Coming)
      BY <2>1, <2>3, EmitKeeps
    <2>5. Channels'
      BY <2>1, <2>2, <2>4 DEF Channels
    <2> QED
      BY <2>1, <2>2, <2>4, <2>5, FewerComing
  <1>2. CASE \E n \in 0 .. MaxBacklog + 1 : LinkLost(n)
    <2>1. PICK n \in Nat : LinkLost(n)
      BY <1>2, TuneAssumption
    <2>2. Channels' /\ Keeps(Coming', Coming)
      BY <2>1, LostKeeps
    <2>3. UNCHANGED <<pc, step, open, stale, matched>> /\ ~up' /\ toFw' = << >>
      BY <2>1 DEF LinkLost, host, fixed
    <2>4. Quiet => Quiet'
      BY <2>2, <2>3 DEF Quiet, Keeps
    <2>5. ASSUME NEW c, Owed(c) PROVE Owed(c)'
      <3>1. Calm(Coming) => OneAnswer(Coming, c)
        BY DEF Calm, OneAnswer
      <3> QED
        BY <2>2, <2>3, <2>5, <3>1 DEF Owed, Keeps
    <2>6. InStep => InStep'
      <3>1. pc = "wait" => (Owed(Script[step]) => Owed(Script[step])')
        BY <2>5, <2>3 DEF Script
      <3> QED
        BY <2>3, <2>4, <2>5, <3>1 DEF InStep
    <2>7. EnabledFirst'
      BY <2>3 DEF EnabledFirst
    <2>8. stale' = stale /\ matched' = matched
      BY <2>3
    <2> QED
      BY <2>2, <2>6, <2>7, <2>8, Zenon DEF AnswerInv
  <1> QED
    BY <1>1, <1>2

\* What the controller makes of a command.
LEMMA AnswerTypes ==
    ASSUME Channels, NEW c \in Commands, NEW a \in Answers(c)
    PROVE  /\ a[1] \in {"OK", "ERR", "R"}
           /\ a[2] \in [enabled : BOOLEAN, log : BOOLEAN, running : BOOLEAN]
           /\ c \in {"log", "experiment"} /\ fw.enabled => a[2].enabled
           /\ c = "enable" /\ a[1] = "OK" => a[2].enabled
  <1>1. PICK f \in [enabled : BOOLEAN, log : BOOLEAN, running : BOOLEAN] : f = fw
    BY DEF Channels
  <1>2. CASE c = "enable"
    <2>1. a = <<"OK", [f EXCEPT !.enabled = TRUE]>> \/ a = <<"ERR", f>>
      BY <1>1, <1>2 DEF Answers
    <2>2. CASE a = <<"OK", [f EXCEPT !.enabled = TRUE]>>
      BY <1>2, <2>2
    <2>3. CASE a = <<"ERR", f>>
      BY <1>2, <2>3
    <2> QED
      BY <2>1, <2>2, <2>3
  <1>3. CASE c = "log"
    <2>1. a = <<"OK", [f EXCEPT !.log = TRUE]>>
      BY <1>1, <1>3 DEF Answers
    <2> QED
      BY <1>1, <1>3, <2>1
  <1>4. CASE c = "experiment"
    <2>1. a = <<"OK", [f EXCEPT !.running = TRUE]>> \/ a = <<"ERR", f>>
      BY <1>1, <1>4 DEF Answers
    <2>2. CASE a = <<"OK", [f EXCEPT !.running = TRUE]>>
      BY <1>1, <1>4, <2>2
    <2>3. CASE a = <<"ERR", f>>
      BY <1>1, <1>4, <2>3
    <2> QED
      BY <2>1, <2>2, <2>3
  <1>5. CASE c = "stop"
    <2>1. a = <<"OK", [f EXCEPT !.enabled = FALSE, !.running = FALSE]>>
      BY <1>1, <1>5 DEF Answers
    <2> QED
      BY <1>5, <2>1
  <1>6. CASE c \notin {"enable", "log", "experiment", "stop"}
    <2>1. a = <<"R", f>> \/ a = <<"OK", f>> \/ a = <<"ERR", f>>
      BY <1>1, <1>6 DEF Answers
    <2> QED
      BY <1>6, <2>1
  <1> QED
    BY <1>2, <1>3, <1>4, <1>5, <1>6

LEMMA ExecuteKeeps ==
    ASSUME Channels, Steps, AnswerInv, Execute
    PROVE  Channels' /\ AnswerInv'
  <1>1. UNCHANGED <<pc, step, open, up, stale, matched, q, rx>> /\ toFw # << >> /\ toFw' = Tail(toFw)
    BY DEF Execute, host, fixed, io
  <1>2. toFw \in Seq(Commands)
    BY DEF Channels
  <1>3. PICK c \in Commands : c = Head(toFw)
    BY <1>1, <1>2
  <1>4. PICK a \in Answers(c) : Emit(Line(a[1], c)) /\ fw' = a[2]
    BY <1>3 DEF Execute
  <1>5. PICK l \in Pieces : Emit(l) /\ l.of = c /\ l.kind = a[1]
    <2>1. Line(a[1], c) \in Pieces /\ Line(a[1], c).of = c /\ Line(a[1], c).kind = a[1]
      BY AnswerTypes DEF Line, Pieces, Kinds
    <2> QED
      BY <1>4, <2>1
  <1>6. /\ toHost' \in Seq(Pieces)
        /\ Calm(Coming) => OneAnswer(Coming', c)
        /\ HasOk(Coming') => HasOk(Coming) \/ a[1] = "OK"
    BY <1>1, <1>5, EmitKeeps
  <1>7. Channels'
    <2>1. fw' \in [enabled : BOOLEAN, log : BOOLEAN, running : BOOLEAN]
      BY <1>4, AnswerTypes
    <2>2. toFw' \in Seq(Commands)
      BY <1>1, <1>2
    <2> QED
      BY <1>1, <1>6, <2>1, <2>2 DEF Channels
  <1>8. ASSUME ~stale PROVE InStep' /\ EnabledFirst'
    <2>1. InStep /\ EnabledFirst
      BY <1>8 DEF AnswerInv
    <2>2. ~Quiet
      BY <1>1 DEF Quiet
    <2>3. ASSUME NEW e, Owed(e) PROVE e = c /\ Calm(Coming) /\ Owed(e)'
      <3>1. Len(toFw) = 1 /\ toFw[1] = e /\ Calm(Coming)
        BY <1>1, <2>3 DEF Owed
      <3>2. e = c /\ toFw' = << >>
        BY <1>1, <1>2, <1>3, <3>1
      <3> QED
        BY <1>6, <3>1, <3>2 DEF Owed
    <2>4. CASE pc \in {"main", "send", "capture"}
      BY <2>1, <2>2, <2>4 DEF InStep
    <2>5. CASE pc = "stop"
      BY <1>1, <2>1, <2>2, <2>5 DEF InStep, EnabledFirst
    <2>6. CASE pc = "waitstop"
      <3>1. Owed("stop")'
        BY <2>1, <2>3, <2>6 DEF InStep
      <3> QED
        BY <1>1, <2>6, <3>1 DEF InStep, EnabledFirst
    <2>7. CASE pc = "wait"
      <3>1. PICK k \in 1 .. 3 : k = step
        BY <2>7 DEF Steps
      <3>2. Owed(Script[k])
        BY <2>1, <2>7, <3>1 DEF InStep
      <3>3. Script[k] = c /\ Calm(Coming) /\ Owed(Script[k])'
        BY <2>3, <3>2
      <3>4. InStep'
        BY <1>1, <2>7, <3>1, <3>3 DEF InStep
      <3>5. ~HasOk(Coming)
        BY <3>3 DEF Calm, HasOk, IsAnswer
      <3>6. CASE k = 1
        <4>1. c = "enable"
          BY <3>3, <3>6, ScriptCommands
        <4>2. HasOk(Coming') => fw'.enabled
          BY <1>4, <1>6, <3>5, <4>1, AnswerTypes
        <4>3. EnabledFirst'
          BY <1>1, <2>7, <3>1, <3>6, <4>2 DEF EnabledFirst
        <4> QED
          BY <3>4, <4>3
      <3>7. CASE k \in 2 .. 3
        <4>1. c \in {"log", "experiment"}
          BY <3>3, <3>7, ScriptCommands
        <4>2. up => fw.enabled
          BY <2>1, <2>7, <3>1, <3>7 DEF EnabledFirst
        <4>3. up => fw'.enabled
          BY <1>4, <4>1, <4>2, AnswerTypes
        <4>4. EnabledFirst'
          BY <1>1, <4>3 DEF EnabledFirst
        <4> QED
          BY <3>4, <4>4
      <3> QED
        BY <3>6, <3>7
    <2>8. CASE pc \notin {"main", "send", "capture", "stop", "waitstop", "wait"}
      BY <1>1, <2>8 DEF InStep, EnabledFirst
    <2> QED
      BY <2>4, <2>5, <2>6, <2>7, <2>8
  <1>9. stale' = stale /\ matched' = matched
    BY <1>1
  <1> QED
    BY <1>7, <1>8, <1>9, Zenon DEF AnswerInv

LEMMA InitAnswers == Init => AnswerIInv
  <1> SUFFICES ASSUME Init PROVE AnswerIInv
    OBVIOUS
  <1>1. /\ q = << >> /\ rx = << >> /\ toFw = << >> /\ pc = "main" /\ step = 0 /\ matched
        /\ toHost = IF stale THEN <<Line("OK", "stop"), NewLine>> ELSE << >>
        /\ stale \in BOOLEAN
    BY DEF Init
  <1>2. fw \in [enabled : BOOLEAN, log : BOOLEAN, running : BOOLEAN]
    BY DEF Init
  <1>3. Line("OK", "stop") \in Pieces /\ NewLine \in Pieces
    BY DEF Line, NewLine, Pieces, Kinds, Commands
  <1>4. << >> \in Seq(Pieces) /\ <<Line("OK", "stop"), NewLine>> \in Seq(Pieces)
    BY <1>3
  <1>5. toHost \in Seq(Pieces)
    BY <1>1, <1>4
  <1>6. Channels
    BY <1>1, <1>2, <1>5 DEF Channels
  <1>7. ~stale => Coming = << >>
    BY <1>1 DEF Coming
  <1>8. ~stale => Quiet
    BY <1>1, <1>7 DEF Quiet, Calm
  <1>9. ~stale => InStep /\ EnabledFirst
    BY <1>1, <1>8 DEF InStep, EnabledFirst
  <1>10. AnswerInv
    BY <1>1, <1>9 DEF AnswerInv
  <1> QED
    BY <1>1, <1>6, <1>10 DEF AnswerIInv, Steps

LEMMA NextSteps == Steps /\ [Next]_vars => Steps'
  <1> SUFFICES ASSUME Steps, [Next]_vars PROVE Steps'
    OBVIOUS
  <1> USE DEF Steps
  <1>1. CASE UNCHANGED <<pc, step>>
    BY <1>1
  <1>2. CASE pc' \in Elsewhere \cup {"stop", "waitstop", "capture"}
    BY <1>2 DEF Elsewhere
  <1>3. CASE Main
    BY <1>3 DEF Main, Goto, Raise
  <1>4. CASE SendCommand
    <2>1. pc = "send" /\ step' = step + 1 /\ pc' \in {"wait", "final"}
      BY <1>4 DEF SendCommand, Goto, Raise
    <2> QED
      BY <2>1
  <1>5. CASE WaitOk
    <2>1. pc \in {"wait", "waitstop"} /\ step' = step
      BY <1>5 DEF WaitOk
    <2>2. pc = "wait" => pc' = IF step < 3 THEN "send" ELSE "capture"
      BY <1>5, ScriptCommands DEF WaitOk, Goto, AfterOk
    <2>3. pc = "waitstop" => pc' \in {"save", "final"}
      BY <1>5 DEF WaitOk, Goto, AfterStop
    <2> QED
      BY <2>1, <2>2, <2>3
  <1>6. CASE WaitErr \/ WaitTimeout
    <2>1. pc' \in {"save", "final"}
      BY <1>6 DEF WaitErr, WaitTimeout, Raise, Goto, AfterStop
    <2> QED
      BY <2>1
  <1>7. CASE CaptureDeadline \/ StopExperiment \/ SaveCsv \/ StatusLine \/ StatusTimeout
    <2>1. pc' \in {"stop", "waitstop", "final", "status"}
      BY <1>7 DEF CaptureDeadline, StopExperiment, SaveCsv, StatusLine, StatusTimeout, Raise, Goto
    <2> QED
      BY <2>1
  <1>8. CASE WaitSkip \/ CaptureLine \/ ReplPrint \/ UNCHANGED vars
    BY <1>1, <1>8 DEF WaitSkip, CaptureLine, ReplPrint, vars, host
  <1>9. CASE (\E c \in Typed : ReplSend(c)) \/ ReplEof \/ ReplStop \/ Final
    <2>1. pc' \in {"repl", "replstop", "final", "exited"}
      BY <1>9 DEF ReplSend, ReplEof, ReplStop, Final, Raise, Goto
    <2> QED
      BY <2>1
  <1>10. CASE OnSigint
    <2>1. pc' \in {"stop", "replstop", "exited", "final"}
      BY <1>10 DEF OnSigint, Raise, Unwound
    <2> QED
      BY <2>1
  <1>11. CASE (\E n \in 1 .. 3 : ReadChunk(n)) \/ ReaderEnds
    BY <1>1, <1>11 DEF ReadChunk, ReaderEnds, host
  <1>12. CASE Execute \/ Telemetry \/ ExpDone \/ \E n \in 0 .. MaxBacklog + 1 : LinkLost(n)
    <2>1. UNCHANGED <<pc, step>>
      BY <1>12 DEF Execute, Telemetry, ExpDone, LinkLost, host
    <2> QED
      BY <1>1, <2>1
  <1> QED
    BY <1>3, <1>4, <1>5, <1>6, <1>7, <1>8, <1>9, <1>10, <1>11, <1>12
    DEF Next, MainThread, RunExperiment, Deadlines, External

LEMMA NextAnswers == AnswerIInv /\ [Next]_vars => AnswerIInv'
  <1> SUFFICES ASSUME AnswerIInv, [Next]_vars PROVE Channels' /\ AnswerInv'
    BY NextSteps DEF AnswerIInv
  <1>0. Channels /\ Steps /\ AnswerInv
    BY DEF AnswerIInv
  <1>1. CASE Main
    BY <1>0, <1>1, MainKeeps
  <1>2. CASE SendCommand
    BY <1>0, <1>2, SendCommandKeeps
  <1>3. CASE WaitOk
    BY <1>0, <1>3, WaitOkKeeps
  <1>4. CASE WaitSkip \/ WaitErr \/ WaitTimeout
    BY <1>0, <1>4, WaitKeeps
  <1>5. CASE CaptureLine \/ CaptureDeadline \/ SaveCsv
    BY <1>0, <1>5, CaptureKeeps
  <1>6. CASE StopExperiment
    BY <1>0, <1>6, StopKeeps
  <1>7. CASE StatusLine \/ StatusTimeout \/ ReplPrint \/ ReplEof \/ ReplStop \/ Final
    BY <1>0, <1>7, OtherCommandsKeep
  <1>8. CASE \E c \in Typed : ReplSend(c)
    BY <1>0, <1>8, ReplSendKeeps
  <1>9. CASE OnSigint
    BY <1>0, <1>9, SigintKeeps
  <1>10. CASE (\E n \in 1 .. 3 : ReadChunk(n)) \/ ReaderEnds \/ UNCHANGED vars
    BY <1>0, <1>10, ReaderKeeps
  <1>11. CASE Telemetry \/ ExpDone \/ \E n \in 0 .. MaxBacklog + 1 : LinkLost(n)
    BY <1>0, <1>11, TelemetryKeeps
  <1>12. CASE Execute
    BY <1>0, <1>12, ExecuteKeeps
  <1> QED
    BY <1>1, <1>2, <1>3, <1>4, <1>5, <1>6, <1>7, <1>8, <1>9, <1>10, <1>11, <1>12
    DEF Next, MainThread, RunExperiment, Deadlines, External

\* An OK is the answer to the command it is waited for, and telemetry is captured
\* only from an experiment the controller accepted, unless an earlier run left an
\* answer on the line (wait_ok, run_experiment), for any commands typed and any
\* backlog.
THEOREM ToolAnswersMatch == Spec => []AnswersMatch
  <1>1. AnswerIInv => AnswersMatch
    BY DEF AnswerIInv, AnswerInv, EnabledFirst, AnswersMatch
  <1> QED
    BY InitAnswers, NextAnswers, <1>1, PTL DEF Spec
=============================================================================
