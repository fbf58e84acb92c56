----------------------------- MODULE StepMetrics ----------------------------
(***************************************************************************)
(* analyze_step.py: the figures of one step-response capture.  A capture   *)
(* is a sequence of telemetry rows, each with the target, speed and        *)
(* current of both wheels.  Times are in milliseconds, percentages and the *)
(* standard deviation are rounded down.                                    *)
(***************************************************************************)
EXTENDS Integers, Sequences, SequencesExt, FiniteSetsExt

NoMetrics == [none |-> TRUE]

AbsOf(x) == IF x < 0 THEN -x ELSE x

SqrtOf(v) == CHOOSE k \in 0 .. v : k * k <= v /\ (k + 1) * (k + 1) > v

SumOver(seq, f(_)) == FoldLeft(LAMBDA acc, r : acc + f(r), 0, seq)

FirstIn(rows, p(_)) ==
    LET hits == {k \in DOMAIN rows : p(rows[k])}
    IN  IF hits = {} THEN 0 ELSE Min(hits)

\* The first row in which a wheel has a target, the left one if both have.
detect_side(rows) ==
    LET k == FirstIn(rows, LAMBDA r : r.tgt["L"] # 0 \/ r.tgt["R"] # 0)
    IN  IF k = 0 THEN "none" ELSE IF rows[k].tgt["L"] # 0 THEN "L" ELSE "R"

\* The rows from the first with a target up to the first later one without.
During(rows, side) ==
    LET start == FirstIn(rows, LAMBDA r : r.tgt[side] # 0)
        ended(r) == r.t > rows[start].t /\ r.tgt[side] = 0
        end == FirstIn(rows, ended)
    IN  IF start = 0 THEN <<>>
        ELSE SelectSeq(rows, LAMBDA r : /\ r.t >= rows[start].t
                                        /\ end = 0 \/ r.t < rows[end].t)

\* Milliseconds until so many tenths of the target are reached; 0 if never.
RiseTo(during, side, tenths) ==
    LET target == during[1].tgt[side]
        sign == IF target > 0 THEN 1 ELSE -1
        k == FirstIn(during, LAMBDA r : 10 * sign * r.erpm[side] >= sign * tenths * target)
    IN  IF k = 0 THEN 0 ELSE during[k].t - during[1].t

\* The speeds of the last two fifths, taken for the steady state.
Steady(during, side) ==
    LET from == (6 * Len(during)) \div 10
    IN  [k \in 1 .. Len(during) - from |-> during[from + k].erpm[side]]

Mean(xs) == SumOver(xs, LAMBDA x : x) \div Len(xs)

StdDev(xs) ==
    IF Len(xs) <= 1 THEN 0
    ELSE SqrtOf(SumOver(xs, LAMBDA x : (x - Mean(xs)) * (x - Mean(xs))) \div (Len(xs) - 1))

\* How far short of the target it falls after the peak, in percent.
Undershoot(during, side, peak) ==
    LET target == during[1].tgt[side]
        sign == IF target > 0 THEN 1 ELSE -1
        seen == FirstIn(during, LAMBDA r : r.erpm[side] = peak)
        after == {sign * during[k].erpm[side] :
                    k \in {j \in seen .. Len(during) : during[j].erpm[side] # peak}}
    IN  IF after = {} THEN 0
        ELSE ((sign * target - Min(after)) * 100) \div AbsOf(target)

\* When it was last more than 5 % off the target, after the start of the step.
Settle(during, side) ==
    LET target == during[1].tgt[side]
        out == {k \in DOMAIN during : 20 * AbsOf(during[k].erpm[side] - target) > AbsOf(target)}
    IN  IF out = {} THEN 0 ELSE during[Max(out)].t - during[1].t

\* metrics() for a side, "none" standing for the side to be detected
metrics(rows, wanted) ==
    LET side == IF wanted = "none" THEN detect_side(rows) ELSE wanted
        during == IF side = "none" THEN <<>> ELSE During(rows, side)
        target == during[1].tgt[side]
        sign == IF target > 0 THEN 1 ELSE -1
        peak == sign * Max({sign * during[k].erpm[side] : k \in DOMAIN during})
    IN  IF during = <<>> THEN NoMetrics
        ELSE [none |-> FALSE,
              target |-> target,
              rise10 |-> RiseTo(during, side, 1),
              rise90 |-> RiseTo(during, side, 9),
              overshoot |-> (sign * (peak - target) * 100) \div AbsOf(target),
              undershoot |-> Undershoot(during, side, peak),
              settle |-> Settle(during, side),
              ssMean |-> Mean(Steady(during, side)),
              ssStd |-> StdDev(Steady(during, side)),
              iPeak |-> Max({AbsOf(during[k].i[side]) : k \in DOMAIN during})]
=============================================================================
