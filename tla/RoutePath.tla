----------------------------- MODULE RoutePath ------------------------------
(***************************************************************************)
(* path.py: from recorded stations to a path that can be asked where a     *)
(* station is and at which station a point is.  Coordinates and lengths    *)
(* are whole units; a length that is not whole is rounded down.  The       *)
(* spline between two stations is taken for the chord.                     *)
(***************************************************************************)
EXTENDS Integers, Sequences, SequencesExt, FiniteSetsExt

NoHint == [none |-> TRUE]

Minus(p, r) == <<p[1] - r[1], p[2] - r[2]>>
Dot(p, r) == p[1] * r[1] + p[2] * r[2]
AbsVal(x) == IF x < 0 THEN -x ELSE x

Hypot(v) ==
    LET a == AbsVal(v[1])
        b == AbsVal(v[2])
        sq == a * a + b * b
    IN  CHOOSE k \in a .. a + b : k * k <= sq /\ (k + 1) * (k + 1) > sq

Nearest(num, den) == (2 * num + den) \div (2 * den)
Bounded(x, lo, hi) == IF x < lo THEN lo ELSE IF x > hi THEN hi ELSE x

-----------------------------------------------------------------------------
(* Construction *)

\* Points that repeat the one before are dropped, and on a loop a last point
\* that repeats the first.
Dedupe(points, loop) ==
    LET keep == FoldLeft(LAMBDA acc, p : IF Minus(p, Last(acc)) = <<0, 0>> THEN acc
                                         ELSE Append(acc, p),
                         <<points[1]>>, Tail(points))
    IN  IF loop /\ Len(keep) > 1 /\ Last(keep) = keep[1] THEN Front(keep) ELSE keep

\* The least-squares parabola through the values at -half .. half, at t.
FitAt(value(_), half, t) ==
    LET at == [j \in 1 .. 2 * half + 1 |-> j - half - 1]
        sum(f(_)) == FoldLeft(LAMBDA acc, j : acc + f(j), 0, at)
        n == 2 * half + 1
        m2 == sum(LAMBDA j : j * j)
        d == n * sum(LAMBDA j : j * j * j * j) - m2 * m2
        s0 == sum(value)
        s1 == sum(LAMBDA j : j * value(j))
        s2 == sum(LAMBDA j : j * j * value(j))
    IN  Nearest(s0 * m2 * d + n * t * s1 * d + (n * t * t - m2) * (n * s2 - m2 * s0) * m2,
                n * m2 * d)

\* mutant: a window that reaches past an end repeats the end point
SavitzkyGolay_Repeat(points, window, loop) ==
    LET half == window \div 2
        n == Len(points)
        at(i, axis) == FitAt(LAMBDA j : points[Bounded(i + j, 1, n)][axis], half, 0)
    IN  IF window < 5 \/ window % 2 = 0 \/ n < window THEN points
        ELSE [i \in 1 .. n |-> <<at(i, 1), at(i, 2)>>]

\* Each point is replaced by the fit through its window; on an open path the
\* points near an end take theirs from the first or the last whole window.
SavitzkyGolay(points, window, loop) ==
    LET half == window \div 2
        n == Len(points)
        mid(i) == IF loop THEN i ELSE Bounded(i, half + 1, n - half)
        wrapped(i) == ((i - 1) % n) + 1
        at(i, axis) == FitAt(LAMBDA j : points[wrapped(mid(i) + j)][axis], half, i - mid(i))
    IN  IF window < 5 \/ window % 2 = 0 \/ n < window THEN points
        ELSE [i \in 1 .. n |-> <<at(i, 1), at(i, 2)>>]

PerSegment == 2

\* A dense line through the points in order, back to the first on a loop; the
\* end of each stretch is the beginning of the next, so an open one adds its last.
CatmullRom(points, loop) ==
    LET n == Len(points)
        next(i) == points[(i % n) + 1]
        on(i, k) == <<points[i][1] + (k * (next(i)[1] - points[i][1])) \div PerSegment,
                      points[i][2] + (k * (next(i)[2] - points[i][2])) \div PerSegment>>
        stretches == IF loop THEN n ELSE n - 1
        dense == [m \in 1 .. stretches * PerSegment |->
                    on(((m - 1) \div PerSegment) + 1, (m - 1) % PerSegment)]
    IN  IF n < 2 \/ (n < 4 /\ ~loop) THEN points
        ELSE IF loop THEN dense
        ELSE Append(dense, points[n])

\* Arc length up to each point.
Cumulative(line) ==
    FoldLeft(LAMBDA acc, k : Append(acc, Last(acc) + Hypot(Minus(line[k + 1], line[k]))),
             <<0>>, [k \in 1 .. Len(line) - 1 |-> k])

\* np.interp along the line at arc length a
Interp(line, cum, a) ==
    LET i == Max({k \in 1 .. Len(line) - 1 : cum[k] <= a})
        seg == cum[i + 1] - cum[i]
        to(axis) == IF seg = 0 THEN line[i][axis]
                    ELSE line[i][axis] + Nearest((a - cum[i]) * (line[i + 1][axis] - line[i][axis]), seg)
    IN  <<to(1), to(2)>>

\* Evenly spaced points, at least two stretches; a loop stops one short of its
\* first point.
Resample(dense, step, loop) ==
    LET line == IF loop THEN Append(dense, dense[1]) ELSE dense
        cum == Cumulative(line)
        total == Last(cum)
        count == Max({2, Nearest(total, step)})
        points == IF loop THEN count ELSE count + 1
    IN  [xy |-> [k \in 1 .. points |-> Interp(line, cum, ((k - 1) * total) \div count)],
         length |-> total]

\* Central differences; on an open path one-sided at the ends.
Tangents(xy, loop) ==
    LET n == Len(xy)
        nxt(i) == IF loop THEN xy[(i % n) + 1] ELSE xy[Bounded(i + 1, 1, n)]
        prv(i) == IF loop THEN xy[((i - 2) % n) + 1] ELSE xy[Bounded(i - 1, 1, n)]
    IN  [i \in 1 .. n |-> Minus(nxt(i), prv(i))]

\* Path.__init__; ValueError for fewer than two distinct points
IsPath(points, loop) == Len(Dedupe(points, loop)) >= 2

MakePath(points, loop, step, window) ==
    LET pts == SavitzkyGolay(Dedupe(points, loop), window, loop)
        line == Resample(CatmullRom(pts, loop), step, loop)
    IN  [loop |-> loop, step |-> step, xy |-> line.xy, length |-> line.length,
         tangent |-> Tangents(line.xy, loop)]

-----------------------------------------------------------------------------
(* Queries; indices count from 0, as in the code *)

Size(path) == Len(path.xy)
At(path, i) == path.xy[i + 1]
Along(path, i, v) ==
    LET t == path.tangent[i + 1]
        norm == Hypot(t)
    IN  Dot(v, t) \div (IF norm = 0 THEN 1 ELSE norm)
Left(path, i, v) ==
    LET t == path.tangent[i + 1]
        norm == Hypot(t)
    IN  Dot(v, <<-t[2], t[1]>>) \div (IF norm = 0 THEN 1 ELSE norm)

wrap_s(path, s) == IF path.loop THEN s % path.length ELSE Bounded(s, 0, path.length)

IndexOf(path, s) ==
    LET i == Nearest(s, path.step)
    IN  IF path.loop THEN i % Size(path) ELSE Bounded(i, 0, Size(path) - 1)

pose_at(path, s) == At(path, IndexOf(path, wrap_s(path, s)))

\* The indices of [lo, hi], not brought into range yet on a loop.
WindowOf(path, lo, hi) ==
    LET raw == (lo \div path.step) .. -((-hi) \div path.step)
    IN  IF path.loop THEN raw ELSE {i \in raw : i >= 0 /\ i < Size(path)}

\* The first of the indices whose point is nearest to q.
ArgMin(path, idx, q) ==
    LET d(i) == LET v == Minus(q, At(path, i % Size(path))) IN Dot(v, v)
        least == Min({d(i) : i \in idx})
    IN  Min({i \in idx : d(i) = least})

\* mutant: the hint is not used
project_NoHint(path, q, hint, window) ==
    LET i == ArgMin(path, 0 .. Size(path) - 1, q)
        v == Minus(q, At(path, i))
        along == Bounded(Along(path, i, v), -path.step, path.step)
    IN  [s |-> wrap_s(path, i * path.step + along), lateral |-> Left(path, i, v)]

\* The station nearest to q, within window of the hint, and the offset there.
project(path, q, hint, window) ==
    LET all == 0 .. Size(path) - 1
        near == IF hint = NoHint THEN {}
                ELSE WindowOf(path, hint.s - window, hint.s + window)
        i == ArgMin(path, IF near = {} THEN all ELSE near, q) % Size(path)
        v == Minus(q, At(path, i))
        along == Bounded(Along(path, i, v), -path.step, path.step)
    IN  [s |-> wrap_s(path, i * path.step + along), lateral |-> Left(path, i, v)]

\* The same for a point of a scan over [lo, hi]; nearest to an edge of the
\* window is outside it.
stations_of(path, q, lo, hi) ==
    LET idx == WindowOf(path, lo, hi)
        k == ArgMin(path, idx, q)
        i == k % Size(path)
        v == Minus(q, At(path, i))
    IN  IF idx = {} THEN [s |-> 0, lateral |-> 0, interior |-> FALSE]
        ELSE [s |-> wrap_s(path, i * path.step) + Along(path, i, v),
              lateral |-> Left(path, i, v),
              interior |-> k > Min(idx) /\ k < Max(idx)]

forward_gap(path, here, there) ==
    LET d == (there - here) % path.length
    IN  IF ~path.loop THEN there - here
        ELSE IF 2 * d > path.length THEN d - path.length
        ELSE d
=============================================================================
