------------------------------ MODULE TimeRanges -------------------------------
(* opentime's TimeRange and its predicates, src/opentime/timeRange.h, over the *)
(* times of one rate: a RationalTime is its integral value.  (Two values of    *)
(* one rate differ by a multiple of 1/rate, which is above DEFAULT_EPSILON_s,  *)
(* so the tolerant comparisons of doubles are comparisons of integers here.)   *)
EXTENDS Integers

TimeRange(start, dur) == [start |-> start, dur |-> dur]

EndExclusive(r) == r.start + r.dur

\* The last frame of the range; an empty range answers with its start.
EndInclusive(r) == IF r.dur > 1 THEN EndExclusive(r) - 1 ELSE r.start

\* TimeRange::range_from_start_end_time.
FromStartEnd(start, end) == TimeRange(start, end - start)

Earlier(s, t) == IF s <= t THEN s ELSE t
Later(s, t) == IF s <= t THEN t ELSE s

ContainsTime(r, t) == r.start <= t /\ t < EndExclusive(r)

\* The relations of Allen's interval algebra.  ContainsRange is strict on both sides.
ContainsRange(r, o) == o.start > r.start /\ EndExclusive(o) < EndExclusive(r)
Overlaps(r, o) ==
    /\ r.start < o.start /\ o.start < EndExclusive(r)
    /\ EndExclusive(r) < EndExclusive(o)
Before(r, o) == EndExclusive(r) < o.start
Meets(r, o) == EndExclusive(r) = o.start
Begins(r, o) == r.start = o.start /\ EndExclusive(r) < EndExclusive(o)
Finishes(r, o) == EndExclusive(r) = EndExclusive(o) /\ r.start > o.start
Equal(r, o) == r.start = o.start /\ r.dur = o.dur

Intersects(r, o) == r.start < EndExclusive(o) /\ EndExclusive(r) > o.start

--------------------------------------------------------------------------------
(* Properties of any two ranges.                                               *)

\* "These relations implement James F. Allen's thirteen basic time interval
\* relations": between two ranges that are not empty exactly one of them holds.
AllenRelation(r, o) ==
    <<Before(r, o), Before(o, r), Meets(r, o), Meets(o, r),
      Overlaps(r, o), Overlaps(o, r), Begins(r, o), Begins(o, r),
      ContainsRange(r, o), ContainsRange(o, r), Finishes(r, o), Finishes(o, r), Equal(r, o)>>

ExactlyOneRelation(r, o) ==
    \E i \in 1..13 :
        AllenRelation(r, o)[i] /\ \A j \in 1..13 \ {i} : ~AllenRelation(r, o)[j]

\* Two ranges that are not empty intersect exactly when one frame is in both.
\* (The frame to look at is the later of the two starts.)
IntersectsIffShared(r, o) ==
    Intersects(r, o)
        <=> LET t == Later(r.start, o.start) IN ContainsTime(r, t) /\ ContainsTime(o, t)

\* end_time_inclusive is the last time a range contains.
LastIsLast(r) ==
    ContainsTime(r, EndInclusive(r)) /\ ~ContainsTime(r, EndInclusive(r) + 1)

================================================================================
