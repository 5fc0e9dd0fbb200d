------------------------------- MODULE Bisection -------------------------------
(* The searches of composition.cpp in a list of children whose ranges are      *)
(* known: kids is the list, map gives the range of each.  A bisection returns  *)
(* the number of keys to skip.  The code trusts the keys to be sorted.         *)
EXTENDS TimeRanges, SequencesExt

\* Where lengths laid end to end from 0 on end: Sums(longs)[i] after i of them.
Sums(longs) ==
    LET sum[i \in 0..Len(longs)] == IF i = 0 THEN 0 ELSE sum[i - 1] + longs[i]
    IN  sum

\* What s has of S, in the order of s.
Only(s, S) ==
    LET kept[n \in 0..Len(s)] ==
            IF n = 0 THEN <<>>
            ELSE IF s[n] \in S THEN Append(kept[n - 1], s[n]) ELSE kept[n - 1]
    IN  kept[Len(s)]

\* operator[] of a std::map.
With(map, key, value) == [x \in DOMAIN map \cup {key} |-> IF x = key THEN value ELSE map[x]]

\* Mutant: keys equal to the target are skipped.
BisectLeft_Right(keys, target) ==
    LET search[p \in (0..Len(keys)) \X (0..Len(keys))] ==
            LET mid == (p[1] + p[2]) \div 2
            IN  IF p[1] >= p[2] THEN p[1]
                ELSE IF keys[mid + 1] <= target THEN search[<<mid + 1, p[2]>>]
                ELSE search[<<p[1], mid>>]
    IN  search[<<0, Len(keys)>>]

\* A round is given the lower and the upper bound.
BisectLeft(keys, target) ==
    LET search[p \in (0..Len(keys)) \X (0..Len(keys))] ==
            LET mid == (p[1] + p[2]) \div 2
            IN  IF p[1] >= p[2] THEN p[1]
                ELSE IF keys[mid + 1] < target THEN search[<<mid + 1, p[2]>>]
                ELSE search[<<p[1], mid>>]
    IN  search[<<0, Len(keys)>>]

BisectRight(keys, target, from) ==
    LET search[p \in (0..Len(keys)) \X (0..Len(keys))] ==
            LET mid == (p[1] + p[2]) \div 2
            IN  IF p[1] >= p[2] THEN p[1]
                ELSE IF target < keys[mid + 1] THEN search[<<p[1], mid>>]
                ELSE search[<<mid + 1, p[2]>>]
    IN  search[<<from, Len(keys)>>]

\* What the two bisections leave of the children: those between the first whose
\* end and the last whose start allow it.
Between(kids, ends, starts, from, to) ==
    LET skipped == BisectLeft(ends, from)
    IN  SubSeq(kids, skipped + 1, BisectRight(starts, to, skipped))

Starts(kids, map) == [i \in DOMAIN kids |-> map[kids[i]].start]

\* Composition::child_at_time, shallow: the first of them that contains t, or none.
FirstAt(kids, map, t, none) ==
    LET possible == Between(kids, [i \in DOMAIN kids |-> EndExclusive(map[kids[i]])],
                            Starts(kids, map), t, t)
        first == SelectInSeq(possible, LAMBDA k : ContainsTime(map[k], t))
    IN  IF first = 0 THEN none ELSE possible[first]

\* Composition::children_in_range.
AllIn(kids, map, s) ==
    Between(kids, [i \in DOMAIN kids |-> EndInclusive(map[kids[i]])], Starts(kids, map),
            s.start, EndInclusive(s))

================================================================================
