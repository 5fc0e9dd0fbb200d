---------------------------- MODULE TimeSpaceProofs ----------------------------
(* Where things are in time, for tracks, stacks and nestings of any size, and  *)
(* for any ranges: the queries agree with each other, the searches by bisection*)
(* find what a look at every child finds, and the time spaces fit together.    *)
EXTENDS TimeSpace, ListLemmas

--------------------------------------------------------------------------------
(* What the predicates of TimeRanges say of any two ranges.                    *)

Span == [start : Int, dur : Nat \ {0}]

\* intersects() is true exactly when the ranges have a frame in common: the later
\* of the two starts is in both, and where it is not, no frame is.
THEOREM IntersectionIsCommonFrame ==
    ASSUME NEW r \in Span, NEW o \in Span
    PROVE  /\ IntersectsIffShared(r, o)
           /\ Intersects(r, o) <=> \E t \in Int : ContainsTime(r, t) /\ ContainsTime(o, t)
<1>1. IntersectsIffShared(r, o)
    BY SMT DEF Span, IntersectsIffShared, Intersects, ContainsTime, EndExclusive, Later
<1>2. ASSUME Intersects(r, o)
      PROVE  \E t \in Int : ContainsTime(r, t) /\ ContainsTime(o, t)
    <2>1. Later(r.start, o.start) \in Int
        BY DEF Span, Later
    <2>2. ContainsTime(r, Later(r.start, o.start)) /\ ContainsTime(o, Later(r.start, o.start))
        BY <1>1, <1>2 DEF IntersectsIffShared
    <2>3. QED
        BY <2>1, <2>2
<1>3. ASSUME NEW t \in Int, ContainsTime(r, t), ContainsTime(o, t)
      PROVE  Intersects(r, o)
    BY <1>3, SMT DEF Span, Intersects, ContainsTime, EndExclusive
<1>4. QED
    BY <1>1, <1>2, <1>3

\* end_time_inclusive() is the last frame that contains() accepts.
THEOREM InclusiveEndIsLast == ASSUME NEW r \in Span PROVE LastIsLast(r)
    BY SMT DEF Span, LastIsLast, ContainsTime, EndInclusive, EndExclusive

\* Allen's thirteen relations are disjoint and leave nothing out.
THEOREM AllenIsPartition ==
    ASSUME NEW r \in Span, NEW o \in Span
    PROVE  ExactlyOneRelation(r, o)
<1> DEFINE re == EndExclusive(r)
           oe == EndExclusive(o)
<1>1. /\ r.start \in Int /\ o.start \in Int /\ re \in Int /\ oe \in Int
      /\ r.start < re /\ o.start < oe
      /\ r.dur = re - r.start /\ o.dur = oe - o.start
    BY SMT DEF Span, EndExclusive
<1>2. /\ AllenRelation(r, o)[1] <=> (re < o.start)
      /\ AllenRelation(r, o)[2] <=> (oe < r.start)
      /\ AllenRelation(r, o)[3] <=> (re = o.start)
      /\ AllenRelation(r, o)[4] <=> (oe = r.start)
      /\ AllenRelation(r, o)[5] <=> (r.start < o.start /\ o.start < re /\ re < oe)
      /\ AllenRelation(r, o)[6] <=> (o.start < r.start /\ r.start < oe /\ oe < re)
      /\ AllenRelation(r, o)[7] <=> (r.start = o.start /\ re < oe)
      /\ AllenRelation(r, o)[8] <=> (o.start = r.start /\ oe < re)
      /\ AllenRelation(r, o)[9] <=> (o.start > r.start /\ oe < re)
      /\ AllenRelation(r, o)[10] <=> (r.start > o.start /\ re < oe)
      /\ AllenRelation(r, o)[11] <=> (re = oe /\ r.start > o.start)
      /\ AllenRelation(r, o)[12] <=> (oe = re /\ o.start > r.start)
      /\ AllenRelation(r, o)[13] <=> (r.start = o.start /\ r.dur = o.dur)
    BY DEF AllenRelation, Before, Meets, Overlaps, Begins, ContainsRange, Finishes, Equal
<1> HIDE DEF re, oe
<1>3. \E i \in 1..13 : AllenRelation(r, o)[i]
    <2>1. \/ AllenRelation(r, o)[1] \/ AllenRelation(r, o)[2] \/ AllenRelation(r, o)[3]
          \/ AllenRelation(r, o)[4] \/ AllenRelation(r, o)[5] \/ AllenRelation(r, o)[6]
          \/ AllenRelation(r, o)[7] \/ AllenRelation(r, o)[8] \/ AllenRelation(r, o)[9]
          \/ AllenRelation(r, o)[10] \/ AllenRelation(r, o)[11] \/ AllenRelation(r, o)[12]
          \/ AllenRelation(r, o)[13]
        BY <1>1, <1>2, SMTT(30)
    <2>2. QED
        BY <2>1, SMT
<1>4. ASSUME NEW i \in 1..13, NEW j \in 1..13, AllenRelation(r, o)[i], i < j
      PROVE  ~AllenRelation(r, o)[j]
    <2>1. \/ i = 1 \/ i = 2 \/ i = 3 \/ i = 4 \/ i = 5 \/ i = 6 \/ i = 7
          \/ i = 8 \/ i = 9 \/ i = 10 \/ i = 11 \/ i = 12 \/ i = 13
        BY SMT
    <2>2. \/ j = 1 \/ j = 2 \/ j = 3 \/ j = 4 \/ j = 5 \/ j = 6 \/ j = 7
          \/ j = 8 \/ j = 9 \/ j = 10 \/ j = 11 \/ j = 12 \/ j = 13
        BY SMT
    <2>3. QED
        BY <1>1, <1>2, <1>4, <2>1, <2>2, SMTT(60)
<1>5. PICK i \in 1..13 : AllenRelation(r, o)[i]
    BY <1>3
<1>6. \A j \in 1..13 \ {i} : ~AllenRelation(r, o)[j]
    BY <1>4, <1>5, SMT
<1>7. QED
    BY <1>5, <1>6 DEF ExactlyOneRelation

--------------------------------------------------------------------------------
(* The hierarchy.                                                              *)

\* What the state holds; what stands in a composition has its timing.
Timed ==
    /\ children \in [Compositions -> Seq(Objects)]
    /\ parent \in [Objects -> Compositions \cup {NULL}]
    /\ source \in [Compositions \cup Items -> Ranges \cup {NULL}]
    /\ offset \in [Transitions -> Offsets \cup {NULL}]
    /\ \A o \in Items : parent[o] # NULL => source[o] \in Ranges
    /\ \A o \in Transitions : parent[o] # NULL => offset[o] \in Offsets

\* A child is listed once, by its parent.
Listed ==
    /\ \A c \in Compositions : IsInjective(children[c])
    /\ \A c \in Compositions, o \in Objects : o \in Range(children[c]) <=> parent[o] = c

Rising(rank, m) ==
    /\ rank \in [Objects -> 0..m]
    /\ \A o \in Objects : parent[o] # NULL => rank[o] < rank[parent[o]]

\* Parents rank above their children, so that no walk up or down is endless.
Ranked == \E m \in Nat : \E rank : Rising(rank, m)

Placing == Timed /\ Listed /\ Ranked

LEMMA RankIsNumber ==
    ASSUME NEW m \in Nat, NEW rank, Rising(rank, m), NEW x \in Objects
    PROVE  rank[x] \in Int /\ 0 <= rank[x] /\ rank[x] <= m
  BY DEF Rising

\* What holds of the roots, and of an object if of its parent, holds of all.
LEMMA UpInduction ==
    ASSUME Timed, Ranked, NEW S,
           \A x \in Objects : parent[x] = NULL \/ parent[x] \in S => x \in S
    PROVE  \A x \in Objects : x \in S
  <1>1. PICK m \in Nat : \E rank : Rising(rank, m)
    BY DEF Ranked
  <1>2. PICK rank : Rising(rank, m)
    BY <1>1
  <1> DEFINE Q == {j \in 0..(m + 1) : \A x \in Objects : rank[x] > m - j => x \in S}
  <1>3. 0 \in Q
    <2>1. ASSUME NEW x \in Objects PROVE ~(rank[x] > m - 0)
      BY <1>2, RankIsNumber
    <2> QED BY <2>1
  <1>4. ASSUME NEW j \in 1..(m + 1), j - 1 \in Q PROVE j \in Q
    <2>1. ASSUME NEW x \in Objects, rank[x] > m - j, parent[x] # NULL PROVE parent[x] \in S
      <3>1. parent[x] \in Objects /\ rank[x] < rank[parent[x]]
        BY <1>2, <2>1 DEF Timed, Rising, Objects
      <3>2. rank[x] \in Int /\ rank[parent[x]] \in Int
        BY <1>2, <3>1, RankIsNumber
      <3>3. rank[parent[x]] > m - (j - 1)
        BY <2>1, <3>1, <3>2
      <3> QED BY <1>4, <3>1, <3>3
    <2> QED BY <2>1
  <1>5. m + 1 \in Q
    <2> HIDE DEF Q
    <2>1. m + 1 \in Nat
      OBVIOUS
    <2>2. \A j \in 0..(m + 1) : j \in Q
      BY <1>3, <1>4, <2>1, Rounds
    <2> QED BY <2>1, <2>2
  <1>6. ASSUME NEW x \in Objects PROVE x \in S
    <2>1. rank[x] > m - (m + 1)
      BY <1>2, RankIsNumber
    <2> QED BY <1>5, <2>1
  <1> QED BY <1>6

\* What holds of an object if of all its children holds of all.
LEMMA DownInduction ==
    ASSUME Timed, Ranked, NEW S,
           \A x \in Objects : (\A y \in Objects : parent[y] = x => y \in S) => x \in S
    PROVE  \A x \in Objects : x \in S
  <1>1. PICK m \in Nat : \E rank : Rising(rank, m)
    BY DEF Ranked
  <1>2. PICK rank : Rising(rank, m)
    BY <1>1
  <1> DEFINE Q == {j \in 0..(m + 1) : \A x \in Objects : rank[x] < j => x \in S}
  <1>3. 0 \in Q
    <2>1. ASSUME NEW x \in Objects PROVE ~(rank[x] < 0)
      BY <1>2, RankIsNumber
    <2> QED BY <2>1
  <1>4. ASSUME NEW j \in 1..(m + 1), j - 1 \in Q PROVE j \in Q
    <2>1. ASSUME NEW x \in Objects, rank[x] < j, NEW y \in Objects, parent[y] = x PROVE y \in S
      <3>1. rank[y] < rank[x]
        <4>1. x # NULL
          BY TimingAssumption
        <4> QED BY <1>2, <2>1, <4>1 DEF Rising
      <3>2. rank[x] \in Int /\ rank[y] \in Int
        BY <1>2, RankIsNumber
      <3>3. rank[y] < j - 1
        BY <2>1, <3>1, <3>2
      <3> QED BY <1>4, <3>3
    <2> QED BY <2>1
  <1>5. m + 1 \in Q
    <2> HIDE DEF Q
    <2>1. m + 1 \in Nat
      OBVIOUS
    <2>2. \A j \in 0..(m + 1) : j \in Q
      BY <1>3, <1>4, <2>1, Rounds
    <2> QED BY <2>1, <2>2
  <1>6. ASSUME NEW x \in Objects PROVE x \in S
    <2>1. rank[x] < m + 1
      BY <1>2, RankIsNumber
    <2> QED BY <1>5, <2>1
  <1> QED BY <1>6

\* f answers for the objects of D by walking up the parents, to c or to the root.
IsWalk(f, D, c, A, base, step) ==
    /\ f \in [D -> A]
    /\ \A x \in D : f[x] = IF x = c \/ parent[x] = NULL THEN base[x] ELSE step[x][f[parent[x]]]

LEMMA WalkRuns ==
    ASSUME Timed, Ranked, NEW D, D \subseteq Objects,
           \A x \in D : parent[x] # NULL => parent[x] \in D,
           NEW c, NEW A, NEW a \in A, NEW base \in [D -> A], NEW step \in [D -> [A -> A]]
    PROVE  \E f : IsWalk(f, D, c, A, base, step)
  <1>1. PICK m \in Nat : \E rank : Rising(rank, m)
    BY DEF Ranked
  <1>2. PICK rank : Rising(rank, m)
    BY <1>1
  <1> DEFINE height == [x \in D |-> m - rank[x]]
             G == [x \in D |-> [f \in [D -> A] |->
                      IF x = c \/ parent[x] = NULL THEN base[x] ELSE step[x][f[parent[x]]]]]
  <1>3. height \in [D -> 0..m]
    <2>1. ASSUME NEW x \in D PROVE m - rank[x] \in 0..m
      BY <1>2, RankIsNumber
    <2> QED BY <2>1
  <1>4. G \in [D -> [[D -> A] -> A]]
    OBVIOUS
  <1>5. ASSUME NEW x \in D, NEW f \in [D -> A], NEW g \in [D -> A],
               \A y \in D : height[y] < height[x] => f[y] = g[y]
        PROVE  G[x][f] = G[x][g]
    <2>1. ASSUME parent[x] # NULL PROVE f[parent[x]] = g[parent[x]]
      <3>1. parent[x] \in D /\ rank[x] < rank[parent[x]]
        BY <1>2, <2>1 DEF Rising
      <3>2. rank[x] \in Int /\ rank[parent[x]] \in Int
        BY <1>2, <3>1, RankIsNumber
      <3>3. height[parent[x]] < height[x]
        BY <3>1, <3>2
      <3> QED BY <1>5, <3>1, <3>3
    <2> QED BY <2>1
  <1> HIDE DEF G, height
  <1>6. PICK f : IsRecursion(f, D, A, G)
    <2>1. Lowers(G, D, A, height, m)
      BY <1>3, <1>4, <1>5 DEF Lowers
    <2>2. \E f : IsRecursion(f, D, A, G)
      BY <2>1, RecursionRuns
    <2> QED BY <2>2
  <1>7. IsWalk(f, D, c, A, base, step)
    BY <1>6 DEF IsRecursion, IsWalk, G
  <1> QED BY <1>7

LEMMA TopIs ==
    ASSUME Timed, Ranked, NEW c, NEW o \in Objects
    PROVE  /\ Top(c, o) \in Objects
           /\ Top(c, o) = IF o = c \/ parent[o] = NULL THEN o ELSE Top(c, parent[o])
  <1> DEFINE base == [x \in Objects |-> x]
             step == [x \in Objects |-> [y \in Objects |-> y]]
             Loop(f) == f = [x \in Objects |->
                               IF x = c \/ parent[x] = NULL THEN x ELSE f[parent[x]]]
             h == CHOOSE f : Loop(f)
  <1>1. \A x \in Objects : parent[x] # NULL => parent[x] \in Objects
    BY DEF Timed, Objects
  <1>2. PICK f : IsWalk(f, Objects, c, Objects, base, step)
    <2>1. base \in [Objects -> Objects] /\ step \in [Objects -> [Objects -> Objects]]
      OBVIOUS
    <2> HIDE DEF base, step
    <2>2. \E f : IsWalk(f, Objects, c, Objects, base, step)
      BY <1>1, <2>1, WalkRuns
    <2> QED BY <2>2
  <1>3. Loop(f)
    BY <1>1, <1>2 DEF IsWalk
  <1>4. \E g : Loop(g)
    <2> HIDE DEF Loop
    <2> QED BY <1>3, Zenon
  <1>5. Loop(h)
    <2> HIDE DEF Loop
    <2> QED BY <1>4, Zenon
  <1>6. \A x : Top(c, x) = h[x]
    BY DEF Top
  <1> HIDE DEF h
  <1>7. \A x \in Objects : h[x] \in Objects
    <2> DEFINE S == {x \in Objects : h[x] \in Objects}
    <2>1. ASSUME NEW x \in Objects, parent[x] = NULL \/ parent[x] \in S PROVE x \in S
      BY <1>5, <2>1
    <2> HIDE DEF S
    <2>2. \A x \in Objects : x \in S
      BY <2>1, UpInduction
    <2> QED BY <2>2 DEF S
  <1> QED BY <1>5, <1>6, <1>7

--------------------------------------------------------------------------------
(* Durations.                                                                  *)

\* The objects that have a timing.
Standing == Compositions \cup {o \in Objects : parent[o] # NULL}

LEMMA KidsStand ==
    ASSUME Placing, NEW c \in Compositions
    PROVE  /\ children[c] \in Seq(Objects) /\ Len(children[c]) \in Nat
           /\ DOMAIN children[c] = 1..Len(children[c])
           /\ \A i \in 1..Len(children[c]) :
                  /\ children[c][i] \in Objects /\ children[c][i] \in Standing
                  /\ parent[children[c][i]] = c
           /\ \A i, j \in 1..Len(children[c]) : children[c][i] = children[c][j] => i = j
  <1>1. children[c] \in Seq(Objects) /\ IsInjective(children[c])
    BY DEF Placing, Timed, Listed
  <1>2. Len(children[c]) \in Nat /\ DOMAIN children[c] = 1..Len(children[c])
    BY <1>1
  <1>3. ASSUME NEW i \in 1..Len(children[c])
        PROVE  /\ children[c][i] \in Objects /\ children[c][i] \in Standing
               /\ parent[children[c][i]] = c
    <2>1. children[c][i] \in Objects /\ children[c][i] \in Range(children[c])
      BY <1>1 DEF Range
    <2>2. parent[children[c][i]] = c /\ c # NULL
      BY <2>1, TimingAssumption DEF Placing, Listed, Objects
    <2> QED BY <2>1, <2>2 DEF Standing
  <1>4. \A i, j \in 1..Len(children[c]) : children[c][i] = children[c][j] => i = j
    BY <1>1, <1>2 DEF IsInjective
  <1> QED BY <1>1, <1>2, <1>3, <1>4

LEMMA OffsetsAreNats ==
    ASSUME Placing, NEW k \in Standing
    PROVE  InOffset(k) \in Nat /\ OutOffset(k) \in Nat
  <1>1. CASE k \in Transitions
    <2>1. offset[k] \in Offsets
      BY <1>1, TimingAssumption DEF Placing, Timed, Standing
    <2> QED BY <1>1, <2>1, TimingAssumption DEF InOffset, OutOffset
  <1> QED BY <1>1 DEF InOffset, OutOffset

\* What a source range says is numbers.
LEMMA SourcesAreRanges ==
    ASSUME Placing, NEW o \in Standing, o \notin Transitions
    PROVE  /\ o \in Compositions \cup Items
           /\ o \in Items => source[o] # NULL
           /\ source[o] # NULL => source[o].start \in Int /\ source[o].dur \in Nat
  <1>1. o \in Compositions \cup Items
    BY DEF Standing, Objects
  <1>2. o \in Items => source[o] \in Ranges
    BY TimingAssumption DEF Placing, Timed, Standing
  <1>3. source[o] # NULL => source[o] \in Ranges
    BY <1>1 DEF Placing, Timed
  <1> QED BY <1>1, <1>2, <1>3, TimingAssumption

LEMMA SharesAreNats ==
    ASSUME NEW n \in Nat, NEW kids, NEW longs \in [1..n -> Nat]
    PROVE  [i \in 1..n |-> Share(kids[i], longs[i])] \in [1..n -> Nat]
  BY DEF Share

LEMMA TrackLengthIsNat ==
    ASSUME Placing, NEW c \in Compositions, NEW longs \in [1..Len(children[c]) -> Nat]
    PROVE  TrackLength(children[c], longs) \in Nat
  <1> DEFINE n == Len(children[c])
             kids == children[c]
             shares == [i \in 1..n |-> Share(kids[i], longs[i])]
  <1>1. n \in Nat /\ kids \in Seq(Objects) /\ \A i \in 1..n : kids[i] \in Standing
    BY KidsStand
  <1>2. shares \in [1..n -> Nat]
    BY <1>1, SharesAreNats
  <1>3. IsSum(Sums(shares), n, shares)
    <2>1. shares \in [1..n -> Int]
      BY <1>2
    <2> HIDE DEF shares, n
    <2> QED BY <1>1, <2>1, SumsRun
  <1>4. Sums(shares)[n] \in Nat
    <2> HIDE DEF shares, n
    <2> QED BY <1>1, <1>2, <1>3, SumsGrow
  <1>5. CASE kids = <<>>
    BY <1>5 DEF TrackLength
  <1>6. CASE kids # <<>>
    <2>1. Head(kids) = kids[1] /\ Last(kids) = kids[n] /\ 1 \in 1..n /\ n \in 1..n
      BY <1>1, <1>6 DEF Last
    <2>2. InOffset(Head(kids)) \in Nat /\ OutOffset(Last(kids)) \in Nat
      BY <1>1, <2>1, OffsetsAreNats
    <2>3. TrackLength(kids, longs)
            = Sums(shares)[n] + InOffset(Head(kids)) + OutOffset(Last(kids))
      BY <1>6 DEF TrackLength
    <2> HIDE DEF shares, n, kids
    <2> QED BY <1>4, <2>2, <2>3 DEF kids
  <1> QED BY <1>5, <1>6

\* One step of Composable::duration, where d has the durations of the children.
Lasts(x, d) ==
    IF x \in Transitions THEN InOffset(x) + OutOffset(x)
    ELSE IF x \in Items \/ source[x] # NULL THEN source[x].dur
    ELSE IF x \in Tracks
    THEN TrackLength(children[x], [i \in DOMAIN children[x] |-> d[children[x][i]]])
    ELSE Max({0} \cup {d[children[x][i]] : i \in DOMAIN children[x]})

LEMMA LastsIsNat ==
    ASSUME Placing, NEW x \in Standing, NEW d,
           \A y \in Objects : parent[y] = x => d[y] \in Nat
    PROVE  Lasts(x, d) \in Nat
  <1>1. CASE x \in Transitions
    <2>1. InOffset(x) \in Nat /\ OutOffset(x) \in Nat
      BY OffsetsAreNats
    <2> QED BY <1>1, <2>1 DEF Lasts
  <1>2. CASE x \notin Transitions /\ (x \in Items \/ source[x] # NULL)
    BY <1>2, SourcesAreRanges DEF Lasts
  <1>3. CASE x \notin Transitions /\ ~(x \in Items \/ source[x] # NULL)
    <2> DEFINE n == Len(children[x])
               row == [i \in 1..n |-> d[children[x][i]]]
    <2>1. x \in Compositions
      BY <1>3, SourcesAreRanges
    <2>2. /\ n \in Nat /\ DOMAIN children[x] = 1..n
          /\ \A i \in 1..n : children[x][i] \in Objects /\ parent[children[x][i]] = x
      BY <2>1, KidsStand
    <2>3. row \in [1..n -> Nat]
      BY <2>2
    <2>4. CASE x \in Tracks
      <3>1. Lasts(x, d) = TrackLength(children[x], row)
        BY <1>3, <2>2, <2>4 DEF Lasts
      <3> HIDE DEF row
      <3> QED BY <2>1, <2>3, <3>1, TrackLengthIsNat
    <2>5. CASE x \notin Tracks
      <3>1. Lasts(x, d) = Max({0} \cup {d[children[x][i]] : i \in 1..n})
        BY <1>3, <2>2, <2>5 DEF Lasts
      <3>2. {d[children[x][i]] : i \in 1..n} = {row[i] : i \in 1..n}
        OBVIOUS
      <3> HIDE DEF row, n
      <3>3. IsLongest(Max({0} \cup {row[i] : i \in 1..n}), n, row)
        BY <2>2, <2>3, MaxOfRow
      <3> QED BY <2>1, <3>1, <3>2, <3>3 DEF IsLongest
    <2> QED BY <2>4, <2>5
  <1> QED BY <1>1, <1>2, <1>3

LEMMA LastsAgree ==
    ASSUME Placing, NEW x \in Standing, NEW d, NEW e,
           \A y \in Objects : parent[y] = x => d[y] = e[y]
    PROVE  Lasts(x, d) = Lasts(x, e)
  <1>1. CASE x \in Transitions \/ x \in Items \/ source[x] # NULL
    BY <1>1 DEF Lasts
  <1>2. CASE ~(x \in Transitions \/ x \in Items \/ source[x] # NULL)
    <2>1. x \in Compositions
      BY <1>2, SourcesAreRanges
    <2>2. \A i \in DOMAIN children[x] : d[children[x][i]] = e[children[x][i]]
      BY <2>1, KidsStand
    <2>3. /\ [i \in DOMAIN children[x] |-> d[children[x][i]]]
               = [i \in DOMAIN children[x] |-> e[children[x][i]]]
          /\ {d[children[x][i]] : i \in DOMAIN children[x]}
               = {e[children[x][i]] : i \in DOMAIN children[x]}
      BY <2>2
    <2> QED BY <2>3 DEF Lasts
  <1> QED BY <1>1, <1>2

\* The recursion of Composable::duration has an answer for every object, which is a
\* number for all that stand somewhere.
LEMMA DurationIs ==
    ASSUME Placing
    PROVE  \E d : /\ \A o : Duration(o) = d[o]
                  /\ \A o \in Objects : d[o] = Lasts(o, d)
                  /\ \A o \in Standing : d[o] \in Nat
  <1> DEFINE D == Standing
             Loop(f) == f = [x \in Objects |-> Lasts(x, f)]
             h == CHOOSE f : Loop(f)
             G == [x \in D |-> [f \in [D -> Nat] |-> Lasts(x, f)]]
  <1>1. PICK m \in Nat : \E rank : Rising(rank, m)
    BY DEF Placing, Ranked
  <1>2. PICK rank : Rising(rank, m)
    BY <1>1
  <1>3. D \subseteq Objects /\ \A x \in D, y \in Objects : parent[y] = x => y \in D
    BY TimingAssumption DEF Standing, Objects
  <1> DEFINE low == [x \in D |-> rank[x]]
  <1>4. Lowers(G, D, Nat, low, m)
    <2>1. low \in [D -> 0..m]
      BY <1>2, <1>3 DEF Rising
    <2>2. ASSUME NEW x \in D, NEW f \in [D -> Nat] PROVE Lasts(x, f) \in Nat
      <3>1. \A y \in Objects : parent[y] = x => f[y] \in Nat
        BY <1>3
      <3> QED BY <3>1, LastsIsNat
    <2>3. G \in [D -> [[D -> Nat] -> Nat]]
      BY <2>2
    <2>4. ASSUME NEW x \in D, NEW f \in [D -> Nat], NEW g \in [D -> Nat],
                 \A y \in D : low[y] < low[x] => f[y] = g[y]
          PROVE  G[x][f] = G[x][g]
      <3>1. ASSUME NEW y \in Objects, parent[y] = x PROVE f[y] = g[y]
        <4>1. y \in D /\ rank[y] < rank[x]
          BY <1>2, <1>3, <3>1, TimingAssumption DEF Rising
        <4> QED BY <2>4, <4>1
      <3>2. Lasts(x, f) = Lasts(x, g)
        BY <3>1, LastsAgree
      <3> QED BY <3>2
    <2> HIDE DEF D, G, low
    <2> QED BY <2>1, <2>3, <2>4 DEF Lowers
  <1>5. PICK f : IsRecursion(f, D, Nat, G)
    <2> HIDE DEF D, G, low
    <2>1. 0 \in Nat
      OBVIOUS
    <2>2. \E f : IsRecursion(f, D, Nat, G)
      BY <1>4, <2>1, RecursionRuns
    <2> QED BY <2>2
  <1>6. f \in [D -> Nat] /\ \A x \in D : f[x] = Lasts(x, f)
    BY <1>5 DEF IsRecursion
  <1> DEFINE g == [x \in Objects |-> IF x \in D THEN f[x] ELSE Lasts(x, f)]
  <1>7. \A x \in Objects : g[x] = Lasts(x, g)
    <2>1. ASSUME NEW x \in D PROVE g[x] = Lasts(x, g)
      <3>1. \A y \in Objects : parent[y] = x => f[y] = g[y]
        BY <1>3
      <3>2. Lasts(x, f) = Lasts(x, g)
        <4> HIDE DEF g
        <4> QED BY <3>1, LastsAgree
      <3> QED BY <1>3, <1>6, <3>2
    <2>2. ASSUME NEW x \in Objects, x \notin D PROVE g[x] = Lasts(x, g)
      <3>1. x \in Transitions \/ x \in Items
        BY <2>2 DEF Standing, Objects
      <3>2. Lasts(x, f) = Lasts(x, g)
        BY <3>1 DEF Lasts
      <3> QED BY <2>2, <3>2
    <2> QED BY <2>1, <2>2
  <1>8. Loop(g)
    <2>1. g = [x \in Objects |-> g[x]]
      OBVIOUS
    <2> HIDE DEF g
    <2> QED BY <1>7, <2>1
  <1>9. \E k : Loop(k)
    <2> HIDE DEF Loop, g
    <2> QED BY <1>8, Zenon
  <1>10. Loop(h)
    <2> HIDE DEF Loop
    <2> QED BY <1>9, Zenon
  <1>11. \A o : Duration(o) = h[o]
    BY DEF Duration, Lasts
  <1> HIDE DEF h
  <1>12. \A o \in Objects : h[o] = Lasts(o, h)
    BY <1>10
  <1>13. \A o \in Standing : h[o] \in Nat
    <2> DEFINE S == {x \in Objects : x \in Standing => h[x] \in Nat}
    <2>1. ASSUME NEW x \in Objects, \A y \in Objects : parent[y] = x => y \in S PROVE x \in S
      <3>1. ASSUME x \in Standing PROVE h[x] \in Nat
        <4>1. \A y \in Objects : parent[y] = x => h[y] \in Nat
          BY <1>3, <2>1, <3>1
        <4>2. Lasts(x, h) \in Nat
          BY <3>1, <4>1, LastsIsNat
        <4> QED BY <1>12, <4>2
      <3> QED BY <3>1
    <2> HIDE DEF S
    <2>2. \A x \in Objects : x \in S
      BY <2>1, DownInduction DEF Placing
    <2> QED BY <1>3, <2>2 DEF S
  <1> QED BY <1>11, <1>12, <1>13

\* What it is for each kind of object that stands somewhere.
LEMMA DurationOfKind ==
    ASSUME Placing, NEW o \in Standing
    PROVE  /\ Duration(o) \in Nat
           /\ o \in Transitions => Duration(o) = InOffset(o) + OutOffset(o)
           /\ o \notin Transitions /\ source[o] # NULL => Duration(o) = source[o].dur
           /\ o \in Tracks /\ source[o] = NULL =>
                  Duration(o) = TrackLength(children[o],
                                    [i \in 1..Len(children[o]) |-> Duration(children[o][i])])
  <1>1. PICK d : /\ \A x : Duration(x) = d[x]
                 /\ \A x \in Objects : d[x] = Lasts(x, d)
                 /\ \A x \in Standing : d[x] \in Nat
    BY DurationIs
  <1>2. o \in Objects
    BY DEF Standing, Objects
  <1>3. Duration(o) = Lasts(o, d) /\ Duration(o) \in Nat
    BY <1>1, <1>2
  <1>4. ASSUME o \in Tracks, source[o] = NULL
        PROVE  Duration(o) = TrackLength(children[o],
                                 [i \in 1..Len(children[o]) |-> Duration(children[o][i])])
    <2>1. o \in Compositions /\ o \notin Items /\ o \notin Transitions
      BY <1>4, TimingAssumption DEF Compositions
    <2>2. DOMAIN children[o] = 1..Len(children[o])
      BY <2>1, KidsStand
    <2>3. [i \in DOMAIN children[o] |-> d[children[o][i]]]
             = [i \in 1..Len(children[o]) |-> Duration(children[o][i])]
      BY <1>1, <2>2
    <2> QED BY <1>3, <1>4, <2>1, <2>3 DEF Lasts
  <1> QED BY <1>3, <1>4 DEF Lasts

LEMMA TrimmedIsRange ==
    ASSUME Placing, NEW o \in Standing, o \notin Transitions
    PROVE  /\ TrimmedRange(o).start \in Int /\ TrimmedRange(o).dur = Duration(o)
           /\ source[o] = NULL => TrimmedRange(o).start = 0
  <1>1. CASE source[o] # NULL
    BY <1>1, SourcesAreRanges, DurationOfKind DEF TrimmedRange
  <1>2. CASE source[o] = NULL
    <2>1. TrimmedRange(o) = TimeRange(0, Duration(o))
      BY <1>2 DEF TrimmedRange
    <2> QED BY <1>2, <2>1 DEF TimeRange
  <1> QED BY <1>1, <1>2

--------------------------------------------------------------------------------
(* Where the children of a composition are.                                    *)

\* What the children of c take of a track, and where each ends.
Lengths(c) == [i \in 1..Len(children[c]) |-> Share(children[c][i], Duration(children[c][i]))]
Laid(c) == Sums(Lengths(c))

LEMMA LaidEndToEnd ==
    ASSUME Placing, NEW c \in Compositions
    PROVE  /\ Lengths(c) \in [1..Len(children[c]) -> Nat]
           /\ IsSum(Laid(c), Len(children[c]), Lengths(c))
           /\ \A i \in 1..Len(children[c]) : Elapsed(c, i) = Laid(c)[i - 1]
  <1> DEFINE n == Len(children[c])
             L == Lengths(c)
  <1>1. n \in Nat /\ \A i \in 1..n : children[c][i] \in Standing
    BY KidsStand
  <1>2. L \in [1..n -> Nat] /\ L \in [1..n -> Int]
    <2>1. ASSUME NEW i \in 1..n PROVE Share(children[c][i], Duration(children[c][i])) \in Nat
      BY <1>1, DurationOfKind DEF Share
    <2> QED BY <2>1 DEF Lengths
  <1>3. IsSum(Laid(c), n, L)
    <2> HIDE DEF n, L
    <2> QED BY <1>1, <1>2, SumsRun DEF Laid, L
  <1>4. ASSUME NEW i \in 1..n PROVE Elapsed(c, i) = Laid(c)[i - 1]
    <2> DEFINE short == [j \in 1..(i - 1) |-> Share(children[c][j], Duration(children[c][j]))]
    <2>1. i - 1 \in Nat /\ i - 1 \in 0..n /\ i - 1 \in 0..(i - 1)
      BY <1>1
    <2>2. \A j \in 1..(i - 1) : short[j] = L[j]
      BY <1>1 DEF Lengths
    <2>3. short \in [1..(i - 1) -> Int]
      <3>1. ASSUME NEW j \in 1..(i - 1) PROVE short[j] \in Int
        BY <1>1, <1>2, <2>2
      <3> QED BY <3>1
    <2>4. Elapsed(c, i) = Sums(short)[i - 1]
      BY DEF Elapsed
    <2> HIDE DEF short, n, L
    <2>5. IsSum(Sums(short), i - 1, short)
      BY <2>1, <2>3, SumsRun
    <2>6. \A j \in 0..(i - 1) : Laid(c)[j] = Sums(short)[j]
      BY <1>1, <1>3, <2>1, <2>2, <2>5, SumOfPrefix
    <2> QED BY <2>1, <2>4, <2>6
  <1> QED BY <1>2, <1>3, <1>4

LEMMA PlaceIs ==
    ASSUME Placing, NEW c \in Compositions, NEW i \in 1..Len(children[c])
    PROVE  /\ RangeOfChildAtIndex(c, i).start
                = IF c \in Stacks THEN 0 ELSE Laid(c)[i - 1] - InOffset(children[c][i])
           /\ RangeOfChildAtIndex(c, i).dur = Duration(children[c][i])
           /\ RangeOfChildAtIndex(c, i) \in [start : Int, dur : Nat]
           /\ RangeOfChildAtIndex(c, i).start \in Int /\ RangeOfChildAtIndex(c, i).dur \in Nat
  <1> DEFINE k == children[c][i]
             st == IF c \in Stacks THEN 0 ELSE Laid(c)[i - 1] - InOffset(k)
  <1>1. k \in Standing /\ Len(children[c]) \in Nat
    BY KidsStand
  <1>2. Duration(k) \in Nat /\ InOffset(k) \in Nat
    BY <1>1, DurationOfKind, OffsetsAreNats
  <1>3. RangeOfChildAtIndex(c, i) = TimeRange(st, Duration(k))
    BY LaidEndToEnd DEF RangeOfChildAtIndex
  <1>4. Laid(c)[i - 1] \in Int
    <2>1. i - 1 \in 0..Len(children[c])
      BY <1>1
    <2> QED BY <2>1, LaidEndToEnd DEF IsSum
  <1>5. st \in Int
    BY <1>2, <1>4
  <1> QED BY <1>2, <1>3, <1>5 DEF TimeRange

LEMMA PositionIs ==
    ASSUME Placing, NEW c \in Compositions, NEW i \in 1..Len(children[c])
    PROVE  IndexOfChild(c, children[c][i]) = i
  <1>1. \A j \in 1..Len(children[c]) : children[c][j] = children[c][i] => j = i
    BY KidsStand
  <1> QED BY <1>1 DEF IndexOfChild

\* What an object says of itself in its parent.
LEMMA InParentIs ==
    ASSUME Placing, NEW o \in Objects, parent[o] # NULL
    PROVE  /\ parent[o] \in Compositions
           /\ \E i \in 1..Len(children[parent[o]]) : children[parent[o]][i] = o
           /\ RangeInParent(o).start \in Int /\ RangeInParent(o).dur = Duration(o)
  <1>1. parent[o] \in Compositions /\ o \in Range(children[parent[o]])
    BY DEF Placing, Timed, Listed
  <1>2. PICK i \in 1..Len(children[parent[o]]) : children[parent[o]][i] = o
    BY <1>1, KidsStand DEF Range
  <1>3. RangeInParent(o) = RangeOfChildAtIndex(parent[o], i)
    BY <1>1, <1>2, PositionIs DEF RangeInParent
  <1> QED BY <1>1, <1>2, <1>3, PlaceIs

LEMMA InParentAt ==
    ASSUME Placing, NEW c \in Compositions, NEW i \in 1..Len(children[c])
    PROVE  RangeInParent(children[c][i]) = RangeOfChildAtIndex(c, i)
  BY PositionIs, KidsStand DEF RangeInParent

Spans == [start : Int, dur : Int]
Maps == UNION {[S -> Spans] : S \in SUBSET Objects}

LEMMA PlaceNextIs ==
    ASSUME NEW acc \in [end : Int, map : Maps], NEW k \in Objects,
           Duration(k) \in Nat, InOffset(k) \in Nat
    PROVE  /\ PlaceNext(acc, k) \in [end : Int, map : Maps]
           /\ PlaceNext(acc, k).end = acc.end + Share(k, Duration(k))
           /\ PlaceNext(acc, k).map[k] = TimeRange(acc.end - InOffset(k), Duration(k))
           /\ \A x \in DOMAIN acc.map : x # k => PlaceNext(acc, k).map[x] = acc.map[x]
           /\ DOMAIN PlaceNext(acc, k).map = DOMAIN acc.map \cup {k}
  <1> DEFINE r == TimeRange(acc.end - InOffset(k), Duration(k))
             m == With(acc.map, k, r)
             e == acc.end + Share(k, Duration(k))
  <1>1. acc.end \in Int /\ acc.map \in Maps
    OBVIOUS
  <1>2. r \in Spans /\ e \in Int
    BY <1>1 DEF Spans, TimeRange, Share
  <1>3. PICK S \in SUBSET Objects : acc.map \in [S -> Spans]
    BY <1>1 DEF Maps
  <1> HIDE DEF r, e
  <1>4. /\ m \in [S \cup {k} -> Spans] /\ m[k] = r /\ DOMAIN m = DOMAIN acc.map \cup {k}
        /\ \A x \in DOMAIN acc.map : x # k => m[x] = acc.map[x]
    BY <1>2, <1>3 DEF With
  <1> HIDE DEF m
  <1>5. m \in Maps
    BY <1>4 DEF Maps
  <1>6. PlaceNext(acc, k) = [end |-> e, map |-> m]
    BY DEF PlaceNext, e, m, r
  <1> QED BY <1>2, <1>4, <1>5, <1>6 DEF r, e

\* The map of all children says of each what the child's own query says.
LEMMA MapIs ==
    ASSUME Placing, NEW c \in Compositions
    PROVE  \A i \in 1..Len(children[c]) :
               RangeOfAllChildren(c)[children[c][i]] = RangeOfChildAtIndex(c, i)
  <1> DEFINE n == Len(children[c])
             A == [end : Int, map : Maps]
             none == [end |-> 0, map |-> <<>>]
             Loop(f) == f = [i \in 0..n |-> IF i = 0 THEN none
                                            ELSE PlaceNext(f[i - 1], children[c][i])]
             h == CHOOSE f : Loop(f)
             G == [j \in 1..n |-> [acc \in A |-> PlaceNext(acc, children[c][j])]]
  <1>1. /\ n \in Nat /\ \A i \in 1..n : /\ children[c][i] \in Objects
                                        /\ Duration(children[c][i]) \in Nat
                                        /\ InOffset(children[c][i]) \in Nat
    BY KidsStand, DurationOfKind, OffsetsAreNats
  <1>2. none \in A /\ none.end = 0
    <2>1. <<>> \in [{} -> Spans]
      OBVIOUS
    <2>2. <<>> \in Maps
      BY <2>1 DEF Maps
    <2> QED BY <2>2
  <1>3. G \in [1..n -> [A -> A]]
    BY <1>1, PlaceNextIs
  <1>4. PICK g : IsLoop(g, n, A, none, G)
    <2> HIDE DEF A, none, G, n
    <2>1. \E g : IsLoop(g, n, A, none, G)
      BY <1>1, <1>2, <1>3, LoopRuns
    <2> QED BY <2>1
  <1>5. /\ g \in [0..n -> A] /\ g[0] = none
        /\ \A i \in 1..n : g[i] = PlaceNext(g[i - 1], children[c][i])
    <2>1. g \in [0..n -> A] /\ g[0] = none /\ \A i \in 1..n : g[i] = G[i][g[i - 1]]
      BY <1>4 DEF IsLoop
    <2>2. ASSUME NEW i \in 1..n PROVE g[i] = PlaceNext(g[i - 1], children[c][i])
      <3>1. g[i - 1] \in A
        BY <2>1
      <3> HIDE DEF A
      <3> QED BY <2>1, <3>1
    <2> QED BY <2>1, <2>2
  <1> HIDE DEF G, A, none
  <1>6. \E f : Loop(f)
    <2>1. g = [i \in 0..n |-> g[i]]
      BY <1>5
    <2>2. \A i \in 0..n : g[i] = IF i = 0 THEN none ELSE PlaceNext(g[i - 1], children[c][i])
      BY <1>5
    <2>3. Loop(g)
      BY <2>1, <2>2
    <2> HIDE DEF Loop
    <2> QED BY <2>3, Zenon
  <1>7. Loop(h)
    <2> HIDE DEF Loop
    <2> QED BY <1>6, Zenon
  <1>8. c \in Tracks => RangeOfAllChildren(c) = h[n].map
    BY DEF RangeOfAllChildren, none
  <1> HIDE DEF h
  <1>9. h \in [0..n -> A]
    <2> DEFINE S == {i \in 0..n : h[i] \in A}
    <2>1. 0 \in S
      BY <1>2, <1>7
    <2>2. ASSUME NEW j \in 1..n, j - 1 \in S PROVE j \in S
      <3>1. h[j] = PlaceNext(h[j - 1], children[c][j])
        BY <1>7
      <3>2. h[j] \in A
        BY <1>1, <2>2, <3>1, PlaceNextIs DEF A
      <3> QED BY <3>2
    <2> HIDE DEF S
    <2>3. \A j \in 0..n : j \in S
      BY <1>1, <2>1, <2>2, Rounds
    <2> QED BY <1>7, <2>3 DEF S
  <1>10. ASSUME c \in Tracks, NEW i \in 1..n
         PROVE  h[n].map[children[c][i]] = RangeOfChildAtIndex(c, i)
    <2> DEFINE Done(j) == /\ h[j].end = Laid(c)[j]
                          /\ DOMAIN h[j].map = {children[c][x] : x \in 1..j}
                          /\ \A x \in 1..j : h[j].map[children[c][x]] = RangeOfChildAtIndex(c, x)
               Q == {j \in 0..n : Done(j)}
    <2>1. 0 \in Q
      <3>1. h[0] = none
        BY <1>7
      <3> QED BY <3>1, LaidEndToEnd DEF none, IsSum
    <2>2. ASSUME NEW j \in 1..n, j - 1 \in Q PROVE j \in Q
      <3> DEFINE k == children[c][j]
                 acc == h[j - 1]
      <3>1. h[j] = PlaceNext(acc, k) /\ acc \in A /\ Done(j - 1)
        <4>1. Done(j - 1)
          <5> HIDE DEF Done
          <5> QED BY <2>2
        <4>2. j \in 0..n /\ j # 0 /\ j - 1 \in 0..n
          OBVIOUS
        <4>3. h[j] = PlaceNext(acc, k)
          <5> HIDE DEF Done, Q
          <5> QED BY <1>7, <4>2
        <4> HIDE DEF Done, Q
        <4> QED BY <1>9, <4>1, <4>2, <4>3
      <3>2. /\ h[j].end = acc.end + Share(k, Duration(k))
            /\ h[j].map[k] = TimeRange(acc.end - InOffset(k), Duration(k))
            /\ \A x \in DOMAIN acc.map : x # k => h[j].map[x] = acc.map[x]
            /\ DOMAIN h[j].map = DOMAIN acc.map \cup {k}
        <4> HIDE DEF Done, acc
        <4> QED BY <1>1, <3>1, PlaceNextIs DEF A
      <3>3. h[j].end = Laid(c)[j]
        <4>1. Laid(c)[j] = Laid(c)[j - 1] + Lengths(c)[j]
          BY LaidEndToEnd DEF IsSum
        <4> QED BY <3>1, <3>2, <4>1 DEF Lengths
      <3>4. h[j].map[k] = RangeOfChildAtIndex(c, j)
        <4>1. c \notin Stacks
          BY <1>10, TimingAssumption
        <4> QED BY <3>1, <3>2, <4>1, LaidEndToEnd DEF RangeOfChildAtIndex
      <3>5. ASSUME NEW x \in 1..(j - 1) PROVE h[j].map[children[c][x]] = RangeOfChildAtIndex(c, x)
        <4>1. children[c][x] # k
          BY KidsStand
        <4>2. children[c][x] \in DOMAIN acc.map
          BY <3>1
        <4> QED BY <3>1, <3>2, <4>1, <4>2
      <3>6. DOMAIN h[j].map = {children[c][x] : x \in 1..j}
        <4>1. 1..j = 1..(j - 1) \cup {j}
          OBVIOUS
        <4> QED BY <3>1, <3>2, <4>1
      <3>7. \A x \in 1..j : h[j].map[children[c][x]] = RangeOfChildAtIndex(c, x)
        <4>1. \A x \in 1..j : x = j \/ x \in 1..(j - 1)
          OBVIOUS
        <4> QED BY <3>4, <3>5, <4>1
      <3> QED BY <3>3, <3>6, <3>7
    <2> HIDE DEF Q
    <2>3. \A j \in 0..n : j \in Q
      BY <1>1, <2>1, <2>2, Rounds
    <2>4. n \in Q
      BY <1>1, <2>3
    <2> QED BY <2>4 DEF Q
  <1>11. ASSUME c \notin Tracks, NEW i \in 1..n
         PROVE  RangeOfAllChildren(c)[children[c][i]] = RangeOfChildAtIndex(c, i)
    <2>1. children[c][i] \in Range(children[c])
      BY KidsStand DEF Range
    <2>2. RangeOfAllChildren(c)
            = [k \in Range(children[c]) |-> RangeOfChildAtIndex(c, IndexOfChild(c, k))]
      BY <1>11 DEF RangeOfAllChildren
    <2> QED BY <2>1, <2>2, PositionIs
  <1> QED BY <1>8, <1>10, <1>11

--------------------------------------------------------------------------------
(* Tracks.                                                                     *)

\* Child i of a track reaches from where the one before it ended, or its in offset
\* before that, to where it ends itself, or its out offset after that.
PlacedInTrack(c, i) ==
    LET k == children[c][i]
        r == RangeOfChildAtIndex(c, i)
    IN  /\ c \in Compositions /\ k \in Standing /\ k \in Objects
        /\ Laid(c)[i - 1] \in Int /\ Laid(c)[i] \in Int /\ Laid(c)[i - 1] <= Laid(c)[i]
        /\ InOffset(k) \in Nat /\ OutOffset(k) \in Nat /\ Duration(k) \in Nat
        /\ r.start = Laid(c)[i - 1] - InOffset(k)
        /\ EndExclusive(r) = Laid(c)[i] + OutOffset(k)
        /\ k \notin Transitions =>
               /\ InOffset(k) = 0 /\ OutOffset(k) = 0
               /\ Laid(c)[i] = Laid(c)[i - 1] + Duration(k)
        /\ k \in Transitions =>
               /\ Laid(c)[i] = Laid(c)[i - 1]
               /\ InOffset(k) = offset[k][1] /\ OutOffset(k) = offset[k][2]

LEMMA TrackPlaces ==
    ASSUME Placing, NEW c \in Tracks, NEW i \in 1..Len(children[c])
    PROVE  PlacedInTrack(c, i)
  <1> DEFINE k == children[c][i]
             r == RangeOfChildAtIndex(c, i)
             n == Len(children[c])
  <1>1. c \in Compositions /\ c \notin Stacks
    BY TimingAssumption DEF Compositions
  <1>2. k \in Standing /\ k \in Objects /\ n \in Nat
    BY <1>1, KidsStand
  <1>3. /\ InOffset(k) \in Nat /\ OutOffset(k) \in Nat /\ Duration(k) \in Nat
        /\ k \in Transitions => Duration(k) = InOffset(k) + OutOffset(k)
    BY <1>2, OffsetsAreNats, DurationOfKind
  <1>4. /\ r.start = Laid(c)[i - 1] - InOffset(k) /\ r.dur = Duration(k)
    BY <1>1, PlaceIs
  <1>5. /\ IsSum(Laid(c), n, Lengths(c)) /\ Lengths(c) \in [1..n -> Nat]
    BY <1>1, LaidEndToEnd
  <1>6. /\ Laid(c)[i - 1] \in Int /\ Laid(c)[i] \in Int
        /\ Laid(c)[i] = Laid(c)[i - 1] + Share(k, Duration(k))
    <2>1. i - 1 \in 0..n /\ i \in 0..n
      BY <1>2
    <2> QED BY <1>5, <2>1 DEF IsSum, Lengths
  <1>7. EndExclusive(r) = r.start + r.dur
    BY DEF EndExclusive
  <1> HIDE DEF k, r
  <1>8. CASE k \in Transitions
    <2>1. /\ Share(k, Duration(k)) = 0
          /\ InOffset(k) = offset[k][1] /\ OutOffset(k) = offset[k][2]
      BY <1>8 DEF Share, InOffset, OutOffset
    <2>2. EndExclusive(r) = Laid(c)[i] + OutOffset(k) /\ Laid(c)[i] = Laid(c)[i - 1]
      BY <1>3, <1>4, <1>6, <1>7, <1>8, <2>1
    <2> QED BY <1>1, <1>2, <1>3, <1>4, <1>6, <1>8, <2>1, <2>2 DEF k, r, PlacedInTrack
  <1>9. CASE k \notin Transitions
    <2>1. Share(k, Duration(k)) = Duration(k) /\ InOffset(k) = 0 /\ OutOffset(k) = 0
      BY <1>9 DEF Share, InOffset, OutOffset
    <2>2. EndExclusive(r) = Laid(c)[i] + OutOffset(k) /\ Laid(c)[i - 1] <= Laid(c)[i]
      BY <1>3, <1>4, <1>6, <1>7, <2>1
    <2> QED BY <1>1, <1>2, <1>3, <1>4, <1>6, <1>9, <2>1, <2>2 DEF k, r, PlacedInTrack
  <1> QED BY <1>8, <1>9

\* Where transitions fit, starts and ends follow the order of the children.
LEMMA PlacesAreSorted ==
    ASSUME Placing, NEW c \in Tracks, TransitionsFit(c)
    PROVE  SortedRanges(Placed(c), Len(children[c]))
  <1> DEFINE n == Len(children[c])
             r == Placed(c)
  <1>1. n \in Nat /\ DOMAIN children[c] = 1..n
    BY KidsStand DEF Compositions
  <1>2. \A i \in 1..n : r[i] = RangeOfChildAtIndex(c, i)
    BY <1>1 DEF Placed
  <1>3. ASSUME NEW i \in 1..n
        PROVE  r[i].start \in Int /\ EndExclusive(r[i]) \in Int
    <2> DEFINE q == RangeOfChildAtIndex(c, i)
               k == children[c][i]
               a == Laid(c)[i - 1]
               b == Laid(c)[i]
    <2>1. PlacedInTrack(c, i)
      BY TrackPlaces
    <2>2. /\ a \in Int /\ b \in Int /\ InOffset(k) \in Nat /\ OutOffset(k) \in Nat
          /\ q.start = a - InOffset(k) /\ EndExclusive(q) = b + OutOffset(k)
      BY <2>1 DEF PlacedInTrack
    <2>3. r[i] = q
      BY <1>2
    <2> HIDE DEF q, k, a, b, r
    <2> QED BY ONLY <2>2, <2>3
  <1>4. ASSUME NEW i \in 1..(n - 1)
        PROVE  r[i].start <= r[i + 1].start /\ EndExclusive(r[i]) <= EndExclusive(r[i + 1])
    <2> DEFINE k == children[c][i]
               l == children[c][i + 1]
               a == Laid(c)[i - 1]
               b == Laid(c)[i]
               d == Laid(c)[i + 1]
    <2>1. i \in 1..n /\ i + 1 \in 1..n /\ (i + 1) - 1 = i /\ i < n /\ i + 1 > 1
      BY <1>1
    <2>11. PlacedInTrack(c, i) /\ PlacedInTrack(c, i + 1)
      BY <2>1, TrackPlaces
    <2>2. /\ a \in Int /\ b \in Int /\ a <= b
          /\ InOffset(k) \in Nat /\ OutOffset(k) \in Nat
          /\ r[i].start = a - InOffset(k) /\ EndExclusive(r[i]) = b + OutOffset(k)
          /\ k \notin Transitions => InOffset(k) = 0 /\ OutOffset(k) = 0 /\ b = a + Duration(k)
          /\ k \in Transitions => OutOffset(k) = offset[k][2]
      BY <1>2, <2>1, <2>11 DEF PlacedInTrack
    <2>3. /\ d \in Int /\ b <= d
          /\ InOffset(l) \in Nat /\ OutOffset(l) \in Nat
          /\ r[i + 1].start = b - InOffset(l) /\ EndExclusive(r[i + 1]) = d + OutOffset(l)
          /\ l \notin Transitions => InOffset(l) = 0 /\ OutOffset(l) = 0 /\ d = b + Duration(l)
          /\ l \in Transitions => InOffset(l) = offset[l][1]
      BY <1>2, <2>1, <2>11 DEF PlacedInTrack
    <2>4. /\ l \in Transitions => k \notin Transitions /\ offset[l][1] <= Duration(k)
          /\ k \in Transitions => offset[k][2] <= Duration(l)
      BY <1>1, <2>1 DEF TransitionsFit
    <2>5. k \in Transitions => l \notin Transitions
      BY <2>4
    <2>6. k \in Standing /\ l \in Standing
      BY <2>1, KidsStand DEF Compositions
    <2>7. Duration(k) \in Nat /\ Duration(l) \in Nat
      BY <2>6, DurationOfKind
    <2> HIDE DEF k, l, a, b, d, r
    <2>8. InOffset(k) >= 0 /\ InOffset(l) <= b - a + InOffset(k)
      <3>1. CASE l \in Transitions
        BY <2>2, <2>3, <2>4, <2>7, <3>1
      <3>2. CASE l \notin Transitions
        BY <2>2, <2>3, <3>2
      <3> QED BY <2>2, <3>1, <3>2
    <2>9. OutOffset(k) <= d - b + OutOffset(l)
      <3>1. CASE k \in Transitions
        BY <2>2, <2>3, <2>4, <2>5, <2>7, <3>1
      <3>2. CASE k \notin Transitions
        BY <2>2, <2>3, <3>2
      <3> QED BY <3>1, <3>2
    <2> DEFINE ik == InOffset(k)
               il == InOffset(l)
               ok == OutOffset(k)
               ol == OutOffset(l)
    <2>12. /\ a \in Int /\ b \in Int /\ d \in Int /\ ik \in Nat /\ il \in Nat /\ ok \in Nat /\ ol \in Nat
           /\ il <= b - a + ik /\ ok <= d - b + ol
      BY <2>2, <2>3, <2>8, <2>9
    <2> HIDE DEF ik, il, ok, ol
    <2>13. a - ik <= b - il /\ b + ok <= d + ol
      BY ONLY <2>12
    <2>10. a - InOffset(k) <= b - InOffset(l) /\ b + OutOffset(k) <= d + OutOffset(l)
      BY <2>13 DEF ik, il, ok, ol
    <2> QED BY <2>2, <2>3, <2>10
  <1> HIDE DEF r
  <1>5. ASSUME NEW i \in 1..n, NEW j \in 1..n, i <= j
        PROVE  r[i].start <= r[j].start /\ EndExclusive(r[i]) <= EndExclusive(r[j])
    <2> DEFINE f == [x \in 0..(n - 1) |-> r[x + 1].start]
               g == [x \in 0..(n - 1) |-> EndExclusive(r[x + 1])]
    <2>1. n - 1 \in Nat /\ i - 1 \in 0..(n - 1) /\ j - 1 \in 0..(n - 1) /\ i - 1 <= j - 1
      BY <1>1, <1>5
    <2>2. f \in [0..(n - 1) -> Int] /\ g \in [0..(n - 1) -> Int]
      <3>1. ASSUME NEW x \in 0..(n - 1) PROVE x + 1 \in 1..n
        BY <1>1
      <3> QED BY <1>3, <3>1
    <2>3. ASSUME NEW x \in 1..(n - 1) PROVE f[x - 1] <= f[x] /\ g[x - 1] <= g[x]
      <3>1. x - 1 \in 0..(n - 1) /\ x \in 0..(n - 1) /\ (x - 1) + 1 = x
        BY <1>1
      <3> QED BY <1>4, <3>1
    <2>4. f[i - 1] = r[i].start /\ g[i - 1] = EndExclusive(r[i])
      BY <2>1
    <2>5. f[j - 1] = r[j].start /\ g[j - 1] = EndExclusive(r[j])
      BY <2>1
    <2> HIDE DEF f, g
    <2>6. f[i - 1] <= f[j - 1] /\ g[i - 1] <= g[j - 1]
      <3>1. \A x, y \in 0..(n - 1) : x <= y => f[x] <= f[y]
        BY <2>1, <2>2, <2>3, NeverFalls
      <3>2. \A x, y \in 0..(n - 1) : x <= y => g[x] <= g[y]
        BY <2>1, <2>2, <2>3, NeverFalls
      <3> QED BY <2>1, <3>1, <3>2
    <2> QED BY <2>4, <2>5, <2>6
  <1> QED BY <1>5 DEF SortedRanges, r

LEMMA MapOfPlaces ==
    ASSUME Placing, NEW c \in Compositions
    PROVE  /\ LookedUp(children[c], RangeOfAllChildren(c), Placed(c))
           /\ \A i \in 1..Len(children[c]) : Placed(c)[i] = RangeOfChildAtIndex(c, i)
           /\ DOMAIN Placed(c) = 1..Len(children[c])
  <1>1. /\ children[c] \in Seq(Objects) /\ DOMAIN children[c] = 1..Len(children[c])
    BY KidsStand
  <1>2. \A i \in 1..Len(children[c]) : RangeOfChildAtIndex(c, i) \in [start : Int, dur : Int]
    <2>1. ASSUME NEW i \in 1..Len(children[c])
          PROVE  RangeOfChildAtIndex(c, i) \in [start : Int, dur : Int]
      <3>1. RangeOfChildAtIndex(c, i) \in [start : Int, dur : Nat]
        BY PlaceIs
      <3> QED BY <3>1
    <2> QED BY <2>1
  <1>3. Placed(c) = [i \in 1..Len(children[c]) |-> RangeOfChildAtIndex(c, i)]
    BY <1>1 DEF Placed
  <1>4. \A i \in 1..Len(children[c]) :
            RangeOfAllChildren(c)[children[c][i]] = RangeOfChildAtIndex(c, i)
    BY MapIs
  <1>5. Placed(c) \in [1..Len(children[c]) -> [start : Int, dur : Int]]
    BY <1>2, <1>3
  <1>6. \A i \in 1..Len(children[c]) : Placed(c)[i] = RangeOfChildAtIndex(c, i)
    BY <1>3
  <1>7. \A i \in 1..Len(children[c]) : RangeOfAllChildren(c)[children[c][i]] = Placed(c)[i]
    BY <1>4, <1>6
  <1>8. IsList(children[c])
    BY <1>1, ListOfItsOwn
  <1> QED BY <1>1, <1>3, <1>5, <1>6, <1>7, <1>8 DEF LookedUp

LEMMA PlacingFinds == ASSUME Placing PROVE SearchesFind
  <1>1. ASSUME NEW c \in Tracks, NEW t \in Frames, Orderly(c)
        PROVE  LET at == {i \in DOMAIN children[c] : ContainsTime(Placed(c)[i], t)}
               IN  ShallowChildAtTime(c, t) = IF at = {} THEN NULL ELSE children[c][Min(at)]
    <2>1. c \in Compositions /\ t \in Int
      BY TimingAssumption DEF Compositions
    <2>2. LookedUp(children[c], RangeOfAllChildren(c), Placed(c))
      BY <2>1, MapOfPlaces
    <2>3. SortedRanges(Placed(c), Len(children[c]))
      BY <1>1, PlacesAreSorted DEF Orderly
    <2>4. DOMAIN children[c] = 1..Len(children[c])
      BY <2>1, KidsStand
    <2>5. FindsFirst(children[c], RangeOfAllChildren(c), Placed(c), t, NULL)
      BY <2>1, <2>2, FirstAtFinds
    <2> QED BY <2>3, <2>4, <2>5 DEF ShallowChildAtTime, FindsFirst
  <1>2. ASSUME NEW c \in Tracks, NEW s \in Ranges, Orderly(c), s.dur > 0
        PROVE  LET found == ChildrenInRange(c, s)
                   at == {i \in DOMAIN children[c] : Intersects(Placed(c)[i], s)}
               IN  IF at = {} THEN found = <<>>
                   ELSE /\ found = SubSeq(children[c], Min(at), Max(at))
                        /\ Range(found) = {children[c][i] : i \in at}
    <2>1. c \in Compositions /\ s.start \in Int /\ s.dur \in Int
      BY TimingAssumption DEF Compositions
    <2>2. LookedUp(children[c], RangeOfAllChildren(c), Placed(c))
      BY <2>1, MapOfPlaces
    <2>3. SortedRanges(Placed(c), Len(children[c]))
      BY <1>2, PlacesAreSorted DEF Orderly
    <2>4. DOMAIN children[c] = 1..Len(children[c])
      BY <2>1, KidsStand
    <2>5. ASSUME NEW i \in 1..Len(children[c]) PROVE Placed(c)[i].dur > 0
      <3>1. children[c][i] \in Range(children[c])
        BY <2>4 DEF Range
      <3>2. Placed(c)[i].dur = Duration(children[c][i])
        BY <2>1, MapOfPlaces, PlaceIs
      <3> QED BY <1>2, <3>1, <3>2 DEF Orderly, Lasting
    <2>6. FindsAll(children[c], RangeOfAllChildren(c), Placed(c), s)
      BY <1>2, <2>1, <2>2, <2>3, <2>5, AllInFinds
    <2>7. ChildrenInRange(c, s) = AllIn(children[c], RangeOfAllChildren(c), s)
      BY DEF ChildrenInRange
    <2> QED BY <2>4, <2>6, <2>7 DEF FindsAll
  <1> QED BY <1>1, <1>2 DEF SearchesFind, SearchFindsFirst, SearchFindsAll

LEMMA PlacingAgrees == ASSUME Placing PROVE RangesAgree
  BY MapIs, KidsStand DEF RangesAgree

LEMMA PlacingExtends == ASSUME Placing PROVE AvailableIsExtent
  <1> SUFFICES ASSUME NEW c \in Tracks, source[c] = NULL, children[c] # <<>>, TransitionsFit(c)
               PROVE  Duration(c) = Max({EndExclusive(r) : r \in Range(Placed(c))})
                                      - Min({r.start : r \in Range(Placed(c))})
    BY DEF AvailableIsExtent
  <1> DEFINE n == Len(children[c])
             r == Placed(c)
             longs == [i \in 1..n |-> Duration(children[c][i])]
             ends == {EndExclusive(x) : x \in Range(r)}
             starts == {x.start : x \in Range(r)}
  <1>1. c \in Compositions /\ c \in Standing
    BY DEF Compositions, Standing
  <1>2. /\ n \in Nat /\ 1 \in 1..n /\ n \in 1..n
        /\ Head(children[c]) = children[c][1] /\ Last(children[c]) = children[c][n]
    BY <1>1, KidsStand DEF Last
  <1>3. Duration(c) = Laid(c)[n] + InOffset(children[c][1]) + OutOffset(children[c][n])
    <2>1. Duration(c) = TrackLength(children[c], longs)
      BY <1>1, DurationOfKind
    <2>2. [i \in 1..n |-> Share(children[c][i], longs[i])] = Lengths(c)
      BY DEF Lengths
    <2> HIDE DEF longs
    <2> QED BY <1>2, <2>1, <2>2 DEF TrackLength, Laid
  <1>4. /\ DOMAIN r = 1..n /\ \A i \in 1..n : r[i] = RangeOfChildAtIndex(c, i)
    BY <1>1, MapOfPlaces
  <1>5. SortedRanges(r, n)
    BY PlacesAreSorted
  <1> HIDE DEF r
  <1>6. \A i \in 1..n : r[i].start \in Int /\ EndExclusive(r[i]) \in Int
    <2>1. ASSUME NEW i \in 1..n PROVE r[i].start \in Int /\ EndExclusive(r[i]) \in Int
      <3>1. PlacedInTrack(c, i) /\ r[i] = RangeOfChildAtIndex(c, i)
        BY <1>4, TrackPlaces
      <3> QED BY <3>1 DEF PlacedInTrack
    <2> QED BY <2>1
  <1>7. Range(r) = {r[i] : i \in 1..n}
    BY <1>4 DEF Range
  <1>8. Min(starts) = r[1].start
    <2>1. starts \in SUBSET Int /\ r[1].start \in starts
      BY <1>2, <1>6, <1>7
    <2>2. \A x \in starts : r[1].start <= x
      <3>1. ASSUME NEW i \in 1..n PROVE r[1].start <= r[i].start
        BY <1>2, <1>5 DEF SortedRanges
      <3> QED BY <1>7, <3>1
    <2> HIDE DEF starts
    <2> QED BY <2>1, <2>2, MinIs
  <1>9. Max(ends) = EndExclusive(r[n])
    <2>1. ends \in SUBSET Int /\ EndExclusive(r[n]) \in ends
      BY <1>2, <1>6, <1>7
    <2>2. \A x \in ends : x <= EndExclusive(r[n])
      <3>1. ASSUME NEW i \in 1..n PROVE EndExclusive(r[i]) <= EndExclusive(r[n])
        BY <1>2, <1>5 DEF SortedRanges
      <3> QED BY <1>7, <3>1
    <2> HIDE DEF ends
    <2> QED BY <2>1, <2>2, MaxIs
  <1>10. /\ r[1].start = 0 - InOffset(children[c][1]) /\ InOffset(children[c][1]) \in Nat
         /\ EndExclusive(r[n]) = Laid(c)[n] + OutOffset(children[c][n])
         /\ Laid(c)[n] \in Int /\ OutOffset(children[c][n]) \in Nat
    <2>1. PlacedInTrack(c, 1) /\ PlacedInTrack(c, n)
      BY <1>2, TrackPlaces
    <2>2. Laid(c)[1 - 1] = 0
      BY <1>1, LaidEndToEnd DEF IsSum
    <2>3. r[1] = RangeOfChildAtIndex(c, 1) /\ r[n] = RangeOfChildAtIndex(c, n)
      BY <1>2, <1>4
    <2> HIDE DEF n
    <2> QED BY <2>1, <2>2, <2>3 DEF PlacedInTrack
  <1> HIDE DEF starts, ends, n
  <1>11. Duration(c) = Max(ends) - Min(starts)
    BY <1>3, <1>8, <1>9, <1>10
  <1> QED BY <1>11 DEF starts, ends, r

--------------------------------------------------------------------------------
(* Trimming.                                                                   *)

\* A range is not nullopt.
NullIsNoRange == \A start, dur : NULL # TimeRange(start, dur)

LEMMA PlacingTrims == ASSUME NullIsNoRange, Placing PROVE TrimIsIntersection
  <1> SUFFICES ASSUME NEW c \in Tracks, NEW i \in DOMAIN children[c],
                      Lasting(c), source[c] # NULL
               PROVE  LET answer == TrimmedRangeOfChildAtIndex(c, i)
                          shown == {t \in Frames : /\ ContainsTime(Placed(c)[i], t)
                                                   /\ ContainsTime(source[c], t)}
                      IN  IF answer.status = "OK"
                          THEN shown = {t \in Frames : ContainsTime(answer.range, t)}
                          ELSE shown = {}
    BY DEF TrimIsIntersection
  <1> DEFINE r == RangeOfChildAtIndex(c, i)
             sr == source[c]
             answer == TrimmedRangeOfChildAtIndex(c, i)
             from == Later(r.start, sr.start)
             to == Earlier(EndExclusive(r), EndExclusive(sr))
  <1>1. c \in Compositions /\ c \in Standing /\ c \notin Transitions
    BY TimingAssumption DEF Compositions, Standing
  <1>2. i \in 1..Len(children[c]) /\ Placed(c)[i] = r
    BY <1>1, KidsStand, MapOfPlaces
  <1>3. /\ r.start \in Int /\ r.dur \in Nat
        /\ sr.start \in Int /\ sr.dur \in Nat
    BY <1>1, <1>2, PlaceIs, SourcesAreRanges
  <1>4. /\ EndExclusive(r) = r.start + r.dur /\ EndExclusive(sr) = sr.start + sr.dur
        /\ EndExclusive(r) \in Int /\ EndExclusive(sr) \in Int
    BY <1>3 DEF EndExclusive
  <1>5. answer = IF TrimChildRange(c, r) = NULL THEN Failed("INVALID_TIME_RANGE")
                 ELSE Answer(TrimChildRange(c, r))
    BY DEF TrimmedRangeOfChildAtIndex, TrimmedIn
  <1>6. TrimChildRange(c, r)
          = IF sr.start >= EndExclusive(r) \/ EndExclusive(sr) <= r.start THEN NULL
            ELSE FromStartEnd(from, to)
    BY DEF TrimChildRange
  <1> HIDE DEF r, sr, answer
  <1>7. CASE sr.start >= EndExclusive(r) \/ EndExclusive(sr) <= r.start
    <2>1. answer.status # "OK"
      BY <1>5, <1>6, <1>7 DEF Failed
    <2>2. ASSUME NEW t \in Frames PROVE ~(ContainsTime(r, t) /\ ContainsTime(sr, t))
      <3>1. t \in Int
        BY TimingAssumption
      <3> QED BY <1>3, <1>4, <1>7, <3>1 DEF ContainsTime
    <2> QED BY <1>2, <2>1, <2>2 DEF answer, sr
  <1>8. CASE ~(sr.start >= EndExclusive(r) \/ EndExclusive(sr) <= r.start)
    <2>1. TrimChildRange(c, r) = TimeRange(from, to - from)
      BY <1>6, <1>8 DEF FromStartEnd
    <2>2. TrimChildRange(c, r) # NULL
      BY <2>1 DEF NullIsNoRange
    <2> HIDE DEF from, to
    <2>3. answer.status = "OK" /\ answer.range = TimeRange(from, to - from)
      BY <1>5, <2>1, <2>2 DEF Answer
    <2>4. answer.range.start = from /\ answer.range.dur = to - from
      BY <2>3 DEF TimeRange
    <2>5. ASSUME NEW t \in Frames
          PROVE  ContainsTime(r, t) /\ ContainsTime(sr, t) <=> ContainsTime(answer.range, t)
      <3>1. t \in Int
        BY TimingAssumption
      <3>2. /\ (ContainsTime(r, t) /\ ContainsTime(sr, t)) <=> (from <= t /\ t < to)
            /\ from + (to - from) = to
        <4> DEFINE a == r.start
                   b == EndExclusive(r)
                   x == sr.start
                   y == EndExclusive(sr)
        <4>1. a \in Int /\ b \in Int /\ x \in Int /\ y \in Int
          BY <1>3, <1>4
        <4>2. (ContainsTime(r, t) /\ ContainsTime(sr, t)) 
                <=> ((a <= t /\ t < b) /\ (x <= t /\ t < y))
          BY DEF ContainsTime
        <4>3. from = Later(a, x) /\ to = Earlier(b, y)
          BY DEF from, to
        <4> HIDE DEF a, b, x, y
        <4>4. /\ ((a <= t /\ t < b) /\ (x <= t /\ t < y)) <=> (from <= t /\ t < to)
              /\ from + (to - from) = to
          BY <3>1, <4>1, <4>3 DEF Later, Earlier
        <4> QED BY <4>2, <4>4
      <3>3. ContainsTime(answer.range, t) <=> (from <= t /\ t < from + (to - from))
        BY <2>4 DEF ContainsTime, EndExclusive
      <3> QED BY <3>2, <3>3
    <2> QED BY <1>2, <2>3, <2>5 DEF answer, sr
  <1> QED BY <1>7, <1>8

--------------------------------------------------------------------------------
(* From one time space to another.                                             *)

\* f adds up what up says of each object on the walk to a, or to the root.
IsClimb(f, a, up) ==
    f = [x \in Objects |-> IF x = a \/ parent[x] = NULL THEN 0 ELSE up[x] + f[parent[x]]]

\* What is added on the way is a number where there is a way.
Counted(up) == \A x \in Objects \ Transitions : parent[x] # NULL => up[x] \in Int

LEMMA ParentsAre ==
    ASSUME Placing
    PROVE  /\ \A x \in Objects : parent[x] # NULL => parent[x] \in Compositions
           /\ Compositions \subseteq Objects \ Transitions
  BY TimingAssumption DEF Placing, Timed, Objects

LEMMA ClimbRuns ==
    ASSUME Placing, NEW a, NEW up, Counted(up)
    PROVE  \E f : IsClimb(f, a, up)
  <1> DEFINE D == Compositions
             base == [x \in D |-> 0]
             step == [x \in D |-> [y \in Int |-> IF parent[x] = NULL THEN 0 ELSE up[x] + y]]
  <1>1. D \subseteq Objects /\ \A x \in Objects : parent[x] # NULL => parent[x] \in D
    BY ParentsAre
  <1>2. base \in [D -> Int] /\ step \in [D -> [Int -> Int]] /\ 0 \in Int
    <2>1. \A x \in D : parent[x] # NULL => up[x] \in Int
      BY ParentsAre DEF Counted
    <2> QED BY <2>1
  <1> HIDE DEF base, step, D
  <1>3. PICK g : IsWalk(g, D, a, Int, base, step)
    <2>1. \E g : IsWalk(g, D, a, Int, base, step)
      BY <1>1, <1>2, WalkRuns DEF Placing
    <2> QED BY <2>1
  <1>4. /\ g \in [D -> Int]
        /\ \A x \in D : g[x] = IF x = a \/ parent[x] = NULL THEN base[x] ELSE step[x][g[parent[x]]]
    BY <1>3 DEF IsWalk
  <1>5. \A x \in D : g[x] = IF x = a \/ parent[x] = NULL THEN 0 ELSE up[x] + g[parent[x]]
    <2>1. ASSUME NEW x \in D, x # a, parent[x] # NULL PROVE g[x] = up[x] + g[parent[x]]
      <3>1. g[parent[x]] \in Int /\ g[x] = step[x][g[parent[x]]]
        BY <1>1, <1>4, <2>1
      <3> QED BY <2>1, <3>1 DEF step
    <2>2. ASSUME NEW x \in D, x = a \/ parent[x] = NULL PROVE g[x] = 0
      BY <1>4, <2>2 DEF base
    <2> QED BY <2>1, <2>2
  <1> DEFINE f == [x \in Objects |-> IF x = a \/ parent[x] = NULL THEN 0 ELSE up[x] + g[parent[x]]]
  <1>6. \A x \in D : f[x] = g[x]
    BY <1>1, <1>5
  <1>7. \A x \in Objects :
            f[x] = IF x = a \/ parent[x] = NULL THEN 0 ELSE up[x] + f[parent[x]]
    BY <1>1, <1>6
  <1>8. f = [x \in Objects |-> f[x]]
    OBVIOUS
  <1> HIDE DEF f
  <1>9. IsClimb(f, a, up)
    BY <1>7, <1>8 DEF IsClimb
  <1> QED BY <1>9

LEMMA ClimbIsNumber ==
    ASSUME Placing, NEW a, NEW up, Counted(up), NEW f, IsClimb(f, a, up),
           NEW o \in Objects, o \notin Transitions
    PROVE  f[o] \in Int
  <1> DEFINE S == {x \in Objects : x \notin Transitions => f[x] \in Int}
  <1>1. ASSUME NEW x \in Objects, parent[x] = NULL \/ parent[x] \in S PROVE x \in S
    <2>1. f[x] = IF x = a \/ parent[x] = NULL THEN 0 ELSE up[x] + f[parent[x]]
      BY DEF IsClimb
    <2>2. ASSUME x \notin Transitions, parent[x] # NULL PROVE f[parent[x]] \in Int /\ up[x] \in Int
      BY <1>1, <2>2, ParentsAre DEF Counted
    <2> QED BY <2>1, <2>2
  <1> HIDE DEF S
  <1>2. \A x \in Objects : x \in S
    BY <1>1, UpInduction DEF Placing
  <1> QED BY <1>2 DEF S

LEMMA ToParentIs ==
    ASSUME Placing, NEW o \in Objects, o \notin Transitions, parent[o] # NULL
    PROVE  /\ ToParent(o) \in Int /\ RangeInParent(o).start \in Int
           /\ ToParent(o) = RangeInParent(o).start - TrimmedRange(o).start
           /\ TrimmedRange(o).start \in Int
  BY InParentIs, TrimmedIsRange DEF ToParent, Standing

LEMMA ClimbIs ==
    ASSUME Placing, NEW a, NEW o \in Objects, o \notin Transitions
    PROVE  /\ Climb(o, a) \in Int
           /\ Climb(o, a) = IF o = a \/ parent[o] = NULL THEN 0
                            ELSE ToParent(o) + Climb(parent[o], a)
  <1> DEFINE up == [x \in Objects |-> ToParent(x)]
             Loop(f) == f = [x \in Objects |->
                               IF x = a \/ parent[x] = NULL THEN 0 ELSE ToParent(x) + f[parent[x]]]
             h == CHOOSE f : Loop(f)
  <1>1. Counted(up)
    BY ToParentIs DEF Counted
  <1>2. ASSUME NEW f PROVE Loop(f) <=> IsClimb(f, a, up)
    BY DEF IsClimb
  <1>3. \E f : Loop(f)
    <2> HIDE DEF Loop, up
    <2> QED BY <1>1, <1>2, ClimbRuns
  <1>4. Loop(h)
    <2> HIDE DEF Loop
    <2> QED BY <1>3, Zenon
  <1>5. \A x : Climb(x, a) = h[x]
    BY DEF Climb
  <1> HIDE DEF h
  <1>6. h[o] \in Int
    <2> HIDE DEF Loop, up
    <2> QED BY <1>1, <1>2, <1>4, ClimbIsNumber
  <1>7. h[o] = IF o = a \/ parent[o] = NULL THEN 0 ELSE ToParent(o) + h[parent[o]]
    BY <1>4
  <1> QED BY <1>5, <1>6, <1>7

LEMMA RangeOfChildIs ==
    ASSUME Placing, NEW c, NEW o \in Objects, o \notin Transitions
    PROVE  /\ RangeOfChild(c, o) = TimeRange(RangeOfChild(c, o).start, Duration(o))
           /\ RangeOfChild(c, o).start \in Int
           /\ RangeOfChild(c, o).start
                = IF o = c \/ parent[o] = NULL THEN 0
                  ELSE RangeInParent(o).start + RangeOfChild(c, parent[o]).start
  <1> DEFINE up == [x \in Objects |-> RangeInParent(x).start]
             Loop(f) == f = [x \in Objects |->
                               IF x = c \/ parent[x] = NULL THEN 0
                               ELSE RangeInParent(x).start + f[parent[x]]]
             h == CHOOSE f : Loop(f)
  <1>1. Counted(up)
    BY ToParentIs DEF Counted
  <1>2. ASSUME NEW f PROVE Loop(f) <=> IsClimb(f, c, up)
    BY DEF IsClimb
  <1>3. \E f : Loop(f)
    <2> HIDE DEF Loop, up
    <2> QED BY <1>1, <1>2, ClimbRuns
  <1>4. Loop(h)
    <2> HIDE DEF Loop
    <2> QED BY <1>3, Zenon
  <1>5. ASSUME NEW x PROVE /\ RangeOfChild(c, x) = TimeRange(h[x], Duration(x))
                           /\ RangeOfChild(c, x).start = h[x]
    <2>1. RangeOfChild(c, x) = TimeRange(h[x], Duration(x))
      BY DEF RangeOfChild
    <2> HIDE DEF h
    <2> QED BY <2>1 DEF TimeRange
  <1> HIDE DEF h
  <1>6. h[o] \in Int
    <2> HIDE DEF Loop, up
    <2> QED BY <1>1, <1>2, <1>4, ClimbIsNumber
  <1>7. h[o] = IF o = c \/ parent[o] = NULL THEN 0 ELSE RangeInParent(o).start + h[parent[o]]
    BY <1>4
  <1> QED BY <1>5, <1>6, <1>7

LEMMA PathIs ==
    ASSUME Placing, NEW c, NEW o \in Objects
    PROVE  /\ Path(c, o) \in Seq(Objects)
           /\ Path(c, o) = IF o = c \/ parent[o] = NULL THEN <<>> ELSE <<o>> \o Path(c, parent[o])
           /\ o # c /\ parent[o] # NULL =>
                  Range(Path(c, o)) = {o} \cup Range(Path(c, parent[o]))
  <1> DEFINE A == Seq(Objects)
             base == [x \in Objects |-> <<>>]
             step == [x \in Objects |-> [p \in A |-> <<x>> \o p]]
             Loop(f) == f = [x \in Objects |->
                               IF x = c \/ parent[x] = NULL THEN <<>> ELSE <<x>> \o f[parent[x]]]
             h == CHOOSE f : Loop(f)
  <1>1. \A x \in Objects : parent[x] # NULL => parent[x] \in Objects
    BY ParentsAre DEF Objects
  <1>2. <<>> \in A /\ base \in [Objects -> A] /\ step \in [Objects -> [A -> A]]
    OBVIOUS
  <1>3. PICK g : IsWalk(g, Objects, c, A, base, step)
    <2> HIDE DEF A, base, step
    <2>1. \E g : IsWalk(g, Objects, c, A, base, step)
      BY <1>1, <1>2, WalkRuns DEF Placing
    <2> QED BY <2>1
  <1>4. \E f : Loop(f)
    <2>1. /\ g \in [Objects -> A]
          /\ \A x \in Objects :
                 g[x] = IF x = c \/ parent[x] = NULL THEN base[x] ELSE step[x][g[parent[x]]]
      BY <1>3 DEF IsWalk
    <2>2. \A x \in Objects :
              g[x] = IF x = c \/ parent[x] = NULL THEN <<>> ELSE <<x>> \o g[parent[x]]
      <3>1. ASSUME NEW x \in Objects, parent[x] # NULL
            PROVE  step[x][g[parent[x]]] = <<x>> \o g[parent[x]]
        <4>1. g[parent[x]] \in A
          BY <1>1, <2>1, <3>1
        <4> HIDE DEF A
        <4> QED BY <4>1
      <3> HIDE DEF step
      <3> QED BY <2>1, <3>1
    <2>3. g = [x \in Objects |-> g[x]]
      BY <2>1
    <2>4. Loop(g)
      BY <2>2, <2>3
    <2> HIDE DEF Loop
    <2> QED BY <2>4, Zenon
  <1>5. Loop(h)
    <2> HIDE DEF Loop
    <2> QED BY <1>4, Zenon
  <1>6. \A x : Path(c, x) = h[x]
    BY DEF Path
  <1> HIDE DEF h
  <1>7. \A x \in Objects : h[x] \in A
    <2> DEFINE S == {x \in Objects : h[x] \in A}
    <2>1. ASSUME NEW x \in Objects, parent[x] = NULL \/ parent[x] \in S PROVE x \in S
      <3>1. h[x] = IF x = c \/ parent[x] = NULL THEN <<>> ELSE <<x>> \o h[parent[x]]
        BY <1>5
      <3>2. CASE x = c \/ parent[x] = NULL
        <4>1. h[x] = <<>>
          BY <3>1, <3>2
        <4> QED BY <1>2, <4>1, Zenon
      <3>3. CASE ~(x = c \/ parent[x] = NULL)
        <4> DEFINE p == h[parent[x]]
        <4>1. p \in Seq(Objects) /\ h[x] = <<x>> \o p
          BY <2>1, <3>1, <3>3
        <4> HIDE DEF p
        <4>2. <<x>> \o p \in Seq(Objects)
          BY <4>1
        <4> QED BY <4>1, <4>2
      <3> QED BY <3>2, <3>3
    <2> HIDE DEF S
    <2>2. \A x \in Objects : x \in S
      BY <2>1, UpInduction DEF Placing
    <2> QED BY <2>2 DEF S
  <1>8. ASSUME o # c, parent[o] # NULL
        PROVE  Range(h[o]) = {o} \cup Range(h[parent[o]])
    <2> DEFINE p == h[parent[o]]
    <2>1. p \in Seq(Objects) /\ h[o] = <<o>> \o p
      BY <1>1, <1>5, <1>7, <1>8
    <2> HIDE DEF p
    <2>2. /\ Len(p) \in Nat /\ DOMAIN p = 1..Len(p) /\ DOMAIN (<<o>> \o p) = 1..(Len(p) + 1)
          /\ (<<o>> \o p)[1] = o /\ \A i \in 1..Len(p) : (<<o>> \o p)[i + 1] = p[i]
      BY <2>1
    <2>3. \A j \in 1..(Len(p) + 1) : j = 1 \/ (j - 1 \in 1..Len(p) /\ (j - 1) + 1 = j)
      BY <2>2
    <2>4. \A i \in 1..Len(p) : i + 1 \in 1..(Len(p) + 1)
      BY <2>2
    <2>5. Range(<<o>> \o p) = {o} \cup Range(p)
      <3> DEFINE q == <<o>> \o p
      <3>1. \A j \in DOMAIN q : q[j] \in {o} \cup Range(p)
        BY <2>2, <2>3 DEF Range
      <3>2. o \in Range(q)
        BY <2>2 DEF Range
      <3>3. \A i \in DOMAIN p : p[i] \in Range(q)
        BY <2>2, <2>4 DEF Range
      <3> HIDE DEF q
      <3>4. Range(q) = {o} \cup Range(p)
        BY <3>1, <3>2, <3>3 DEF Range
      <3> QED BY <3>4 DEF q
    <2> QED BY <2>1, <2>5 DEF p
  <1>9. h[o] = IF o = c \/ parent[o] = NULL THEN <<>> ELSE <<o>> \o h[parent[o]]
    BY <1>5
  <1> QED BY <1>6, <1>7, <1>8, <1>9

\* The walk up never comes down: it ends at c or at a root, above where it began.
LEMMA TopIsAbove ==
    ASSUME Placing, NEW m \in Nat, NEW rank, Rising(rank, m), NEW c, NEW o \in Objects
    PROVE  /\ Top(c, o) \in Objects
           /\ Top(c, o) = c \/ parent[Top(c, o)] = NULL
           /\ rank[o] <= rank[Top(c, o)]
  <1> DEFINE Ends(x) == /\ Top(c, x) = c \/ parent[Top(c, x)] = NULL
                        /\ rank[x] <= rank[Top(c, x)]
             S == {x \in Objects : Ends(x)}
  <1>1. \A x \in Objects :
            /\ Top(c, x) \in Objects
            /\ Top(c, x) = IF x = c \/ parent[x] = NULL THEN x ELSE Top(c, parent[x])
    BY TopIs DEF Placing
  <1>2. ASSUME NEW x \in Objects, parent[x] = NULL \/ parent[x] \in S PROVE x \in S
    <2>1. CASE x = c \/ parent[x] = NULL
      <3>1. Top(c, x) = x /\ rank[x] \in Int
        BY <1>1, <2>1, RankIsNumber
      <3> QED BY <2>1, <3>1
    <2>2. CASE x # c /\ parent[x] # NULL
      <3>1. Top(c, x) = Top(c, parent[x]) /\ Ends(parent[x]) /\ parent[x] \in Objects
        BY <1>1, <1>2, <2>2
      <3>2. /\ rank[x] < rank[parent[x]] /\ rank[parent[x]] <= rank[Top(c, x)]
            /\ rank[x] \in Int /\ rank[parent[x]] \in Int /\ rank[Top(c, x)] \in Int
        BY <1>1, <2>2, <3>1, RankIsNumber DEF Rising
      <3>3. rank[x] <= rank[Top(c, x)]
        BY <3>2
      <3> QED BY <3>1, <3>3
    <2> QED BY <2>1, <2>2
  <1> HIDE DEF S
  <1>3. \A x \in Objects : x \in S
    BY <1>2, UpInduction DEF Placing
  <1> QED BY <1>1, <1>3 DEF S

\* A child is not its parent, and no walk from the parent comes to the child.
LEMMA NotBelow ==
    ASSUME Placing, NEW d \in Compositions, NEW k \in Objects, parent[k] = d, NEW x
    PROVE  k # d /\ Top(x, d) # k
  <1>1. PICK m \in Nat : \E rank : Rising(rank, m)
    BY DEF Placing, Ranked
  <1>2. PICK rank : Rising(rank, m)
    BY <1>1
  <1>3. d \in Objects /\ d # NULL
    BY TimingAssumption DEF Objects
  <1>4. rank[k] < rank[d] /\ rank[d] <= rank[Top(x, d)] /\ Top(x, d) \in Objects
    BY <1>2, <1>3, TopIsAbove DEF Rising
  <1>5. rank[k] \in Int /\ rank[d] \in Int /\ rank[Top(x, d)] \in Int
    BY <1>2, <1>3, <1>4, RankIsNumber
  <1> QED BY <1>4, <1>5

\* From a child up to its parent, and from the parent down to the child.
LEMMA OneStep ==
    ASSUME Placing, NEW d \in Compositions, NEW k \in Objects, k \notin Transitions,
           parent[k] = d, NEW t \in Int
    PROVE  /\ TransformedTime(k, t, d) = t + ToParent(k)
           /\ TransformedTime(d, t, k) = t - ToParent(k)
           /\ ToParent(k) \in Int
  <1>1. d \in Objects /\ d # NULL /\ d \notin Transitions
    BY TimingAssumption DEF Objects
  <1>2. k # d
    BY NotBelow
  <1>3. ToParent(k) \in Int
    BY <1>1, ToParentIs
  <1>4. Top(d, k) = d /\ Climb(d, d) = 0 /\ Climb(k, d) = ToParent(k) + Climb(d, d)
    BY <1>1, <1>2, TopIs, ClimbIs DEF Placing
  <1>5. TransformedTime(k, t, d) = t + ToParent(k)
    BY <1>3, <1>4 DEF TransformedTime
  <1> DEFINE T == Top(k, d)
  <1>6. T # k
    BY NotBelow
  <1> HIDE DEF T
  <1>7. Climb(k, T) = ToParent(k) + Climb(d, T) /\ Climb(d, T) \in Int
    BY <1>1, <1>6, ClimbIs
  <1>8. TransformedTime(d, t, k) = t + Climb(d, T) - Climb(k, T)
    BY DEF TransformedTime, T
  <1>9. TransformedTime(d, t, k) = t - ToParent(k)
    BY <1>3, <1>7, <1>8
  <1> QED BY <1>3, <1>5, <1>9

\* What is found from the parent d at t is found from its child k at the time of k.
LEMMA OneStepDown ==
    ASSUME Placing, NEW d \in Compositions, NEW k \in Compositions, parent[k] = d,
           NEW o \in Objects, o # k, o \notin Transitions, NEW t \in Int
    PROVE  TransformedTime(d, t, o) = TransformedTime(k, TransformedTime(d, t, k), o)
  <1>1. /\ d \in Objects /\ d # NULL /\ d \notin Transitions
        /\ k \in Objects /\ k \notin Transitions
    BY TimingAssumption DEF Objects
  <1> DEFINE T == Top(o, d)
  <1>2. Top(o, k) = T
    BY <1>1, TopIs DEF Placing
  <1>3. T # k
    BY <1>1, NotBelow
  <1> HIDE DEF T
  <1>4. /\ Climb(k, T) = ToParent(k) + Climb(d, T)
        /\ Climb(d, T) \in Int /\ Climb(o, T) \in Int
    BY <1>1, <1>3, ClimbIs
  <1>5. TransformedTime(d, t, k) = t - ToParent(k) /\ ToParent(k) \in Int
    BY <1>1, OneStep
  <1>6. TransformedTime(d, t, o) = t + Climb(d, T) - Climb(o, T)
    BY DEF TransformedTime, T
  <1>7. TransformedTime(k, TransformedTime(d, t, k), o)
          = (t - ToParent(k)) + Climb(k, T) - Climb(o, T)
    BY <1>2, <1>5 DEF TransformedTime
  <1> QED BY <1>4, <1>5, <1>6, <1>7

--------------------------------------------------------------------------------
(* Searching downwards.                                                        *)

LEMMA ShallowIs ==
    ASSUME Placing, NEW d \in Compositions, NEW t \in Int
    PROVE  /\ ShallowChildAtTime(d, t) \in Objects \cup {NULL}
           /\ ShallowChildAtTime(d, t) # NULL =>
                  /\ parent[ShallowChildAtTime(d, t)] = d
                  /\ ContainsTime(RangeInParent(ShallowChildAtTime(d, t)), t)
  <1> DEFINE hit == ShallowChildAtTime(d, t)
  <1>1. FindsFirst(children[d], RangeOfAllChildren(d), Placed(d), t, NULL)
    BY MapOfPlaces, FirstAtFinds
  <1>2. \/ hit = NULL
        \/ \E i \in 1..Len(children[d]) : hit = children[d][i] /\ ContainsTime(Placed(d)[i], t)
    BY <1>1 DEF FindsFirst, ShallowChildAtTime
  <1> HIDE DEF hit
  <1>3. ASSUME NEW i \in 1..Len(children[d]), hit = children[d][i], ContainsTime(Placed(d)[i], t)
        PROVE  hit \in Objects /\ parent[hit] = d /\ ContainsTime(RangeInParent(hit), t)
    <2>1. hit \in Objects /\ parent[hit] = d
      BY <1>3, KidsStand
    <2>2. Placed(d)[i] = RangeInParent(hit)
      BY <1>3, MapOfPlaces, InParentAt
    <2> QED BY <1>3, <2>1, <2>2
  <1> QED BY <1>2, <1>3 DEF hit

\* One level of child_at_time.
LEMMA ChildAtTimeIs ==
    ASSUME Placing, NEW d \in Compositions, NEW u \in Int
    PROVE  ChildAtTime(d, u)
             = IF ShallowChildAtTime(d, u) \in Compositions
               THEN ChildAtTime(ShallowChildAtTime(d, u),
                                TransformedTime(d, u, ShallowChildAtTime(d, u)))
               ELSE ShallowChildAtTime(d, u)
  <1> DEFINE D == Compositions \X Int
             A == Objects \cup {NULL}
             hit(p) == ShallowChildAtTime(p[1], p[2])
             below(p) == <<hit(p), TransformedTime(p[1], p[2], hit(p))>>
             Loop(f) == f = [p \in D |-> IF hit(p) \in Compositions THEN f[below(p)] ELSE hit(p)]
             h == CHOOSE f : Loop(f)
             G == [p \in D |-> [f \in [D -> A] |->
                      IF hit(p) \in Compositions THEN f[below(p)] ELSE hit(p)]]
  <1>1. PICK m \in Nat : \E rank : Rising(rank, m)
    BY DEF Placing, Ranked
  <1>2. PICK rank : Rising(rank, m)
    BY <1>1
  <1> DEFINE low == [p \in D |-> rank[p[1]]]
  <1>3. ASSUME NEW p \in D
        PROVE  /\ hit(p) \in A
               /\ hit(p) \in Compositions => below(p) \in D /\ low[below(p)] < low[p]
    <2>1. p[1] \in Compositions /\ p[2] \in Int
      OBVIOUS
    <2>2. hit(p) \in A /\ (hit(p) # NULL => parent[hit(p)] = p[1])
      BY <2>1, ShallowIs
    <2> HIDE DEF hit
    <2>3. ASSUME hit(p) \in Compositions PROVE below(p) \in D /\ low[below(p)] < low[p]
      <3>1. hit(p) \in Objects /\ hit(p) # NULL /\ hit(p) \notin Transitions
        BY <2>3, TimingAssumption DEF Objects
      <3>2. TransformedTime(p[1], p[2], hit(p)) \in Int
        <4>1. /\ TransformedTime(p[1], p[2], hit(p)) = p[2] - ToParent(hit(p))
              /\ ToParent(hit(p)) \in Int
          BY <2>1, <2>2, <3>1, OneStep
        <4> QED BY <2>1, <4>1
      <3>3. rank[hit(p)] < rank[p[1]]
        <4>1. parent[hit(p)] = p[1] /\ p[1] # NULL
          BY <2>1, <2>2, <3>1, TimingAssumption DEF Objects
        <4> QED BY <1>2, <3>1, <4>1 DEF Rising
      <3>4. below(p) \in D /\ below(p)[1] = hit(p)
        BY <2>3, <3>2
      <3> HIDE DEF below
      <3> QED BY <3>3, <3>4
    <2> QED BY <2>2, <2>3
  <1> HIDE DEF hit, below
  <1>4. Lowers(G, D, A, low, m)
    <2>1. low \in [D -> 0..m]
      BY <1>2 DEF Rising, Objects
    <2>2. G \in [D -> [[D -> A] -> A]]
      BY <1>3
    <2>3. ASSUME NEW p \in D, NEW f \in [D -> A], NEW g \in [D -> A],
                 \A q \in D : low[q] < low[p] => f[q] = g[q]
          PROVE  G[p][f] = G[p][g]
      <3>1. hit(p) \in Compositions => f[below(p)] = g[below(p)]
        BY <1>3, <2>3
      <3> QED BY <3>1
    <2> HIDE DEF D, A, G, low
    <2> QED BY <2>1, <2>2, <2>3 DEF Lowers
  <1>5. PICK g : IsRecursion(g, D, A, G)
    <2>1. NULL \in A
      OBVIOUS
    <2> HIDE DEF D, A, G, low
    <2>2. \E g : IsRecursion(g, D, A, G)
      BY <1>4, <2>1, RecursionRuns
    <2> QED BY <2>2
  <1>6. \E f : Loop(f)
    <2>1. g \in [D -> A] /\ \A p \in D : g[p] = G[p][g]
      BY <1>5 DEF IsRecursion
    <2>2. \A p \in D : g[p] = IF hit(p) \in Compositions THEN g[below(p)] ELSE hit(p)
      BY <2>1
    <2>3. g = [p \in D |-> g[p]]
      BY <2>1
    <2> HIDE DEF D, A, G, low
    <2>4. Loop(g)
      BY <2>2, <2>3
    <2> HIDE DEF Loop
    <2> QED BY <2>4, Zenon
  <1>7. Loop(h)
    <2> HIDE DEF Loop
    <2> QED BY <1>6, Zenon
  <1>8. \A c, t : ChildAtTime(c, t) = h[<<c, t>>]
    BY DEF ChildAtTime, hit, below
  <1> HIDE DEF h
  <1>9. <<d, u>> \in D /\ hit(<<d, u>>) = ShallowChildAtTime(d, u)
        /\ below(<<d, u>>) = <<ShallowChildAtTime(d, u),
                               TransformedTime(d, u, ShallowChildAtTime(d, u))>>
    BY DEF hit, below
  <1>10. h[<<d, u>>] = IF hit(<<d, u>>) \in Compositions THEN h[below(<<d, u>>)]
                       ELSE hit(<<d, u>>)
    <2> HIDE DEF D
    <2> QED BY <1>7, <1>9
  <1> QED BY <1>8, <1>9, <1>10

LEMMA PlacingAnswers == ASSUME Placing PROVE FoundAtItsTime
  <1> DEFINE Good(d, u) ==
                 ChildAtTime(d, u) \in Items =>
                     ContainsTime(TrimmedRange(ChildAtTime(d, u)),
                                  TransformedTime(d, u, ChildAtTime(d, u)))
             S == {d \in Objects : d \in Compositions => \A u \in Int : Good(d, u)}
  <1>1. ASSUME NEW d \in Objects, \A y \in Objects : parent[y] = d => y \in S PROVE d \in S
    <2>1. SUFFICES ASSUME d \in Compositions, NEW u \in Int, ChildAtTime(d, u) \in Items
                   PROVE  Good(d, u)
      OBVIOUS
    <2> DEFINE k == ShallowChildAtTime(d, u)
               o == ChildAtTime(d, u)
               v == TransformedTime(d, u, k)
    <2>2. /\ k \in Objects \cup {NULL}
          /\ k # NULL => parent[k] = d /\ ContainsTime(RangeInParent(k), u)
      BY <2>1, ShallowIs
    <2>3. o = IF k \in Compositions THEN ChildAtTime(k, v) ELSE k
      BY <2>1, ChildAtTimeIs
    <2>4. o \in Objects /\ o \notin Transitions /\ o \notin Compositions /\ o # NULL
      BY <2>1, TimingAssumption DEF Objects
    <2> HIDE DEF k, o, S, Good
    <2>5. CASE k \in Compositions
      <3>1. k \in Objects /\ k # NULL /\ k \notin Transitions /\ parent[k] = d
        BY <2>2, <2>5, TimingAssumption DEF Objects
      <3>2. v \in Int
        <4>1. v = u - ToParent(k) /\ ToParent(k) \in Int
          BY <2>1, <3>1, OneStep
        <4> QED BY <4>1
      <3>3. Good(k, v)
        <4>1. k \in S
          BY <1>1, <3>1
        <4> QED BY <2>5, <3>2, <4>1 DEF S
      <3>4. TransformedTime(d, u, o) = TransformedTime(k, v, o)
        BY <2>1, <2>4, <2>5, <3>1, OneStepDown
      <3>5. ChildAtTime(k, v) = o
        BY <2>3, <2>5
      <3> HIDE DEF v
      <3>6. ContainsTime(TrimmedRange(o), TransformedTime(k, v, o))
        BY <2>1, <3>3, <3>5 DEF Good, o
      <3> QED BY <3>4, <3>6 DEF Good, o
    <2>6. CASE k \notin Compositions
      <3>1. o = k /\ k # NULL /\ parent[o] = d /\ ContainsTime(RangeInParent(o), u) /\ d # NULL
        BY <2>1, <2>2, <2>3, <2>4, <2>6, TimingAssumption DEF Objects
      <3>2. o \in Standing
        BY <2>4, <3>1 DEF Standing
      <3>3. /\ TransformedTime(d, u, o) = u - ToParent(o) /\ ToParent(o) \in Int
            /\ ToParent(o) = RangeInParent(o).start - TrimmedRange(o).start
            /\ RangeInParent(o).start \in Int /\ TrimmedRange(o).start \in Int
        BY <2>1, <2>4, <3>1, OneStep, ToParentIs
      <3>4. /\ TrimmedRange(o).dur = Duration(o) /\ RangeInParent(o).dur = Duration(o)
            /\ Duration(o) \in Nat
        BY <2>4, <3>1, <3>2, TrimmedIsRange, InParentIs, DurationOfKind
      <3>5. ContainsTime(TrimmedRange(o), TransformedTime(d, u, o))
        BY <3>1, <3>3, <3>4 DEF ContainsTime, EndExclusive
      <3> QED BY <3>5 DEF Good, o
    <2> QED BY <2>5, <2>6
  <1>2. \A d \in Objects : d \in S
    <2> HIDE DEF S
    <2> QED BY <1>1, DownInduction DEF Placing
  <1>3. ASSUME NEW d \in Compositions, NEW u \in Frames PROVE Good(d, u)
    <2>1. d \in Objects /\ u \in Int
      BY TimingAssumption DEF Objects
    <2> HIDE DEF Good
    <2> QED BY <1>2, <2>1
  <1> QED BY <1>3 DEF FoundAtItsTime

\* Where no composition on the way has a source range, only the starts add up.
LEMMA NothingOnTheWay ==
    ASSUME Placing, NEW c \in Compositions, NEW o \in Objects, o \in Compositions,
           Top(c, o) = c, \A d \in Range(Path(c, o)) \cap Compositions : source[d] = NULL
    PROVE  RangeOfChild(c, o).start = Climb(o, c)
  <1> DEFINE Clear(x) == \A d \in Range(Path(c, x)) \cap Compositions : source[d] = NULL
             S == {x \in Objects : (x \in Compositions /\ Top(c, x) = c /\ Clear(x))
                                       => RangeOfChild(c, x).start = Climb(x, c)}
  <1>1. ASSUME NEW x \in Objects, parent[x] = NULL \/ parent[x] \in S PROVE x \in S
    <2>1. SUFFICES ASSUME x \in Compositions, Top(c, x) = c, Clear(x)
                   PROVE  RangeOfChild(c, x).start = Climb(x, c)
      OBVIOUS
    <2>2. x \notin Transitions
      BY <2>1, ParentsAre
    <2>3. CASE x = c
      BY <2>2, <2>3, ClimbIs, RangeOfChildIs
    <2>4. CASE x # c
      <3>1. parent[x] # NULL /\ Top(c, parent[x]) = c
        BY <2>1, <2>4, TopIs DEF Placing
      <3>2. parent[x] \in Compositions
        BY <3>1, ParentsAre
      <3>3. Range(Path(c, x)) = {x} \cup Range(Path(c, parent[x]))
        BY <2>4, <3>1, PathIs
      <3>4. RangeOfChild(c, parent[x]).start = Climb(parent[x], c)
        <4>1. Clear(parent[x])
          BY <2>1, <3>3
        <4> QED BY <1>1, <3>1, <3>2, <4>1
      <3>5. source[x] = NULL
        BY <2>1, <3>3
      <3>6. ToParent(x) = RangeInParent(x).start - 0 /\ RangeInParent(x).start \in Int
        <4>1. x \in Standing
          BY <2>1 DEF Standing
        <4>2. TrimmedRange(x).start = 0
          BY <2>2, <3>5, <4>1, TrimmedIsRange
        <4> QED BY <2>2, <3>1, <4>2, ToParentIs
      <3>7. RangeOfChild(c, x).start = RangeInParent(x).start + RangeOfChild(c, parent[x]).start
        BY <2>2, <2>4, <3>1, RangeOfChildIs
      <3>8. Climb(x, c) = ToParent(x) + Climb(parent[x], c)
        BY <2>2, <2>4, <3>1, ClimbIs
      <3> QED BY <3>4, <3>6, <3>7, <3>8
    <2> QED BY <2>3, <2>4
  <1> HIDE DEF S
  <1>2. \A x \in Objects : x \in S
    BY <1>1, UpInduction DEF Placing
  <1> QED BY <1>2 DEF S

LEMMA PlacingTransforms == ASSUME Placing PROVE SpacesAgree
  <1> SUFFICES ASSUME NEW c \in Compositions, NEW o \in Compositions \cup Items,
                      Top(c, o) = c, o # c,
                      \A d \in Range(Path(c, o)) \cap Compositions : source[d] = NULL
               PROVE  RangeOfChild(c, o) = TransformedRange(o, TrimmedRange(o), c)
    BY DEF SpacesAgree
  <1>1. o \in Objects /\ o \notin Transitions /\ c \in Objects /\ c \notin Transitions
    BY TimingAssumption DEF Objects
  <1>2. parent[o] # NULL /\ Top(c, parent[o]) = c
    BY <1>1, TopIs DEF Placing
  <1>3. parent[o] \in Compositions /\ parent[o] \in Objects
    BY <1>1, <1>2, ParentsAre
  <1>4. o \in Standing
    BY <1>1, <1>2 DEF Standing
  <1>5. RangeOfChild(c, parent[o]).start = Climb(parent[o], c)
    <2>1. Range(Path(c, o)) = {o} \cup Range(Path(c, parent[o]))
      BY <1>1, <1>2, PathIs
    <2> QED BY <1>2, <1>3, <2>1, NothingOnTheWay
  <1>6. /\ RangeOfChild(c, o) = TimeRange(RangeOfChild(c, o).start, Duration(o))
        /\ RangeOfChild(c, o).start = RangeInParent(o).start + RangeOfChild(c, parent[o]).start
    BY <1>1, <1>2, RangeOfChildIs
  <1>7. /\ Climb(o, c) = ToParent(o) + Climb(parent[o], c) /\ Climb(o, c) \in Int
        /\ Climb(c, c) = 0 /\ Climb(parent[o], c) \in Int
    BY <1>1, <1>2, <1>3, ClimbIs, ParentsAre
  <1>8. /\ ToParent(o) = RangeInParent(o).start - TrimmedRange(o).start
        /\ RangeInParent(o).start \in Int
        /\ TrimmedRange(o).start \in Int /\ TrimmedRange(o).dur = Duration(o)
    BY <1>1, <1>2, <1>4, ToParentIs, TrimmedIsRange
  <1>9. TransformedTime(o, TrimmedRange(o).start, c)
          = TrimmedRange(o).start + Climb(o, c) - Climb(c, c)
    BY DEF TransformedTime
  <1>10. TransformedTime(o, TrimmedRange(o).start, c) = RangeOfChild(c, o).start
    BY <1>5, <1>6, <1>7, <1>8, <1>9
  <1>11. TransformedRange(o, TrimmedRange(o), c) = TimeRange(RangeOfChild(c, o).start, Duration(o))
    BY <1>8, <1>10 DEF TransformedRange
  <1> QED BY <1>6, <1>11

--------------------------------------------------------------------------------
(* What clips show under their transitions.                                    *)

\* In the space of the track a child shows its own range and what the transitions at
\* its sides take of it.
Shows(c, j) ==
    LET k == children[c][j]
        seen == TransformedRange(k, VisibleRange(k), c)
        head == IF j > 1 THEN InOffset(children[c][j - 1]) ELSE 0
        tail == IF j < Len(children[c]) THEN OutOffset(children[c][j + 1]) ELSE 0
    IN  /\ head \in Nat /\ tail \in Nat
        /\ seen.start = RangeOfChildAtIndex(c, j).start - head
        /\ EndExclusive(seen) = EndExclusive(RangeOfChildAtIndex(c, j)) + tail

LEMMA VisibleIs ==
    ASSUME Placing, NEW c \in Tracks, NEW j \in 1..Len(children[c]),
           children[c][j] \notin Transitions
    PROVE  Shows(c, j)
  <1> DEFINE n == Len(children[c])
             k == children[c][j]
             head == IF j > 1 THEN InOffset(children[c][j - 1]) ELSE 0
             tail == IF j < n THEN OutOffset(children[c][j + 1]) ELSE 0
             seen == TransformedRange(k, VisibleRange(k), c)
             r == RangeOfChildAtIndex(c, j)
             first == TrimmedRange(k).start
  <1>1. c \in Compositions /\ n \in Nat
    BY KidsStand DEF Compositions
  <1>2. k \in Objects /\ k \in Standing /\ parent[k] = c /\ c # NULL
    BY <1>1, KidsStand, TimingAssumption DEF Objects
  <1>3. IndexOfChild(parent[k], k) = j
    BY <1>1, <1>2, PositionIs
  <1>4. head \in Nat /\ tail \in Nat
    <2>1. \A i \in 1..n : InOffset(children[c][i]) \in Nat /\ OutOffset(children[c][i]) \in Nat
      BY <1>1, KidsStand, OffsetsAreNats
    <2>2. (j > 1 => j - 1 \in 1..n) /\ (j < n => j + 1 \in 1..n)
      BY <1>1
    <2> QED BY <2>1, <2>2
  <1>5. Handles(k) = [head |-> head, tail |-> tail]
    BY <1>2, <1>3 DEF Handles
  <1>6. RangeInParent(k) = r
    BY <1>1, InParentAt
  <1>7. /\ first \in Int /\ TrimmedRange(k).dur = Duration(k) /\ Duration(k) \in Nat
        /\ r.start \in Int /\ r.dur = Duration(k)
    BY <1>1, <1>2, TrimmedIsRange, DurationOfKind, PlaceIs
  <1>8. ToParent(k) = r.start - first
    BY <1>6 DEF ToParent
  <1> HIDE DEF k, head, tail, seen, r, first
  <1>9. VisibleRange(k) = TimeRange(first - head, Duration(k) + head + tail)
    BY <1>5, <1>7 DEF VisibleRange, first
  <1>10. first - head \in Int
    BY <1>4, <1>7
  <1>11. TransformedTime(k, first - head, c) = (first - head) + ToParent(k)
    <2>1. k \notin Transitions
      BY DEF k
    <2> QED BY <1>1, <1>2, <1>10, <2>1, OneStep
  <1>12. seen.start = TransformedTime(k, first - head, c) /\ seen.dur = Duration(k) + head + tail
    BY <1>9 DEF seen, TransformedRange, TimeRange
  <1>13. seen.start = r.start - head
    BY <1>4, <1>7, <1>8, <1>11, <1>12
  <1>14. EndExclusive(seen) = EndExclusive(r) + tail
    BY <1>4, <1>7, <1>12, <1>13 DEF EndExclusive
  <1> QED BY <1>4, <1>13, <1>14 DEF Shows, k, head, tail, seen, r

LEMMA PlacingCovers == ASSUME Placing PROVE DissolveCovered
  <1> SUFFICES ASSUME NEW c \in Tracks, NEW i \in DOMAIN children[c],
                      Orderly(c), 1 < i, i < Len(children[c]), children[c][i] \in Transitions,
                      NEW k \in {children[c][i - 1], children[c][i + 1]}
               PROVE  LET seen == TransformedRange(k, VisibleRange(k), c)
                          mix == RangeOfChildAtIndex(c, i)
                      IN  seen.start <= mix.start /\ EndExclusive(mix) <= EndExclusive(seen)
    BY DEF DissolveCovered
  <1> DEFINE mix == RangeOfChildAtIndex(c, i)
             before == RangeOfChildAtIndex(c, i - 1)
             after == RangeOfChildAtIndex(c, i + 1)
             t == children[c][i]
             l == children[c][i - 1]
             m == children[c][i + 1]
             w == Laid(c)[i - 2]
             x == Laid(c)[i - 1]
             y == Laid(c)[i]
             z == Laid(c)[i + 1]
             seen(o) == TransformedRange(o, VisibleRange(o), c)
             At(j, o, from, to) ==
                 /\ from \in Int /\ to \in Int /\ Duration(o) \in Nat
                 /\ RangeOfChildAtIndex(c, j).start = from
                 /\ EndExclusive(RangeOfChildAtIndex(c, j)) = to /\ to = from + Duration(o)
  <1>1. DOMAIN children[c] = 1..Len(children[c]) /\ Len(children[c]) \in Nat
    BY KidsStand DEF Compositions
  <1>2. /\ i \in 1..Len(children[c]) /\ i - 1 \in 1..Len(children[c])
        /\ i + 1 \in 1..Len(children[c]) /\ (i - 1) - 1 = i - 2 /\ (i + 1) - 1 = i
        /\ (i - 1) + 1 = i /\ i - 1 < Len(children[c]) /\ i + 1 > 1
    BY <1>1
  <1>3. PlacedInTrack(c, i - 1) /\ PlacedInTrack(c, i) /\ PlacedInTrack(c, i + 1)
    BY <1>2, TrackPlaces
  <1>4. l \notin Transitions /\ InOffset(t) <= Duration(l)
    <2>1. l \notin Transitions /\ offset[t][1] <= Duration(l)
      BY DEF Orderly, TransitionsFit
    <2> QED BY <1>3, <2>1 DEF PlacedInTrack
  <1>5. m \notin Transitions /\ OutOffset(t) <= Duration(m)
    <2>1. offset[t][2] <= Duration(m)
      BY DEF Orderly, TransitionsFit
    <2>2. m \notin Transitions
      <3>1. m \in Transitions => children[c][(i + 1) - 1] \notin Transitions
        BY <1>1, <1>2 DEF Orderly, TransitionsFit
      <3> QED BY <1>2, <3>1
    <2> QED BY <1>3, <2>1, <2>2 DEF PlacedInTrack
  <1>6. Shows(c, i - 1) /\ Shows(c, i + 1)
    BY <1>2, <1>4, <1>5, VisibleIs
  <1>7. At(i - 1, l, w, x) /\ At(i + 1, m, y, z)
    <2>1. Laid(c)[(i - 1) - 1] = w /\ Laid(c)[i - 1] = x /\ Laid(c)[(i + 1) - 1] = y
      BY <1>2
    <2>2. At(i - 1, l, w, x)
      <3> DEFINE q == i - 1
      <3>1. Laid(c)[q - 1] = w /\ Laid(c)[q] = x /\ children[c][q] = l
        BY <2>1
      <3>2. PlacedInTrack(c, q)
        BY <1>3
      <3> HIDE DEF q, w, x, l
      <3>3. At(q, l, w, x)
        BY <1>4, <3>1, <3>2 DEF PlacedInTrack
      <3> QED BY <3>3 DEF q
    <2>3. At(i + 1, m, y, z)
      <3> DEFINE q == i + 1
      <3>1. Laid(c)[q - 1] = y /\ Laid(c)[q] = z /\ children[c][q] = m
        BY <2>1
      <3>2. PlacedInTrack(c, q)
        BY <1>3
      <3> HIDE DEF q, y, z, m
      <3>3. At(q, m, y, z)
        BY <1>5, <3>1, <3>2 DEF PlacedInTrack
      <3> QED BY <3>3 DEF q
    <2> QED BY <2>2, <2>3
  <1>8. /\ InOffset(t) \in Nat /\ OutOffset(t) \in Nat
        /\ mix.start = x - InOffset(t) /\ EndExclusive(mix) = y + OutOffset(t) /\ x = y
    BY <1>3 DEF PlacedInTrack
  <1>9. PICK head \in Nat : /\ seen(l).start = before.start - head
                          /\ EndExclusive(seen(l)) = EndExclusive(before) + OutOffset(t)
    BY <1>2, <1>6 DEF Shows
  <1>10. PICK tail \in Nat : /\ seen(m).start = after.start - InOffset(t)
                           /\ EndExclusive(seen(m)) = EndExclusive(after) + tail
    BY <1>2, <1>6 DEF Shows
  <1>11. /\ seen(l).start <= mix.start /\ EndExclusive(mix) <= EndExclusive(seen(l))
         /\ seen(m).start <= mix.start /\ EndExclusive(mix) <= EndExclusive(seen(m))
    <2> DEFINE in == InOffset(t)
               out == OutOffset(t)
               dl == Duration(l)
               dm == Duration(m)
               a1 == seen(l).start
               a2 == EndExclusive(seen(l))
               b1 == seen(m).start
               b2 == EndExclusive(seen(m))
               m1 == mix.start
               m2 == EndExclusive(mix)
    <2>1. /\ w \in Int /\ x \in Int /\ y \in Int /\ z \in Int /\ dl \in Nat /\ dm \in Nat
          /\ before.start = w /\ EndExclusive(before) = x /\ x = w + dl
          /\ after.start = y /\ EndExclusive(after) = z /\ z = y + dm
      BY <1>3, <1>4, <1>5, <1>7
    <2>2. in \in Nat /\ out \in Nat /\ in <= dl /\ out <= dm
      BY <1>4, <1>5, <1>8
    <2>3. m1 = x - in /\ m2 = y + out /\ x = y
      BY <1>8
    <2>4. a1 = w - head /\ a2 = x + out
      BY <1>9, <2>1
    <2>5. b1 = y - in /\ b2 = z + tail
      BY <1>10, <2>1
    <2>6. head \in Nat /\ tail \in Nat
      OBVIOUS
    <2> HIDE DEF in, out, dl, dm, a1, a2, b1, b2, m1, m2, w, x, y, z
    <2>7. a1 <= m1
      BY ONLY <2>1, <2>2, <2>3, <2>4, <2>6
    <2>8. m2 <= a2
      BY ONLY <2>1, <2>2, <2>3, <2>4, <2>6
    <2>9. b1 <= m1
      BY ONLY <2>1, <2>2, <2>3, <2>5, <2>6
    <2>10. m2 <= b2
      BY ONLY <2>1, <2>2, <2>3, <2>5, <2>6
    <2> QED BY <2>7, <2>8, <2>9, <2>10 DEF a1, a2, b1, b2, m1, m2
  <1> HIDE DEF mix, before, after, t, w, x, y, z, seen
  <1>12. k = l \/ k = m
    OBVIOUS
  <1> HIDE DEF l, m
  <1>13. seen(k).start <= mix.start /\ EndExclusive(mix) <= EndExclusive(seen(k))
    BY <1>11, <1>12
  <1> QED BY <1>13 DEF seen, mix

LEMMA PlacingIsTyped == ASSUME Placing PROVE TypeOK
  <1>1. \A c \in Compositions : Range(children[c]) \subseteq Objects
    BY KidsStand DEF Range
  <1> QED BY <1>1 DEF TypeOK, Placing, Timed

LEMMA PlacingMeans == ASSUME Placing PROVE PlacesAgree
  BY PlacingIsTyped, PlacingAgrees, PlacingExtends, PlacingCovers DEF PlacesAgree

--------------------------------------------------------------------------------
(* What the documentation says of searches and trimming.                       *)

\* In a stack all children start at once, so that only their ends can be out of order.
LEMMA PlacingOrders == ASSUME Placing PROVE StackSearchIsOrdered
  <1> SUFFICES ASSUME NEW c \in Stacks, NEW t \in Frames
               PROVE  LET hit == ShallowChildAtTime(c, t)
                          ends(i) == EndExclusive(RangeOfChildAtIndex(c, i))
                          ordered == \A i, j \in DOMAIN children[c] : i < j => ends(i) <= ends(j)
                      IN  /\ hit # NULL => hit \in ChildrenAtTime(c, t)
                          /\ ordered /\ ChildrenAtTime(c, t) # {} => hit # NULL
    BY DEF StackSearchIsOrdered
  <1> DEFINE n == Len(children[c])
             r == Placed(c)
             hit == ShallowChildAtTime(c, t)
             at == {i \in 1..n : ContainsTime(r[i], t)}
             ends(i) == EndExclusive(RangeOfChildAtIndex(c, i))
             ordered == \A i, j \in DOMAIN children[c] : i < j => ends(i) <= ends(j)
  <1>1. c \in Compositions /\ t \in Int
    BY TimingAssumption DEF Compositions
  <1>2. /\ n \in Nat /\ DOMAIN children[c] = 1..n
        /\ \A i \in 1..n : children[c][i] \in Objects
    BY <1>1, KidsStand
  <1>3. /\ LookedUp(children[c], RangeOfAllChildren(c), r)
        /\ \A i \in 1..n : r[i] = RangeOfChildAtIndex(c, i)
    BY <1>1, MapOfPlaces
  <1>4. FindsFirst(children[c], RangeOfAllChildren(c), r, t, NULL)
    BY <1>1, <1>3, FirstAtFinds
  <1>5. \A i \in 1..n : r[i].start = 0
    BY <1>1, <1>3, PlaceIs
  <1>6. ChildrenAtTime(c, t) = {children[c][i] : i \in at}
    <2>1. {i \in DOMAIN children[c] : ContainsTime(RangeOfChildAtIndex(c, i), t)} = at
      BY <1>2, <1>3
    <2> HIDE DEF at
    <2> QED BY <2>1 DEF ChildrenAtTime
  <1>7. hit # NULL => hit \in ChildrenAtTime(c, t)
    <2>1. \/ hit = NULL
          \/ \E i \in 1..n : hit = children[c][i] /\ ContainsTime(r[i], t)
      BY <1>4 DEF FindsFirst, ShallowChildAtTime
    <2> QED BY <1>6, <2>1
  <1>8. ASSUME ordered, ChildrenAtTime(c, t) # {} PROVE hit # NULL
    <2>1. SortedRanges(r, n)
      <3>1. ASSUME NEW i \in 1..n, NEW j \in 1..n, i <= j
            PROVE  r[i].start <= r[j].start /\ EndExclusive(r[i]) <= EndExclusive(r[j])
        <4>1. r[i].start <= r[j].start
          BY <1>5
        <4>2. CASE i = j
          <5>1. EndExclusive(r[i]) \in Int
            <6>1. r[i].start \in Int /\ r[i].dur \in Int
              BY <1>3 DEF LookedUp
            <6> QED BY <6>1 DEF EndExclusive
          <5> HIDE DEF r
          <5> QED BY <4>1, <4>2, <5>1
        <4>3. CASE i < j
          <5>1. ends(i) <= ends(j)
            BY <1>2, <1>8, <4>3
          <5> QED BY <1>3, <4>1, <5>1
        <4> QED BY <3>1, <4>2, <4>3
      <3> QED BY <3>1 DEF SortedRanges
    <2>2. at # {}
      BY <1>6, <1>8
    <2>3. hit = children[c][Min(at)]
      BY <1>4, <2>1, <2>2 DEF FindsFirst, ShallowChildAtTime
    <2>4. Min(at) \in at
      <3>1. at \in SUBSET Nat
        OBVIOUS
      <3> HIDE DEF at
      <3> QED BY <2>2, <3>1, MinOfNats
    <2>5. Min(at) \in 1..n
      BY <2>4
    <2> HIDE DEF hit, at
    <2> QED BY <1>2, <2>3, <2>5, TimingAssumption
  <1> QED BY <1>7, <1>8

\* A step of trimmed_range_of_child on the way up.
Said(c, o, x) ==
    LET sought == IF x = o THEN o ELSE parent[o]
    IN  IF parent[sought] # parent[x] THEN Failed("NOT_A_CHILD_OF")
        ELSE TrimmedRangeOfChildAtIndex(parent[x], IndexOfChild(parent[x], sought))

\* v is what has been said after each step of the way.
IsSaid(v, c, o, path) ==
    v = [i \in 0..Len(path) |->
            IF i = 0 THEN Answer(NULL)
            ELSE IF v[i - 1].status # "OK" THEN v[i - 1]
            ELSE Joined(v[i - 1], Said(c, o, path[i]))]

\* What trimmed_range_of_child answers is what has been said at the end of the way.
LEMMA TrimmedBySteps ==
    ASSUME NEW c \in Compositions, NEW o, source[c] = NULL
    PROVE  TrimmedRangeOfChild(c, o)
             = LET v == CHOOSE f : IsSaid(f, c, o, Path(c, o)) IN v[Len(Path(c, o))]
  BY DEF TrimmedRangeOfChild, IsSaid, Said

\* What is answered at the end of a way of one or two steps.
EndsWith(c, o, path, answer) ==
    LET v == CHOOSE f : IsSaid(f, c, o, path) IN v[Len(path)] = answer

LEMMA SaidInSteps ==
    ASSUME NEW c, NEW o, NEW path,
           Len(path) = 1 \/ Len(path) = 2,
           NEW a, a = Joined(Answer(NULL), Said(c, o, path[1])), a.status = "OK"
    PROVE  /\ Len(path) = 1 => EndsWith(c, o, path, a)
           /\ Len(path) = 2 => EndsWith(c, o, path, Joined(a, Said(c, o, path[2])))
  <1> DEFINE b == Joined(a, Said(c, o, path[2]))
             w == [i \in 0..Len(path) |-> IF i = 0 THEN Answer(NULL) ELSE IF i = 1 THEN a ELSE b]
             h == CHOOSE f : IsSaid(f, c, o, path)
  <1>1. Answer(NULL).status = "OK"
    BY DEF Answer
  <1>2. IsSaid(w, c, o, path)
    <2>1. CASE Len(path) = 1
      <3>1. 0..Len(path) = {0, 1} /\ 1 - 1 = 0
        BY <2>1
      <3>2. \A i \in {0, 1} : w[i] = IF i = 0 THEN Answer(NULL)
                                      ELSE IF w[i - 1].status # "OK" THEN w[i - 1]
                                      ELSE Joined(w[i - 1], Said(c, o, path[i]))
        BY <1>1, <3>1
      <3>3. w = [i \in {0, 1} |-> w[i]]
        BY <3>1
      <3> HIDE DEF w
      <3> QED BY <3>1, <3>2, <3>3 DEF IsSaid
    <2>2. CASE Len(path) = 2
      <3>1. 0..Len(path) = {0, 1, 2} /\ 1 - 1 = 0 /\ 2 - 1 = 1
        BY <2>2
      <3>2. \A i \in {0, 1, 2} : w[i] = IF i = 0 THEN Answer(NULL)
                                         ELSE IF w[i - 1].status # "OK" THEN w[i - 1]
                                         ELSE Joined(w[i - 1], Said(c, o, path[i]))
        BY <1>1, <3>1
      <3>3. w = [i \in {0, 1, 2} |-> w[i]]
        BY <3>1
      <3> HIDE DEF w
      <3> QED BY <3>1, <3>2, <3>3 DEF IsSaid
    <2> QED BY <2>1, <2>2
  <1> HIDE DEF w, b
  <1>3. IsSaid(h, c, o, path)
    BY <1>2, Zenon
  <1> HIDE DEF h
  <1>4. \A i \in 0..Len(path) : h[i] = IF i = 0 THEN Answer(NULL)
                                       ELSE IF h[i - 1].status # "OK" THEN h[i - 1]
                                       ELSE Joined(h[i - 1], Said(c, o, path[i]))
    BY <1>3 DEF IsSaid
  <1>5. h[1] = a
    <2>1. 0 \in 0..Len(path) /\ 1 \in 0..Len(path) /\ 1 - 1 = 0
      OBVIOUS
    <2>2. h[0] = Answer(NULL)
      BY <1>4, <2>1
    <2> QED BY <1>1, <1>4, <2>1, <2>2
  <1>6. Len(path) = 2 => h[2] = b
    <2>1. Len(path) = 2 => 2 \in 0..Len(path) /\ 2 - 1 = 1
      OBVIOUS
    <2> QED BY <1>4, <1>5, <2>1 DEF b
  <1> QED BY <1>5, <1>6 DEF h, b, EndsWith

\* Where there is no source range a parent says where its child is.
LEMMA SaidIs ==
    ASSUME NullIsNoRange, Placing, NEW c, NEW o, NEW x \in Objects, parent[x] # NULL,
           source[parent[x]] = NULL, x = o \/ (x # o /\ x = parent[o])
    PROVE  Said(c, o, x) = Answer(TimeRange(RangeInParent(x).start, Duration(x)))
  <1>1. parent[x] \in Compositions
    BY ParentsAre
  <1> DEFINE p == parent[x]
             i == IndexOfChild(p, x)
  <1>2. Said(c, o, x) = TrimmedRangeOfChildAtIndex(p, i)
    BY DEF Said
  <1>3. RangeInParent(x) = RangeOfChildAtIndex(p, i)
    BY DEF RangeInParent
  <1>4. children[p][i] = x
    <2>1. PICK j \in 1..Len(children[p]) : children[p][j] = x
      BY InParentIs
    <2>2. i = j
      BY <1>1, <2>1, PositionIs
    <2> QED BY <2>1, <2>2
  <1> DEFINE r == RangeOfChildAtIndex(p, i)
  <1>5. r = TimeRange(r.start, Duration(x))
    BY <1>4 DEF RangeOfChildAtIndex, TimeRange
  <1>6. r # NULL
    BY <1>5 DEF NullIsNoRange
  <1>7. TrimmedRangeOfChildAtIndex(p, i) = TrimmedIn(p, r)
    BY DEF TrimmedRangeOfChildAtIndex
  <1> HIDE DEF r, i
  <1>8. TrimmedIn(p, r) = Answer(r)
    BY <1>6 DEF TrimmedIn, TrimChildRange
  <1> QED BY <1>2, <1>3, <1>5, <1>7, <1>8 DEF r

\* One or two steps add up to range_of_child.
LEMMA PlacingTrimsNothing == ASSUME NullIsNoRange, Placing PROVE NothingToTrim
  <1> SUFFICES ASSUME NEW c \in Compositions, NEW o \in Items,
                      Top(c, o) = c, Len(Path(c, o)) <= 2, \A d \in Compositions : source[d] = NULL
               PROVE  TrimmedRangeOfChild(c, o) = Answer(RangeOfChild(c, o))
    BY DEF NothingToTrim
  <1> DEFINE p == parent[o]
             path == Path(c, o)
             low == TimeRange(RangeInParent(o).start, Duration(o))
             high == TimeRange(RangeInParent(p).start, Duration(p))
  <1>1. o \in Objects /\ o # c /\ o \notin Compositions /\ o \notin Transitions /\ c \in Objects
    BY TimingAssumption DEF Objects
  <1>2. p # NULL /\ p \in Compositions /\ p \in Objects /\ p \notin Transitions /\ Top(c, p) = c
    BY <1>1, TopIs, ParentsAre DEF Placing
  <1>3. path = <<o>> \o Path(c, p) /\ Path(c, p) \in Seq(Objects)
    BY <1>1, <1>2, PathIs
  <1>4. Said(c, o, o) = Answer(low)
    BY <1>1, <1>2, SaidIs
  <1>5. Joined(Answer(NULL), Said(c, o, o)) = Answer(low) /\ Answer(low).status = "OK"
    BY <1>4 DEF Joined, Answer
  <1>6. RangeInParent(o).start \in Int
    BY <1>1, <1>2, InParentIs
  <1>7. /\ RangeOfChild(c, o) = TimeRange(RangeOfChild(c, o).start, Duration(o))
        /\ RangeOfChild(c, o).start = RangeInParent(o).start + RangeOfChild(c, p).start
    BY <1>1, <1>2, RangeOfChildIs
  <1>8. CASE p = c
    <2>1. Path(c, p) = <<>>
      BY <1>2, <1>8, PathIs
    <2>2. path = <<o>> /\ Len(path) = 1 /\ path[1] = o
      BY <1>3, <2>1
    <2>3. TrimmedRangeOfChild(c, o) = Answer(low)
      <3> HIDE DEF path, low, p
      <3>1. EndsWith(c, o, path, Answer(low))
        BY <1>5, <2>2, SaidInSteps
      <3> QED BY <3>1, TrimmedBySteps DEF path, EndsWith
    <2>4. RangeOfChild(c, p).start = 0
      BY <1>2, <1>8, RangeOfChildIs
    <2>5. RangeOfChild(c, o) = low
      BY <1>6, <1>7, <2>4
    <2> QED BY <2>3, <2>5
  <1>9. CASE p # c
    <2> DEFINE q == parent[p]
    <2>1. q # NULL /\ q \in Compositions /\ q \in Objects /\ q \notin Transitions /\ Top(c, q) = c
      BY <1>2, <1>9, TopIs, ParentsAre DEF Placing
    <2>2. Path(c, p) = <<p>> \o Path(c, q) /\ Path(c, q) \in Seq(Objects)
      BY <1>2, <1>9, <2>1, PathIs
    <2>3. q = c
      <3>1. SUFFICES ASSUME q # c PROVE FALSE
        OBVIOUS
      <3>2. parent[q] # NULL /\ parent[q] \in Objects
        BY <2>1, <3>1, TopIs, ParentsAre DEF Placing, Objects
      <3>3. Path(c, q) = <<q>> \o Path(c, parent[q]) /\ Path(c, parent[q]) \in Seq(Objects)
        BY <2>1, <3>1, <3>2, PathIs
      <3> DEFINE z == Path(c, parent[q])
      <3>4. path = <<o>> \o (<<p>> \o (<<q>> \o z)) /\ z \in Seq(Objects)
        BY <1>3, <2>2, <3>3
      <3> HIDE DEF z
      <3>5. Len(path) = 3 + Len(z) /\ Len(z) \in Nat
        <4>1. <<q>> \o z \in Seq(Objects) /\ Len(<<q>> \o z) = 1 + Len(z) /\ Len(z) \in Nat
          BY <2>1, <3>4
        <4> DEFINE y == <<q>> \o z
        <4> HIDE DEF y
        <4>2. <<p>> \o y \in Seq(Objects) /\ Len(<<p>> \o y) = 1 + Len(y)
          BY <1>2, <4>1 DEF y
        <4> DEFINE x == <<p>> \o y
        <4>3. Len(<<o>> \o x) = 1 + Len(x)
          <5> HIDE DEF x
          <5> QED BY <1>1, <4>2 DEF x
        <4> QED BY <3>4, <4>1, <4>2, <4>3 DEF y
      <3> QED BY <3>5
    <2>4. path = <<o>> \o <<p>>
      <3>1. Path(c, q) = <<>>
        BY <2>1, <2>3, PathIs
      <3>2. Path(c, p) = <<p>>
        BY <1>2, <2>2, <3>1
      <3> QED BY <1>3, <3>2
    <2>5. Len(path) = 2 /\ path[1] = o /\ path[2] = p
      <3> HIDE DEF p, path
      <3>1. <<o>> \in Seq(Objects) /\ <<p>> \in Seq(Objects)
        BY <1>1, <1>2
      <3>2. /\ <<o>> \o <<p>> \in Seq(Objects) /\ Len(<<o>> \o <<p>>) = 2
            /\ (<<o>> \o <<p>>)[1] = o /\ (<<o>> \o <<p>>)[2] = p
        BY <3>1
      <3> QED BY <2>4, <3>2
    <2>6. Said(c, o, p) = Answer(high)
      <3>1. p # o
        BY <1>1, <1>2
      <3> HIDE DEF q
      <3> QED BY <1>2, <2>1, <3>1, SaidIs DEF q
    <2>7. TrimmedRangeOfChild(c, o) = Joined(Answer(low), Answer(high))
      <3> HIDE DEF path, low, high, p
      <3>1. EndsWith(c, o, path, Joined(Answer(low), Said(c, o, path[2])))
        <4> DEFINE a == Answer(low)
        <4>1. a = Joined(Answer(NULL), Said(c, o, path[1])) /\ a.status = "OK"
          BY <1>5, <2>5
        <4> HIDE DEF a
        <4>2. EndsWith(c, o, path, Joined(a, Said(c, o, path[2])))
          BY <2>5, <4>1, SaidInSteps
        <4> QED BY <4>2 DEF a
      <3> QED BY <2>5, <2>6, <3>1, TrimmedBySteps DEF path, EndsWith
    <2>8. low # NULL
      BY DEF NullIsNoRange
    <2>9. Joined(Answer(low), Answer(high))
            = Answer(TimeRange(RangeInParent(o).start + RangeInParent(p).start, Duration(o)))
      BY <2>8 DEF Joined, Answer, TimeRange
    <2>10. RangeOfChild(c, p).start = RangeInParent(p).start
      <3>1. RangeOfChild(c, p).start = RangeInParent(p).start + RangeOfChild(c, q).start
        BY <1>2, <1>9, <2>1, RangeOfChildIs
      <3>2. RangeOfChild(c, q).start = 0
        BY <2>1, <2>3, RangeOfChildIs
      <3>3. RangeInParent(p).start \in Int
        BY <1>2, <2>1, InParentIs
      <3> QED BY <3>1, <3>2, <3>3
    <2> QED BY <1>7, <2>7, <2>9, <2>10
  <1> QED BY <1>8, <1>9

\* Lists of children of c.
ChildrenOf(c) == {q \in Seq(Objects) : \A i \in 1..Len(q) : parent[q[i]] = c}

\* A child may be added.
LEMMA OneMoreChild ==
    ASSUME NEW c, NEW q \in ChildrenOf(c), NEW k \in Objects, parent[k] = c
    PROVE  Append(q, k) \in ChildrenOf(c)
  <1> DEFINE r == Append(q, k)
  <1>1. q \in Seq(Objects) /\ \A i \in 1..Len(q) : parent[q[i]] = c
    BY DEF ChildrenOf
  <1>2. /\ r \in Seq(Objects) /\ Len(r) = Len(q) + 1 /\ Len(q) \in Nat
        /\ r[Len(q) + 1] = k /\ \A i \in 1..Len(q) : r[i] = q[i]
    BY <1>1
  <1> HIDE DEF r
  <1>3. ASSUME NEW i \in 1..Len(r) PROVE parent[r[i]] = c
    <2>1. i \in 1..Len(q) \/ i = Len(q) + 1
      BY <1>2
    <2> QED BY <1>1, <1>2, <2>1
  <1>4. r \in ChildrenOf(c)
    BY <1>2, <1>3 DEF ChildrenOf
  <1> QED BY <1>4 DEF r

\* A search for a range finds children of the composition.
LEMMA InRangeAreChildren ==
    ASSUME Placing, NEW c \in Compositions, NEW s \in [start : Int, dur : Nat]
    PROVE  ChildrenInRange(c, s) \in ChildrenOf(c)
  <1> DEFINE kids == children[c]
             n == Len(kids)
  <1>1. /\ kids \in Seq(Objects) /\ n \in Nat /\ DOMAIN kids = 1..n
        /\ \A i \in 1..n : kids[i] \in Objects /\ parent[kids[i]] = c
    BY KidsStand
  <1>2. CASE c \in Tracks
    <2> DEFINE map == RangeOfAllChildren(c)
               ends == [i \in 1..n |-> EndInclusive(map[kids[i]])]
               starts == [i \in 1..n |-> map[kids[i]].start]
               a == BisectLeft(ends, s.start)
               b == BisectRight(starts, EndInclusive(s), a)
    <2>1. ChildrenInRange(c, s) = Between(kids, ends, starts, s.start, EndInclusive(s))
      BY <1>1, <1>2 DEF ChildrenInRange, AllIn, Starts
    <2>2. \A i \in 1..n : map[kids[i]].start \in Int /\ map[kids[i]].dur \in Int
      BY MapOfPlaces DEF LookedUp
    <2>3. \A r : r.start \in Int /\ r.dur \in Int => EndInclusive(r) \in Int
      BY DEF EndInclusive, EndExclusive
    <2>4. /\ ends \in [1..n -> Int] /\ starts \in [1..n -> Int]
          /\ EndInclusive(s) \in Int /\ s.start \in Int
      <3>1. s.start \in Int /\ s.dur \in Int
        OBVIOUS
      <3> HIDE DEF map
      <3> QED BY <2>2, <2>3, <3>1
    <2> HIDE DEF ends, starts, kids, n
    <2>5. LeavesSlice(kids, n, ends, starts, s.start, EndInclusive(s))
      BY <1>1, <2>4, BetweenIsSlice DEF n
    <2>6. /\ a \in 0..n /\ b \in 0..n /\ a <= b
          /\ ChildrenInRange(c, s) = SubSeq(kids, a + 1, b)
      BY <2>1, <2>5 DEF LeavesSlice
    <2> HIDE DEF a, b
    <2> DEFINE w == SubSeq(kids, a + 1, b)
    <2>7. /\ w \in Seq(Objects) /\ Len(w) = b - a
          /\ \A i \in 1..(b - a) : a + i \in 1..n /\ w[i] = kids[a + i]
      BY <1>1, <2>6, SliceElements DEF n
    <2> HIDE DEF w
    <2>8. w \in ChildrenOf(c)
      BY <1>1, <2>7 DEF ChildrenOf
    <2> QED BY <2>6, <2>8 DEF w
  <1>3. CASE c \notin Tracks
    <2> DEFINE touches(r) == r # NULL /\ Intersects(r, s)
               meets(k) == k \notin Transitions /\ touches(TrimmedRangeOfChild(c, k).range)
               Loop(m) == m = [i \in 0..n |-> IF i = 0 THEN <<>>
                                              ELSE IF meets(kids[i]) THEN Append(m[i - 1], kids[i])
                                              ELSE m[i - 1]]
               h == CHOOSE m : Loop(m)
               A == ChildrenOf(c)
               G == [j \in 1..n |-> [q \in A |-> IF meets(kids[j]) THEN Append(q, kids[j]) ELSE q]]
    <2>1. ChildrenInRange(c, s) = h[n]
      BY <1>3 DEF ChildrenInRange
    <2> HIDE DEF meets, kids, n
    <2>2. <<>> \in A
      BY DEF ChildrenOf
    <2>3. G \in [1..n -> [A -> A]]
      <3>1. ASSUME NEW j \in 1..n, NEW q \in A PROVE Append(q, kids[j]) \in A
        BY <1>1, OneMoreChild
      <3> HIDE DEF A
      <3> QED BY <3>1
    <2>4. PICK f : IsLoop(f, n, A, <<>>, G)
      <3> HIDE DEF A, G
      <3> QED BY <1>1, <2>2, <2>3, LoopRuns
    <2>5. /\ f \in [0..n -> A] /\ f[0] = <<>>
          /\ \A j \in 1..n : f[j] = IF meets(kids[j]) THEN Append(f[j - 1], kids[j]) ELSE f[j - 1]
      <3>1. \A j \in 1..n : j - 1 \in 0..n
        BY <1>1
      <3>2. /\ f \in [0..n -> A] /\ f[0] = <<>> /\ \A j \in 1..n : f[j] = G[j][f[j - 1]]
        BY <2>4 DEF IsLoop
      <3> HIDE DEF A
      <3> QED BY <3>1, <3>2
    <2>6. Loop(f)
      <3>1. \A i \in 0..n : f[i] = IF i = 0 THEN <<>>
                                   ELSE IF meets(kids[i]) THEN Append(f[i - 1], kids[i])
                                   ELSE f[i - 1]
        <4>1. ASSUME NEW i \in 0..n, i # 0
              PROVE  f[i] = IF meets(kids[i]) THEN Append(f[i - 1], kids[i]) ELSE f[i - 1]
          <5>1. i \in 1..n
            BY <1>1, <4>1
          <5> QED BY <2>5, <5>1
        <4> QED BY <2>5, <4>1
      <3>2. f = [i \in 0..n |-> f[i]]
        BY <2>5
      <3> QED BY <3>1, <3>2
    <2>7. Loop(h)
      <3>1. \E m : Loop(m)
        <4> HIDE DEF Loop
        <4> QED BY <2>6, Zenon
      <3> HIDE DEF Loop
      <3> QED BY <3>1, Zenon
    <2> HIDE DEF h
    <2>8. \A i \in 0..n : h[i] = IF i = 0 THEN <<>>
                                 ELSE IF meets(kids[i]) THEN Append(h[i - 1], kids[i])
                                 ELSE h[i - 1]
      BY <2>7
    <2> DEFINE S == {i \in 0..n : h[i] \in A}
    <2>9. 0 \in S
      <3> HIDE DEF A
      <3> QED BY <1>1, <2>2, <2>8
    <2>10. ASSUME NEW j \in 1..n, j - 1 \in S PROVE j \in S
      <3>1. Append(h[j - 1], kids[j]) \in A
        <4>1. h[j - 1] \in A /\ kids[j] \in Objects /\ parent[kids[j]] = c
          BY <1>1, <2>10
        <4> QED BY <4>1, OneMoreChild
      <3> HIDE DEF A
      <3> QED BY <2>8, <2>10, <3>1
    <2> HIDE DEF S
    <2>11. n \in S
      <3>1. \A j \in 0..n : j \in S
        BY <1>1, <2>9, <2>10, Rounds
      <3> QED BY <1>1, <3>1
    <2> QED BY <2>1, <2>11 DEF S
  <1> QED BY <1>2, <1>3

\* What find_children is called for and what it has found after each turn.
Searched == Compositions \X Int
Found == [at : Int, out : Seq(Objects)]

\* v is what the loop of one call has found after each turn, find what is found below.
IsVisit(v, c, found, at, find) ==
    v = [i \in 0..Len(found) |-> IF i = 0 THEN [at |-> at, out |-> <<>>]
                                 ELSE Visited(c, v[i - 1], found[i], find)]

VisitOf(c, found, at, find) ==
    LET v == CHOOSE f : IsVisit(f, c, found, at, find) IN v[Len(found)].out

IsSearch(find, dur) ==
    find = [p \in Compositions \X Int |->
               VisitOf(p[1], ChildrenInRange(p[1], TimeRange(p[2], dur)), p[2], find)]

\* find_children is the visit of what children_in_range finds.
LEMMA SearchIsVisits ==
    ASSUME NEW c, NEW s
    PROVE  FindChildren(c, s) = (CHOOSE find : IsSearch(find, s.dur))[<<c, s.start>>]
  BY DEF FindChildren, VisitOf, IsVisit, IsSearch

\* One turn of the loop over the children that were found.
LEMMA VisitedIs ==
    ASSUME Placing, NEW c \in Compositions, NEW k \in Objects, parent[k] = c,
           NEW acc \in Found, NEW find \in [Searched -> Seq(Objects)]
    PROVE  /\ Visited(c, acc, k, find) \in Found
           /\ k \in Compositions => /\ <<k, TransformedTime(c, acc.at, k)>> \in Searched
                                    /\ TransformedTime(c, acc.at, k) \in Int
  <1> DEFINE u == TransformedTime(c, acc.at, k)
             p == <<k, u>>
  <1>1. acc.at \in Int /\ acc.out \in Seq(Objects)
    BY DEF Found
  <1>2. CASE k \in Compositions
    <2>1. k \notin Transitions
      BY <1>2, TimingAssumption
    <2>2. u = acc.at - ToParent(k) /\ ToParent(k) \in Int
      BY <1>1, <2>1, OneStep
    <2>3. u \in Int
      <3> HIDE DEF u
      <3> QED BY <1>1, <2>2
    <2>4. p \in Searched
      BY <1>2, <2>3 DEF Searched
    <2>5. Visited(c, acc, k, find) = [at |-> u, out |-> acc.out \o find[p]]
      BY <1>2 DEF Visited
    <2> HIDE DEF u, p
    <2>6. find[p] \in Seq(Objects)
      BY <2>4
    <2>7. acc.out \o find[p] \in Seq(Objects)
      BY <1>1, <2>6
    <2> QED BY <2>3, <2>4, <2>5, <2>7 DEF Found, u, p
  <1>3. CASE k \in Items /\ k \notin Compositions
    <2>1. Visited(c, acc, k, find) = [at |-> acc.at, out |-> Append(acc.out, k)]
      BY <1>3 DEF Visited
    <2>2. Append(acc.out, k) \in Seq(Objects)
      BY <1>1
    <2> QED BY <1>1, <1>3, <2>1, <2>2 DEF Found
  <1>4. CASE k \notin Items /\ k \notin Compositions
    BY <1>4 DEF Visited
  <1> QED BY <1>2, <1>3, <1>4

\* The loop comes to its end.
VisitRuns(v, c, found, at, find) ==
    /\ v \in [0..Len(found) -> Found]
    /\ v[0] = [at |-> at, out |-> <<>>]
    /\ \A j \in 1..Len(found) : v[j] = Visited(c, v[j - 1], found[j], find)
    /\ VisitOf(c, found, at, find) = v[Len(found)].out

LEMMA VisitIs ==
    ASSUME Placing, NEW c \in Compositions, NEW found \in ChildrenOf(c), NEW at \in Int,
           NEW find \in [Searched -> Seq(Objects)]
    PROVE  \E v : VisitRuns(v, c, found, at, find)
  <1> DEFINE n == Len(found)
             a == [at |-> at, out |-> <<>>]
             G == [j \in 1..n |-> [acc \in Found |-> Visited(c, acc, found[j], find)]]
             Loop(f) == IsVisit(f, c, found, at, find)
             h == CHOOSE f : Loop(f)
  <1>1. /\ n \in Nat /\ \A j \in 1..n : found[j] \in Objects /\ parent[found[j]] = c
    BY DEF ChildrenOf
  <1>2. a \in Found
    BY DEF Found
  <1> HIDE DEF n
  <1>3. \A j \in 1..n : \A acc \in Found : Visited(c, acc, found[j], find) \in Found
    BY <1>1, VisitedIs
  <1>4. PICK f : IsLoop(f, n, Found, a, G)
    <2>1. G \in [1..n -> [Found -> Found]]
      BY <1>3
    <2> HIDE DEF a, G
    <2> QED BY <1>1, <1>2, <2>1, LoopRuns
  <1> HIDE DEF a
  <1>5. /\ f \in [0..n -> Found] /\ f[0] = a
        /\ \A j \in 1..n : f[j] = Visited(c, f[j - 1], found[j], find)
    <2>1. \A j \in 1..n : j - 1 \in 0..n
      BY <1>1
    <2>2. /\ f \in [0..n -> Found] /\ f[0] = a /\ \A j \in 1..n : f[j] = G[j][f[j - 1]]
      BY <1>4 DEF IsLoop
    <2> QED BY <2>1, <2>2
  <1>6. Loop(f)
    <2>1. ASSUME NEW i \in 0..n, i # 0 PROVE f[i] = Visited(c, f[i - 1], found[i], find)
      <3>1. i \in 1..n
        BY <1>1, <2>1
      <3> QED BY <1>5, <3>1
    <2>2. f = [i \in 0..n |-> IF i = 0 THEN a ELSE Visited(c, f[i - 1], found[i], find)]
      <3>1. f = [i \in 0..n |-> f[i]]
        BY <1>5
      <3> QED BY <1>5, <2>1, <3>1
    <2> QED BY <2>2 DEF IsVisit, a, n
  <1>7. Loop(h)
    <2>1. \E g : Loop(g)
      <3> HIDE DEF Loop
      <3> QED BY <1>6, Zenon
    <2> HIDE DEF Loop
    <2> QED BY <2>1, Zenon
  <1>8. VisitOf(c, found, at, find) = h[n].out
    BY DEF VisitOf, n
  <1> HIDE DEF h
  <1>9. h = [i \in 0..n |-> IF i = 0 THEN a ELSE Visited(c, h[i - 1], found[i], find)]
    BY <1>7 DEF IsVisit, a, n
  <1>10. h[0] = a /\ \A j \in 1..n : h[j] = Visited(c, h[j - 1], found[j], find)
    <2>1. \A i \in 0..n : h[i] = IF i = 0 THEN a ELSE Visited(c, h[i - 1], found[i], find)
      BY <1>9
    <2>2. 0 \in 0..n /\ \A j \in 1..n : j \in 0..n /\ j # 0
      BY <1>1
    <2> QED BY <2>1, <2>2
  <1> DEFINE S == {i \in 0..n : h[i] \in Found}
  <1>11. 0 \in S
    BY <1>1, <1>2, <1>10
  <1>12. ASSUME NEW j \in 1..n, j - 1 \in S PROVE j \in S
    BY <1>3, <1>10, <1>12
  <1> HIDE DEF S
  <1>13. \A i \in 0..n : i \in S
    BY <1>1, <1>11, <1>12, Rounds
  <1>14. h \in [0..n -> Found]
    <2>1. h = [i \in 0..n |-> h[i]]
      BY <1>9, <1>10
    <2> QED BY <1>13, <2>1 DEF S
  <1>15. VisitRuns(h, c, found, at, find)
    BY <1>8, <1>10, <1>14 DEF VisitRuns, a, n
  <1> QED BY <1>15, Zenon

\* What the loop finds depends on what is found in the children only.
LEMMA VisitsAgree ==
    ASSUME Placing, NEW c \in Compositions, NEW found \in ChildrenOf(c), NEW at \in Int,
           NEW f \in [Searched -> Seq(Objects)], NEW g,
           \A q \in Searched : parent[q[1]] = c => f[q] = g[q]
    PROVE  /\ VisitOf(c, found, at, f) = VisitOf(c, found, at, g)
           /\ VisitOf(c, found, at, f) \in Seq(Objects)
  <1> DEFINE n == Len(found)
             a == [at |-> at, out |-> <<>>]
             Loop(w) == IsVisit(w, c, found, at, g)
             h == CHOOSE w : Loop(w)
  <1>1. /\ n \in Nat /\ \A j \in 1..n : found[j] \in Objects /\ parent[found[j]] = c
    BY DEF ChildrenOf
  <1>2. PICK v : VisitRuns(v, c, found, at, f)
    BY VisitIs
  <1>3. /\ v \in [0..n -> Found] /\ v[0] = a
        /\ \A j \in 1..n : v[j] = Visited(c, v[j - 1], found[j], f)
        /\ VisitOf(c, found, at, f) = v[n].out
    BY <1>2 DEF VisitRuns
  <1> HIDE DEF n, a
  <1>4. ASSUME NEW j \in 1..n PROVE v[j] = Visited(c, v[j - 1], found[j], g)
    <2> DEFINE acc == v[j - 1]
               k == found[j]
               q == <<k, TransformedTime(c, acc.at, k)>>
    <2>1. acc \in Found /\ k \in Objects /\ parent[k] = c
      <3>1. j - 1 \in 0..n
        BY <1>1
      <3> QED BY <1>1, <1>3, <3>1
    <2>2. v[j] = Visited(c, acc, k, f)
      BY <1>3
    <2> HIDE DEF acc, k
    <2>3. k \in Compositions => q \in Searched /\ q[1] = k
      BY <2>1, VisitedIs
    <2>4. k \in Compositions => f[q] = g[q]
      <3> HIDE DEF q
      <3> QED BY <2>1, <2>3
    <2>5. Visited(c, acc, k, f) = Visited(c, acc, k, g)
      BY <2>4 DEF Visited
    <2> QED BY <2>2, <2>5 DEF acc, k
  <1>5. Loop(v)
    <2>1. ASSUME NEW i \in 0..n, i # 0 PROVE v[i] = Visited(c, v[i - 1], found[i], g)
      <3>1. i \in 1..n
        BY <1>1, <2>1
      <3> QED BY <1>4, <3>1
    <2>2. v = [i \in 0..n |-> IF i = 0 THEN a ELSE Visited(c, v[i - 1], found[i], g)]
      <3>1. v = [i \in 0..n |-> v[i]]
        BY <1>3
      <3> QED BY <1>3, <2>1, <3>1
    <2> QED BY <2>2 DEF IsVisit, a, n
  <1>6. Loop(h)
    <2>1. \E w : Loop(w)
      <3> HIDE DEF Loop
      <3> QED BY <1>5, Zenon
    <2> HIDE DEF Loop
    <2> QED BY <2>1, Zenon
  <1>7. VisitOf(c, found, at, g) = h[n].out
    BY DEF VisitOf, n
  <1> HIDE DEF h
  <1>8. h[0] = a /\ \A j \in 1..n : h[j] = Visited(c, h[j - 1], found[j], g)
    <2>1. h = [i \in 0..n |-> IF i = 0 THEN a ELSE Visited(c, h[i - 1], found[i], g)]
      BY <1>6 DEF IsVisit, a, n
    <2>2. \A i \in 0..n : h[i] = IF i = 0 THEN a ELSE Visited(c, h[i - 1], found[i], g)
      BY <2>1
    <2>3. 0 \in 0..n /\ \A j \in 1..n : j \in 0..n /\ j # 0
      BY <1>1
    <2> QED BY <2>2, <2>3
  <1> HIDE DEF Loop
  <1> DEFINE S == {i \in 0..n : v[i] = h[i]}
  <1>9. 0 \in S
    BY <1>1, <1>3, <1>8
  <1>10. ASSUME NEW j \in 1..n, j - 1 \in S PROVE j \in S
    BY <1>4, <1>8, <1>10
  <1> HIDE DEF S
  <1>11. n \in S
    <2>1. \A i \in 0..n : i \in S
      BY <1>1, <1>9, <1>10, Rounds
    <2> QED BY <1>1, <2>1
  <1>12. v[n] = h[n] /\ v[n] \in Found
    BY <1>1, <1>3, <1>11 DEF S
  <1> QED BY <1>3, <1>7, <1>12 DEF Found

\* What there is to find at any time below any composition.
Searches(find, dur) ==
    /\ find \in [Searched -> Seq(Objects)]
    /\ \A c \in Compositions, at \in Int :
           /\ find[<<c, at>>] = FindChildren(c, TimeRange(at, dur))
           /\ find[<<c, at>>] = VisitOf(c, ChildrenInRange(c, TimeRange(at, dur)), at, find)

\* The recursion comes to its end, because the hierarchy has no cycle.
LEMMA SearchRuns ==
    ASSUME Placing, NEW dur \in Nat
    PROVE  \E find : Searches(find, dur)
  <1> DEFINE A == Seq(Objects)
             found(p) == ChildrenInRange(p[1], TimeRange(p[2], dur))
             G == [p \in Searched |-> [f \in [Searched -> A] |->
                      VisitOf(p[1], found(p), p[2], f)]]
             Loop(f) == IsSearch(f, dur)
             h == CHOOSE f : Loop(f)
  <1>1. PICK m \in Nat : \E rank : Rising(rank, m)
    BY DEF Placing, Ranked
  <1>2. PICK rank : Rising(rank, m)
    BY <1>1
  <1> DEFINE low == [p \in Searched |-> rank[p[1]]]
  <1>3. ASSUME NEW p \in Searched
        PROVE  p[1] \in Compositions /\ p[2] \in Int /\ found(p) \in ChildrenOf(p[1])
    <2>1. p[1] \in Compositions /\ p[2] \in Int
      BY DEF Searched
    <2>2. TimeRange(p[2], dur) \in [start : Int, dur : Nat]
      BY <2>1 DEF TimeRange
    <2> QED BY <2>1, <2>2, InRangeAreChildren
  <1> HIDE DEF found
  <1>4. ASSUME NEW p \in Searched, NEW f \in [Searched -> A], NEW g \in [Searched -> A],
               \A q \in Searched : low[q] < low[p] => f[q] = g[q]
        PROVE  VisitOf(p[1], found(p), p[2], f) = VisitOf(p[1], found(p), p[2], g)
    <2>1. ASSUME NEW q \in Searched, parent[q[1]] = p[1] PROVE f[q] = g[q]
      <3>1. q[1] \in Objects /\ parent[q[1]] # NULL /\ p[1] \in Objects
        BY <1>3, <2>1, TimingAssumption DEF Objects
      <3>2. rank[q[1]] < rank[p[1]]
        BY <1>2, <2>1, <3>1 DEF Rising
      <3>3. low[q] < low[p]
        BY <3>2
      <3> HIDE DEF low
      <3> QED BY <1>4, <3>3
    <2> DEFINE d == p[1]
               t == p[2]
               w == found(p)
    <2>2. d \in Compositions /\ t \in Int /\ w \in ChildrenOf(d)
      BY <1>3
    <2>3. \A q \in Searched : parent[q[1]] = d => f[q] = g[q]
      BY <2>1
    <2> HIDE DEF d, t, w
    <2>4. VisitOf(d, w, t, f) = VisitOf(d, w, t, g)
      BY <2>2, <2>3, VisitsAgree
    <2> QED BY <2>4 DEF d, t, w
  <1>5. \A p \in Searched : \A f \in [Searched -> A] : VisitOf(p[1], found(p), p[2], f) \in A
    BY <1>3, VisitsAgree
  <1>6. Lowers(G, Searched, A, low, m)
    <2>1. low \in [Searched -> 0..m]
      BY <1>2, <1>3 DEF Rising, Objects
    <2>2. G \in [Searched -> [[Searched -> A] -> A]]
      BY <1>5
    <2>3. ASSUME NEW p \in Searched, NEW f \in [Searched -> A], NEW g \in [Searched -> A],
                 \A q \in Searched : low[q] < low[p] => f[q] = g[q]
          PROVE  G[p][f] = G[p][g]
      <3> HIDE DEF low
      <3> QED BY <1>4, <2>3
    <2> HIDE DEF A, G, low
    <2> QED BY <2>1, <2>2, <2>3 DEF Lowers
  <1>7. PICK g : IsRecursion(g, Searched, A, G)
    <2>1. <<>> \in A
      OBVIOUS
    <2> HIDE DEF A, G, low
    <2>2. \E g : IsRecursion(g, Searched, A, G)
      BY <1>6, <2>1, RecursionRuns
    <2> QED BY <2>2
  <1>8. Loop(g)
    <2>1. g \in [Searched -> A] /\ \A p \in Searched : g[p] = G[p][g]
      BY <1>7 DEF IsRecursion
    <2>2. \A p \in Searched : g[p] = VisitOf(p[1], found(p), p[2], g)
      BY <2>1
    <2>3. g = [p \in Searched |-> VisitOf(p[1], found(p), p[2], g)]
      BY <2>1, <2>2
    <2> QED BY <2>3 DEF IsSearch, Searched, found
  <1>9. Loop(h)
    <2>1. \E f : Loop(f)
      <3> HIDE DEF Loop
      <3> QED BY <1>8, Zenon
    <2> HIDE DEF Loop
    <2> QED BY <2>1, Zenon
  <1>10. \A c, at : FindChildren(c, TimeRange(at, dur)) = h[<<c, at>>]
    <2>1. ASSUME NEW c, NEW at PROVE FindChildren(c, TimeRange(at, dur)) = h[<<c, at>>]
      <3> DEFINE s == TimeRange(at, dur)
      <3>1. s.start = at /\ s.dur = dur
        BY DEF TimeRange
      <3> HIDE DEF s
      <3>2. FindChildren(c, s) = (CHOOSE find : IsSearch(find, s.dur))[<<c, s.start>>]
        BY SearchIsVisits
      <3> QED BY <3>1, <3>2 DEF s
    <2> QED BY <2>1
  <1> HIDE DEF h
  <1>11. h = [p \in Searched |-> VisitOf(p[1], found(p), p[2], h)]
    BY <1>9 DEF IsSearch, Searched, found
  <1> DEFINE S == {x \in Objects : x \in Compositions => \A u \in Int : h[<<x, u>>] = g[<<x, u>>]}
  <1>12. ASSUME NEW x \in Objects, \A y \in Objects : parent[y] = x => y \in S PROVE x \in S
    <2>1. SUFFICES ASSUME x \in Compositions, NEW u \in Int PROVE h[<<x, u>>] = g[<<x, u>>]
      OBVIOUS
    <2> DEFINE p == <<x, u>>
    <2>2. p \in Searched /\ p[1] = x
      BY <2>1 DEF Searched
    <2> HIDE DEF p
    <2>3. ASSUME NEW q \in Searched, parent[q[1]] = x PROVE g[q] = h[q]
      <3>1. q[1] \in Compositions /\ q[1] \in Objects /\ q[2] \in Int /\ q = <<q[1], q[2]>>
        BY DEF Searched, Objects
      <3>2. \A v \in Int : h[<<q[1], v>>] = g[<<q[1], v>>]
        BY <1>12, <2>3, <3>1
      <3>3. h[<<q[1], q[2]>>] = g[<<q[1], q[2]>>]
        BY <3>1, <3>2
      <3> QED BY <3>1, <3>3
    <2>4. g \in [Searched -> Seq(Objects)]
      BY <1>7 DEF IsRecursion
    <2>5. VisitOf(p[1], found(p), p[2], g) = VisitOf(p[1], found(p), p[2], h)
      <3> DEFINE d == p[1]
                 t == p[2]
                 w == found(p)
      <3>1. d \in Compositions /\ t \in Int /\ w \in ChildrenOf(d)
        BY <1>3, <2>2
      <3>2. \A q \in Searched : parent[q[1]] = d => g[q] = h[q]
        BY <2>2, <2>3
      <3> HIDE DEF d, t, w, h
      <3>3. VisitOf(d, w, t, g) = VisitOf(d, w, t, h)
        BY <2>4, <3>1, <3>2, VisitsAgree
      <3> QED BY <3>3 DEF d, t, w
    <2>6. h[p] = VisitOf(p[1], found(p), p[2], h)
      BY <1>11, <2>2
    <2>7. g[p] = VisitOf(p[1], found(p), p[2], g)
      <3> HIDE DEF low
      <3> QED BY <1>7, <2>2 DEF IsRecursion
    <2> QED BY <2>5, <2>6, <2>7 DEF p
  <1>13. \A x \in Objects : x \in S
    <2> HIDE DEF S
    <2> QED BY <1>12, DownInduction DEF Placing
  <1>14. h = g
    <2>1. ASSUME NEW q \in Searched PROVE h[q] = g[q]
      <3>1. q[1] \in Compositions /\ q[1] \in Objects /\ q[2] \in Int /\ q = <<q[1], q[2]>>
        BY DEF Searched, Objects
      <3>2. h[<<q[1], q[2]>>] = g[<<q[1], q[2]>>]
        BY <1>13, <3>1
      <3> QED BY <3>1, <3>2
    <2>2. g = [q \in Searched |-> g[q]]
      BY <1>7 DEF IsRecursion
    <2>3. h = [q \in Searched |-> h[q]]
      BY <1>11
    <2> QED BY <2>1, <2>2, <2>3
  <1>15. h \in [Searched -> Seq(Objects)]
    BY <1>7, <1>14 DEF IsRecursion
  <1>16. ASSUME NEW c \in Compositions, NEW at \in Int
         PROVE  h[<<c, at>>] = VisitOf(c, ChildrenInRange(c, TimeRange(at, dur)), at, h)
    <2> DEFINE p == <<c, at>>
    <2>1. p \in Searched /\ p[1] = c /\ p[2] = at
      BY DEF Searched
    <2>2. h[p] = VisitOf(p[1], found(p), p[2], h)
      <3> HIDE DEF p
      <3> QED BY <1>11, <2>1
    <2> HIDE DEF p
    <2>3. found(p) = ChildrenInRange(c, TimeRange(at, dur))
      BY <2>1 DEF found
    <2> QED BY <2>1, <2>2, <2>3 DEF p
  <1>17. Searches(h, dur)
    BY <1>10, <1>15, <1>16 DEF Searches
  <1> QED BY <1>17, Zenon

\* What is in lists put together.
LEMMA RangeOfAppend ==
    ASSUME NEW T, NEW s \in Seq(T), NEW t \in Seq(T), NEW e \in T
    PROVE  Range(s \o t) = Range(s) \cup Range(t) /\ Range(Append(s, e)) = Range(s) \cup {e}
  <1>1. Range(s \o t) = Range(s) \cup Range(t)
    <2> DEFINE w == s \o t
               m == Len(s)
               n == Len(t)
    <2>1. /\ m \in Nat /\ n \in Nat /\ DOMAIN s = 1..m /\ DOMAIN t = 1..n /\ DOMAIN w = 1..(m + n)
          /\ \A i \in 1..m : w[i] = s[i]
          /\ \A i \in (m + 1)..(m + n) : w[i] = t[i - m]
      OBVIOUS
    <2>2. \A i \in 1..n : m + i \in (m + 1)..(m + n) /\ (m + i) - m = i
      BY <2>1
    <2>3. \A i \in 1..n : w[m + i] = t[i] /\ m + i \in 1..(m + n)
      <3> HIDE DEF w, m, n
      <3>1. \A i \in 1..n : m + i \in 1..(m + n)
        BY <2>1
      <3> QED BY <2>1, <2>2, <3>1
    <2>4. \A i \in 1..(m + n) : i \in 1..m \/ (i \in (m + 1)..(m + n) /\ i - m \in 1..n)
      BY <2>1
    <2>5. 1..m \subseteq 1..(m + n)
      BY <2>1
    <2> HIDE DEF w, m, n
    <2>6. Range(w) \subseteq Range(s) \cup Range(t)
      BY <2>1, <2>4 DEF Range
    <2>7. Range(s) \subseteq Range(w)
      BY <2>1, <2>5 DEF Range
    <2>8. Range(t) \subseteq Range(w)
      <3>1. ASSUME NEW x \in Range(t) PROVE x \in Range(w)
        <4>1. PICK i \in 1..n : x = t[i]
          BY <2>1 DEF Range
        <4>2. m + i \in DOMAIN w /\ w[m + i] = x
          BY <2>1, <2>3, <4>1
        <4> QED BY <4>2 DEF Range
      <3> QED BY <3>1
    <2> QED BY <2>6, <2>7, <2>8 DEF w
  <1>2. Range(Append(s, e)) = Range(s) \cup {e}
    <2> DEFINE w == Append(s, e)
               m == Len(s)
    <2>1. /\ m \in Nat /\ DOMAIN s = 1..m /\ DOMAIN w = 1..(m + 1)
          /\ w[m + 1] = e /\ \A i \in 1..m : w[i] = s[i]
      OBVIOUS
    <2> HIDE DEF w, m
    <2>2. 1..m \subseteq 1..(m + 1) /\ m + 1 \in 1..(m + 1)
          /\ \A i \in 1..(m + 1) : i \in 1..m \/ i = m + 1
      BY <2>1
    <2> QED BY <2>1, <2>2 DEF Range, w
  <1> QED BY <1>1, <1>2

\* Turn by turn, the loop has found what searches of the children alone find, and as
\* long as a composition is to come the search range is the one it started with.
LEMMA PlacingSearches == ASSUME Placing PROVE SearchIsPerChild
  <1> SUFFICES ASSUME NEW c \in Compositions, NEW s \in Ranges
               PROVE  LET found == ChildrenInRange(c, s)
                          hits == Range(found)
                          within(k) == Range(FindChildren(k, TransformedRange(c, s, k)))
                          shifts(k) == k \in Compositions /\ TransformedRange(c, s, k) # s
                      IN  (\A i, j \in DOMAIN found :
                              i < j /\ found[j] \in Compositions => ~shifts(found[i]))
                          => Range(FindChildren(c, s)) =
                                 (hits \cap Items)
                                     \cup UNION {within(k) : k \in hits \cap Compositions}
    BY DEF SearchIsPerChild
  <1> DEFINE found == ChildrenInRange(c, s)
             within(k) == Range(FindChildren(k, TransformedRange(c, s, k)))
             shifts(k) == k \in Compositions /\ TransformedRange(c, s, k) # s
             n == Len(found)
             at == s.start
             u(k) == TransformedTime(c, at, k)
  <1>1. SUFFICES ASSUME \A i, j \in DOMAIN found :
                            i < j /\ found[j] \in Compositions => ~shifts(found[i])
                 PROVE  Range(FindChildren(c, s)) =
                            (Range(found) \cap Items)
                                \cup UNION {within(k) : k \in Range(found) \cap Compositions}
    OBVIOUS
  <1>2. s \in [start : Int, dur : Nat] /\ at \in Int /\ s.dur \in Nat /\ s = TimeRange(at, s.dur)
    BY TimingAssumption DEF TimeRange
  <1>3. /\ found \in ChildrenOf(c) /\ found \in Seq(Objects) /\ n \in Nat /\ DOMAIN found = 1..n
        /\ \A i \in 1..n : found[i] \in Objects /\ parent[found[i]] = c
    <2>1. found \in ChildrenOf(c)
      BY <1>2, InRangeAreChildren
    <2> HIDE DEF found
    <2> QED BY <2>1 DEF ChildrenOf
  <1>4. PICK find : Searches(find, s.dur)
    BY <1>2, SearchRuns
  <1>5. FindChildren(c, s) = VisitOf(c, found, at, find)
    <2> DEFINE t == TimeRange(at, s.dur)
    <2>1. /\ find[<<c, at>>] = FindChildren(c, t)
          /\ find[<<c, at>>] = VisitOf(c, ChildrenInRange(c, t), at, find)
      BY <1>2, <1>4 DEF Searches
    <2>2. s = t
      BY <1>2
    <2> HIDE DEF t
    <2> QED BY <2>1, <2>2
  <1> HIDE DEF found, n
  <1>6. find \in [Searched -> Seq(Objects)]
    BY <1>4 DEF Searches
  <1>7. PICK v : VisitRuns(v, c, found, at, find)
    BY <1>2, <1>3, <1>6, VisitIs
  <1>8. /\ v \in [0..n -> Found] /\ v[0] = [at |-> at, out |-> <<>>]
        /\ \A j \in 1..n : v[j] = Visited(c, v[j - 1], found[j], find)
        /\ FindChildren(c, s) = v[n].out
    BY <1>5, <1>7 DEF VisitRuns, n
  <1>9. ASSUME NEW k \in Compositions, parent[k] = c
        PROVE  /\ u(k) \in Int /\ find[<<k, u(k)>>] \in Seq(Objects)
               /\ Range(find[<<k, u(k)>>]) = within(k)
    <2>1. k \in Objects /\ k \notin Transitions
      BY TimingAssumption DEF Objects
    <2>2. u(k) \in Int
      <3>1. u(k) = at - ToParent(k) /\ ToParent(k) \in Int
        BY <1>2, <1>9, <2>1, OneStep
      <3> HIDE DEF u, at
      <3> QED BY <1>2, <3>1
    <2>3. find[<<k, u(k)>>] \in Seq(Objects)
      BY <1>6, <2>2 DEF Searched
    <2>4. find[<<k, u(k)>>] = FindChildren(k, TimeRange(u(k), s.dur))
      BY <1>4, <2>2 DEF Searches
    <2>5. TransformedRange(c, s, k) = TimeRange(u(k), s.dur)
      BY DEF TransformedRange
    <2> QED BY <2>2, <2>3, <2>4, <2>5
  <1>10. ASSUME NEW k \in Compositions, ~shifts(k) PROVE u(k) = at
    <2>1. TimeRange(u(k), s.dur) = s
      BY <1>10 DEF TransformedRange
    <2> HIDE DEF u
    <2>2. TimeRange(u(k), s.dur).start = u(k)
      BY DEF TimeRange
    <2> QED BY <2>1, <2>2
  <1> HIDE DEF at, u, within, shifts
  <1> DEFINE Per(k) == IF k \in Compositions THEN within(k) ELSE {k} \cap Items
             Got(j) == UNION {Per(found[i]) : i \in 1..j}
             Kept(j) == \A i \in 1..n : i > j /\ found[i] \in Compositions => v[j].at = at
             S == {j \in 0..n : Range(v[j].out) = Got(j) /\ Kept(j)}
  <1>11. 0 \in S
    <2>1. v[0].out = <<>> /\ v[0].at = at /\ Range(<<>>) = {}
      BY <1>8 DEF Range
    <2>2. Got(0) = {}
      OBVIOUS
    <2> HIDE DEF Got
    <2>3. Range(v[0].out) = Got(0)
      BY <2>1, <2>2
    <2>4. Kept(0)
      BY <2>1
    <2>5. 0 \in 0..n
      BY <1>3
    <2> HIDE DEF Kept
    <2> QED BY <2>3, <2>4, <2>5
  <1>12. ASSUME NEW j \in 1..n, j - 1 \in S PROVE j \in S
    <2> DEFINE acc == v[j - 1]
               k == found[j]
    <2>1. /\ j - 1 \in 0..n /\ j \in 0..n /\ acc \in Found /\ k \in Objects /\ parent[k] = c
          /\ v[j] = Visited(c, acc, k, find)
          /\ Range(acc.out) = Got(j - 1) /\ Kept(j - 1)
      BY <1>3, <1>8, <1>12
    <2>2. Got(j) = Got(j - 1) \cup Per(k)
      <3>1. \A i \in 1..j : i \in 1..(j - 1) \/ i = j
        BY <1>3
      <3>2. 1..(j - 1) \subseteq 1..j /\ j \in 1..j
        BY <1>3
      <3> HIDE DEF Per
      <3>3. Got(j) \subseteq Got(j - 1) \cup Per(k)
        BY <3>1
      <3>4. Got(j - 1) \cup Per(k) \subseteq Got(j)
        BY <3>2
      <3> QED BY <3>3, <3>4
    <2> HIDE DEF Got, acc, k
    <2>3. acc.at \in Int /\ acc.out \in Seq(Objects)
      BY <2>1 DEF Found
    <2>4. CASE k \in Compositions
      <3>1. acc.at = at
        <4>1. j \in 1..n /\ j > j - 1 /\ found[j] \in Compositions
          BY <1>3, <2>4 DEF k
        <4> QED BY <2>1, <4>1 DEF acc
      <3>2. v[j] = [at |-> u(k), out |-> acc.out \o find[<<k, u(k)>>]]
        BY <2>1, <2>4, <3>1 DEF Visited, u
      <3>3. find[<<k, u(k)>>] \in Seq(Objects) /\ Range(find[<<k, u(k)>>]) = within(k)
        BY <1>9, <2>1, <2>4
      <3>4. Range(acc.out \o find[<<k, u(k)>>]) = Range(acc.out) \cup within(k)
        BY <2>1, <2>3, <3>3, RangeOfAppend
      <3>5. Range(v[j].out) = Got(j)
        BY <2>1, <2>2, <2>4, <3>2, <3>4
      <3>6. ASSUME NEW i \in 1..n, i > j, found[i] \in Compositions PROVE v[j].at = at
        <4>1. ~shifts(k)
          BY <1>1, <1>3, <3>6 DEF k
        <4> QED BY <1>10, <2>4, <3>2, <4>1
      <3> QED BY <2>1, <3>5, <3>6
    <2>5. CASE k \in Items /\ k \notin Compositions
      <3>1. v[j] = [at |-> acc.at, out |-> Append(acc.out, k)]
        BY <2>1, <2>5 DEF Visited
      <3>2. Range(Append(acc.out, k)) = Range(acc.out) \cup {k}
        BY <2>1, <2>3, RangeOfAppend
      <3>3. Range(v[j].out) = Got(j)
        BY <2>1, <2>2, <2>5, <3>1, <3>2
      <3>4. ASSUME NEW i \in 1..n, i > j, found[i] \in Compositions PROVE v[j].at = at
        <4>1. i > j - 1
          BY <1>3, <3>4
        <4> QED BY <2>1, <3>1, <3>4, <4>1 DEF acc
      <3> QED BY <2>1, <3>3, <3>4
    <2>6. CASE k \notin Items /\ k \notin Compositions
      <3>1. v[j] = acc
        BY <2>1, <2>6 DEF Visited
      <3>2. Range(v[j].out) = Got(j)
        BY <2>1, <2>2, <2>6, <3>1
      <3>3. ASSUME NEW i \in 1..n, i > j, found[i] \in Compositions PROVE v[j].at = at
        <4>1. i > j - 1
          BY <1>3, <3>3
        <4> QED BY <2>1, <3>1, <3>3, <4>1 DEF acc
      <3> QED BY <2>1, <3>2, <3>3
    <2> QED BY <2>4, <2>5, <2>6
  <1> HIDE DEF S
  <1>13. n \in S
    <2>1. \A j \in 0..n : j \in S
      BY <1>3, <1>11, <1>12, Rounds
    <2> QED BY <1>3, <2>1
  <1>14. Range(FindChildren(c, s)) = Got(n)
    BY <1>8, <1>13 DEF S
  <1>15. Got(n) = (Range(found) \cap Items)
                      \cup UNION {within(k) : k \in Range(found) \cap Compositions}
    <2>1. Range(found) = {found[i] : i \in 1..n}
      BY <1>3 DEF Range
    <2>2. \A k \in Items : k \notin Compositions
      BY TimingAssumption
    <2> QED BY <2>1, <2>2
  <1> QED BY <1>14, <1>15

LEMMA PlacingKeepsWord == ASSUME NullIsNoRange, Placing PROVE SearchesAsDocumented
  BY PlacingOrders, PlacingTrimsNothing, PlacingSearches DEF SearchesAsDocumented

--------------------------------------------------------------------------------
(* Clients keep the hierarchy and the timings in order.                        *)

LEMMA InitPlacing == Init => Placing
  <1> SUFFICES ASSUME Init PROVE Placing
    OBVIOUS
  <1>1. Timed
    <2>1. \A c \in Compositions : <<>> \in Seq(Objects)
      OBVIOUS
    <2>2. \A o \in Objects : parent[o] = NULL
      BY DEF Init
    <2> QED BY <2>1, <2>2 DEF Init, Timed, Objects
  <1>2. Listed
    <2>1. \A c \in Compositions : children[c] = <<>>
      BY DEF Init
    <2>2. \A c \in Compositions : Range(children[c]) = {} /\ IsInjective(children[c])
      BY <2>1 DEF Range, IsInjective
    <2>3. \A c \in Compositions, o \in Objects : parent[o] # c
      BY TimingAssumption DEF Init, Objects
    <2> QED BY <2>2, <2>3 DEF Listed
  <1>3. Ranked
    <2> DEFINE rank == [o \in Objects |-> 0]
    <2>1. Rising(rank, 0)
      BY DEF Init, Rising
    <2> QED BY <2>1 DEF Ranked
  <1> QED BY <1>1, <1>2, <1>3 DEF Placing

\* A child that was nowhere, added at the end, is listed once.
LEMMA AppendIsListed ==
    ASSUME NEW s \in Seq(Objects), NEW o \in Objects \ Range(s), IsInjective(s)
    PROVE  /\ Append(s, o) \in Seq(Objects) /\ IsInjective(Append(s, o))
           /\ Range(Append(s, o)) = Range(s) \cup {o}
  <1> DEFINE t == Append(s, o)
  <1>1. /\ t \in Seq(Objects) /\ Len(s) \in Nat
        /\ DOMAIN s = 1..Len(s) /\ DOMAIN t = 1..(Len(s) + 1)
        /\ t[Len(s) + 1] = o /\ \A j \in 1..Len(s) : t[j] = s[j]
    OBVIOUS
  <1> HIDE DEF t
  <1>2. \A j \in DOMAIN t : (j \in DOMAIN s /\ t[j] = s[j]) \/ (j = Len(s) + 1 /\ t[j] = o)
    BY <1>1
  <1>3. DOMAIN s \subseteq DOMAIN t /\ Len(s) + 1 \in DOMAIN t
    BY <1>1
  <1>4. Range(t) = Range(s) \cup {o}
    BY <1>1, <1>2, <1>3 DEF Range
  <1>5. \A j \in DOMAIN s : s[j] # o
    BY DEF Range
  <1>6. IsInjective(t)
    BY <1>2, <1>5 DEF IsInjective
  <1> QED BY <1>1, <1>4, <1>6 DEF t

\* What has no children stays below everything when it is appended.
LEMMA LeafKeepsRanked ==
    ASSUME Placing, NEW c \in Compositions, NEW o \in Objects \ Compositions,
           parent' = [parent EXCEPT ![o] = c]
    PROVE  Ranked'
  <1>1. PICK m \in Nat : \E rank : Rising(rank, m)
    BY DEF Placing, Ranked
  <1>2. PICK rank : Rising(rank, m)
    BY <1>1
  <1> DEFINE high == [x \in Objects |-> IF x \in Compositions THEN rank[x] + 1 ELSE 0]
  <1>3. \A x \in Objects : rank[x] \in Int /\ 0 <= rank[x] /\ rank[x] <= m
    BY <1>2, RankIsNumber
  <1>4. high \in [Objects -> 0..(m + 1)]
    BY <1>3
  <1>5. ASSUME NEW x \in Objects, parent'[x] # NULL PROVE high[x] < high[parent'[x]]
    <2>1. /\ parent \in [Objects -> Compositions \cup {NULL}]
          /\ c \in Objects /\ Compositions \subseteq Objects
      BY DEF Placing, Timed, Objects
    <2>2. CASE x = o
      <3>1. parent'[x] = c /\ high[x] = 0 /\ high[c] = rank[c] + 1
        BY <2>1, <2>2
      <3> HIDE DEF high
      <3> QED BY <1>3, <2>1, <3>1
    <2>3. CASE x # o
      <3>1. parent'[x] = parent[x] /\ parent[x] \in Compositions /\ parent[x] \in Objects
        BY <1>5, <2>1, <2>3
      <3>2. rank[x] < rank[parent[x]]
        BY <1>2, <1>5, <3>1 DEF Rising
      <3>3. high[parent[x]] = rank[parent[x]] + 1 /\ (high[x] = rank[x] + 1 \/ high[x] = 0)
        BY <3>1
      <3> HIDE DEF high
      <3> QED BY <1>3, <3>1, <3>2, <3>3
    <2> QED BY <2>2, <2>3
  <1>6. \E rk : Rising(rk, m + 1)'
    <2>1. Rising(high, m + 1)'
      BY <1>4, <1>5 DEF Rising
    <2> QED BY <2>1
  <1>7. m + 1 \in Nat
    OBVIOUS
  <1> QED BY <1>6, <1>7 DEF Ranked

\* A root goes below what is not below it: everything from there up is raised.
LEMMA RootKeepsRanked ==
    ASSUME Placing, NEW c \in Compositions, NEW o \in Compositions,
           parent[o] = NULL, Top(o, c) # o, parent' = [parent EXCEPT ![o] = c]
    PROVE  Ranked'
  <1>1. PICK m \in Nat : \E rank : Rising(rank, m)
    BY DEF Placing, Ranked
  <1>2. PICK rank : Rising(rank, m)
    BY <1>1
  <1> DEFINE Outside(x) == Top(o, x) # o
             high == [x \in Objects |-> IF Outside(x) THEN rank[x] + (m + 1) ELSE rank[x]]
  <1>3. \A x \in Objects : rank[x] \in Int /\ 0 <= rank[x] /\ rank[x] <= m
    BY <1>2, RankIsNumber
  <1>4. high \in [Objects -> 0..(m + (m + 1))]
    <2> HIDE DEF Outside
    <2> QED BY <1>3
  <1>5. /\ parent \in [Objects -> Compositions \cup {NULL}]
        /\ c \in Objects /\ o \in Objects /\ Compositions \subseteq Objects
    BY DEF Placing, Timed, Objects
  <1>6. Outside(c) /\ ~Outside(o)
    BY <1>5, TopIs DEF Placing
  <1>7. ASSUME NEW x \in Objects, x # o, parent[x] # NULL
        PROVE  Outside(x) <=> Outside(parent[x])
    BY <1>7, TopIs DEF Placing
  <1> HIDE DEF Outside
  <1>8. ASSUME NEW x \in Objects, parent'[x] # NULL PROVE high[x] < high[parent'[x]]
    <2>1. CASE x = o
      <3>1. parent'[x] = c /\ high[x] = rank[x] /\ high[c] = rank[c] + (m + 1)
        BY <1>5, <1>6, <2>1
      <3> HIDE DEF high
      <3> QED BY <1>3, <1>5, <3>1
    <2>2. CASE x # o
      <3>1. parent'[x] = parent[x] /\ parent[x] \in Objects /\ parent[x] # NULL
        BY <1>5, <1>8, <2>2
      <3>2. rank[x] < rank[parent[x]]
        BY <1>2, <3>1 DEF Rising
      <3>3. \/ high[x] = rank[x] /\ high[parent[x]] = rank[parent[x]]
            \/ high[x] = rank[x] + (m + 1) /\ high[parent[x]] = rank[parent[x]] + (m + 1)
        BY <1>7, <2>2, <3>1
      <3> HIDE DEF high
      <3> QED BY <1>3, <3>1, <3>2, <3>3
    <2> QED BY <2>1, <2>2
  <1>9. \E rk : Rising(rk, m + (m + 1))'
    <2>1. PICK h : h = high
      OBVIOUS
    <2> HIDE DEF high
    <2>2. Rising(h, m + (m + 1))'
      BY <1>4, <1>8, <2>1 DEF Rising
    <2> QED BY <2>2
  <1>10. m + (m + 1) \in Nat
    OBVIOUS
  <1> QED BY <1>9, <1>10 DEF Ranked

\* Every append keeps the lists and the parents in step.
LEMMA AppendKeepsListed ==
    ASSUME Placing, NEW c \in Compositions, NEW o \in Objects, parent[o] = NULL,
           children' = [children EXCEPT ![c] = Append(children[c], o)],
           parent' = [parent EXCEPT ![o] = c]
    PROVE  /\ Listed'
           /\ children' \in [Compositions -> Seq(Objects)]
           /\ parent' \in [Objects -> Compositions \cup {NULL}]
  <1>1. /\ children \in [Compositions -> Seq(Objects)]
        /\ parent \in [Objects -> Compositions \cup {NULL}] /\ c # NULL
    BY TimingAssumption DEF Placing, Timed, Objects
  <1>2. o \notin Range(children[c]) /\ IsInjective(children[c]) /\ children[c] \in Seq(Objects)
    BY <1>1 DEF Placing, Listed
  <1>3. /\ Append(children[c], o) \in Seq(Objects) /\ IsInjective(Append(children[c], o))
        /\ Range(Append(children[c], o)) = Range(children[c]) \cup {o}
    BY <1>2, AppendIsListed
  <1>4. /\ children'[c] = Append(children[c], o)
        /\ \A d \in Compositions : d # c => children'[d] = children[d]
        /\ parent'[o] = c
        /\ \A x \in Objects : x # o => parent'[x] = parent[x]
    BY <1>1
  <1>5. ASSUME NEW d \in Compositions PROVE IsInjective(children'[d])
    BY <1>3, <1>4 DEF Placing, Listed
  <1>6. ASSUME NEW d \in Compositions, NEW x \in Objects
        PROVE  x \in Range(children'[d]) <=> parent'[x] = d
    <2>1. x \in Range(children[d]) <=> parent[x] = d
      BY DEF Placing, Listed
    <2>2. d # NULL
      BY TimingAssumption DEF Objects
    <2>3. CASE d = c
      BY <1>3, <1>4, <2>1, <2>3
    <2>4. CASE d # c
      <3>1. children'[d] = children[d]
        BY <1>4, <2>4
      <3> QED BY <1>4, <2>1, <2>2, <2>4, <3>1
    <2> QED BY <2>3, <2>4
  <1>7. Listed'
    BY <1>5, <1>6 DEF Listed
  <1>8. children' \in [Compositions -> Seq(Objects)]
    BY <1>1, <1>3
  <1>9. parent' \in [Objects -> Compositions \cup {NULL}]
    BY <1>1
  <1> QED BY <1>7, <1>8, <1>9

LEMMA NextPlacing == Placing /\ [Next]_vars => Placing'
  <1> SUFFICES ASSUME Placing, [Next]_vars PROVE Placing'
    OBVIOUS
  <1>1. Timed /\ Listed /\ Ranked
    BY DEF Placing
  <1>2. ASSUME NEW c \in Compositions, NEW o \in Items, NEW r \in Ranges, AppendItem(c, o, r)
        PROVE  Placing'
    <2>1. o \in Objects \ Compositions
      BY TimingAssumption DEF Objects
    <2>2. /\ parent[o] = NULL /\ parent' = [parent EXCEPT ![o] = c]
          /\ children' = [children EXCEPT ![c] = Append(children[c], o)]
          /\ source' = [source EXCEPT ![o] = r] /\ offset' = offset
      BY <1>2 DEF AppendItem
    <2>3. Listed' /\ children' \in [Compositions -> Seq(Objects)]
          /\ parent' \in [Objects -> Compositions \cup {NULL}]
      BY <2>1, <2>2, AppendKeepsListed
    <2>4. Ranked'
      BY <2>1, <2>2, LeafKeepsRanked
    <2>5. /\ source' \in [Compositions \cup Items -> Ranges \cup {NULL}]
          /\ \A k \in Items : parent'[k] # NULL => source'[k] \in Ranges
      BY <1>1, <2>1, <2>2 DEF Timed, Objects
    <2>6. /\ offset' \in [Transitions -> Offsets \cup {NULL}]
          /\ \A k \in Transitions : parent'[k] # NULL => offset'[k] \in Offsets
      BY <1>1, <2>1, <2>2, TimingAssumption DEF Timed, Objects
    <2> QED BY <2>3, <2>4, <2>5, <2>6 DEF Placing, Timed
  <1>3. ASSUME NEW c \in Compositions, NEW o \in Transitions, NEW offs \in Offsets,
               AppendTransition(c, o, offs)
        PROVE  Placing'
    <2>1. o \in Objects \ Compositions
      BY TimingAssumption DEF Objects
    <2>2. /\ parent[o] = NULL /\ parent' = [parent EXCEPT ![o] = c]
          /\ children' = [children EXCEPT ![c] = Append(children[c], o)]
          /\ offset' = [offset EXCEPT ![o] = offs] /\ source' = source
      BY <1>3 DEF AppendTransition
    <2>3. Listed' /\ children' \in [Compositions -> Seq(Objects)]
          /\ parent' \in [Objects -> Compositions \cup {NULL}]
      BY <2>1, <2>2, AppendKeepsListed
    <2>4. Ranked'
      BY <2>1, <2>2, LeafKeepsRanked
    <2>5. /\ source' \in [Compositions \cup Items -> Ranges \cup {NULL}]
          /\ \A k \in Items : parent'[k] # NULL => source'[k] \in Ranges
      BY <1>1, <2>1, <2>2, TimingAssumption DEF Timed, Objects
    <2>6. /\ offset' \in [Transitions -> Offsets \cup {NULL}]
          /\ \A k \in Transitions : parent'[k] # NULL => offset'[k] \in Offsets
      BY <1>1, <2>1, <2>2 DEF Timed, Objects
    <2> QED BY <2>3, <2>4, <2>5, <2>6 DEF Placing, Timed
  <1>4. ASSUME NEW c \in Compositions, NEW o \in Compositions, AppendComposition(c, o)
        PROVE  Placing'
    <2>1. o \in Objects
      BY DEF Objects
    <2>2. /\ parent[o] = NULL /\ Top(o, c) # o /\ parent' = [parent EXCEPT ![o] = c]
          /\ children' = [children EXCEPT ![c] = Append(children[c], o)]
          /\ source' = source /\ offset' = offset
      BY <1>4 DEF AppendComposition
    <2>3. Listed' /\ children' \in [Compositions -> Seq(Objects)]
          /\ parent' \in [Objects -> Compositions \cup {NULL}]
      BY <2>1, <2>2, AppendKeepsListed
    <2>4. Ranked'
      BY <2>2, RootKeepsRanked
    <2>5. \A k \in Items \cup Transitions : k \in Objects /\ parent'[k] = parent[k]
      BY <1>1, <2>1, <2>2, TimingAssumption DEF Timed, Objects
    <2>6. /\ source' \in [Compositions \cup Items -> Ranges \cup {NULL}]
          /\ \A k \in Items : parent'[k] # NULL => source'[k] \in Ranges
      BY <1>1, <2>2, <2>5 DEF Timed
    <2>7. /\ offset' \in [Transitions -> Offsets \cup {NULL}]
          /\ \A k \in Transitions : parent'[k] # NULL => offset'[k] \in Offsets
      BY <1>1, <2>2, <2>5 DEF Timed
    <2> QED BY <2>3, <2>4, <2>6, <2>7 DEF Placing, Timed
  <1>5. ASSUME NEW o \in Compositions \cup Items, NEW r \in Ranges \cup {NULL},
               SetSourceRange(o, r)
        PROVE  Placing'
    <2>1. /\ children' = children /\ parent' = parent /\ offset' = offset
          /\ source' = [source EXCEPT ![o] = r]
      BY <1>5 DEF SetSourceRange
    <2>2. o \in Items => r \in Ranges
      BY <1>5, TimingAssumption DEF SetSourceRange
    <2>3. Listed' /\ Ranked'
      BY <1>1, <2>1 DEF Listed, Ranked, Rising
    <2>4. /\ source' \in [Compositions \cup Items -> Ranges \cup {NULL}]
          /\ \A k \in Items : parent[k] # NULL => source'[k] \in Ranges
      BY <1>1, <2>1, <2>2 DEF Timed
    <2> QED BY <1>1, <2>1, <2>3, <2>4 DEF Placing, Timed
  <1>6. CASE UNCHANGED vars
    BY <1>1, <1>6 DEF vars, Placing, Timed, Listed, Ranked, Rising
  <1> QED BY <1>2, <1>3, <1>4, <1>5, <1>6 DEF Next

--------------------------------------------------------------------------------
(* What holds of every state.                                                  *)

LEMMA PlacingHolds == Spec => []Placing
  <1>1. Init => Placing
    BY InitPlacing
  <1>2. Placing /\ [Next]_vars => Placing'
    BY NextPlacing
  <1> QED BY <1>1, <1>2, PTL DEF Spec

\* However tracks and stacks are nested and whatever ranges and offsets their
\* children have: range_of_all_children and range_of_child_at_index give every child
\* the same range, the available range of a track without a source range is the extent
\* of its children, and the neighbours of a transition have material for all of it.
THEOREM PlacesStayAgreed == Spec => []PlacesAgree
  <1>1. Placing => PlacesAgree
    BY PlacingMeans
  <1> QED BY <1>1, PlacingHolds, PTL

\* In every track whose transitions fit, child_at_time and children_in_range, which
\* bisect, find at every time and in every range what a look at every child finds.
THEOREM SearchesAlwaysFind == Spec => []SearchesFind
  <1>1. Placing => SearchesFind
    BY PlacingFinds
  <1> QED BY <1>1, PlacingHolds, PTL

\* The trimmed range of a child of a track holds exactly the frames of the child that
\* the source range of the track shows; trim_child_range says so by answering nothing,
\* which no range is to be taken for.
THEOREM TrimsAreIntersections == ASSUME NullIsNoRange PROVE Spec => []TrimIsIntersection
  <1>1. Placing => TrimIsIntersection
    BY PlacingTrims
  <1> QED BY <1>1, PlacingHolds, PTL

\* At any depth, the item child_at_time finds by taking a time down through the levels
\* contains that time once transformed_time has taken it to the item's own space.
THEOREM FoundWhereItIs == Spec => []FoundAtItsTime
  <1>1. Placing => FoundAtItsTime
    BY PlacingAnswers
  <1> QED BY <1>1, PlacingHolds, PTL

\* At any depth, range_of_child and transformed_time_range say the same of a child,
\* unless a composition in between has a source range of its own.
THEOREM SpacesStayAgreed == Spec => []SpacesAgree
  <1>1. Placing => SpacesAgree
    BY PlacingTransforms
  <1> QED BY <1>1, PlacingHolds, PTL

\* child_at_time answers in a stack with a child that contains the time, and with some
\* child where the children end in their order; trimmed_range_of_child says nothing else
\* than range_of_child where no composition has a source range; and find_children finds
\* in a child of a composition what a search of the child alone finds, unless a
\* composition before it keeps another time.
THEOREM SearchesKeepTheirWord == ASSUME NullIsNoRange PROVE Spec => []SearchesAsDocumented
  <1>1. Placing => SearchesAsDocumented
    BY PlacingKeepsWord
  <1> QED BY <1>1, PlacingHolds, PTL
================================================================================
