------------------------------- MODULE TimeSpace -------------------------------
(* Where things are in time: the queries of composition.cpp, track.cpp,        *)
(* stack.cpp and item.cpp over a hierarchy of compositions.  Every object has  *)
(* a time space of its own; a track lays its children end to end, with         *)
(* transitions overlapping their neighbours, and a stack starts them all at 0. *)
(* The hierarchy is the ordered forest of Composition and Forest.  Queries are *)
(* given an ErrorStatus, so that the first error ends them.                    *)
EXTENDS Bisection, FiniteSetsExt

CONSTANTS
    Tracks, Stacks,
    Items,          \* Clips and Gaps, with a source range of their own
    Transitions,
    Ranges,         \* the source ranges clients give
    Offsets,        \* the <<in_offset, out_offset>> of transitions
    Frames,         \* bound: the times that are looked for
    NULL,           \* nullptr and nullopt
    Capacity        \* bound: children per composition

Compositions == Tracks \cup Stacks
Objects == Compositions \cup Items \cup Transitions

ASSUME TimingAssumption ==
    /\ Ranges \subseteq [start : Int, dur : Nat]
    /\ \A o \in Offsets : o[1] \in Nat /\ o[2] \in Nat
    /\ Frames \subseteq Int
    /\ NULL \notin Objects \cup Ranges
    /\ Tracks \cap Stacks = {} /\ Items \cap Transitions = {}
    /\ Compositions \cap (Items \cup Transitions) = {}

VARIABLES
    children,   \* _children
    parent,     \* _parent
    source,     \* _source_range of items and compositions
    offset      \* _in_offset and _out_offset of transitions

vars == <<children, parent, source, offset>>

--------------------------------------------------------------------------------
(* The hierarchy.                                                              *)

\* Where the walk from o up the parents to c ends: at c, or at the root.
Top(c, o) ==
    LET top[x \in Objects] == IF x = c \/ parent[x] = NULL THEN x ELSE top[parent[x]]
    IN  top[o]

\* The objects whose parents that walk visits, from o on.
Path(c, o) ==
    LET path[x \in Objects] ==
            IF x = c \/ parent[x] = NULL THEN <<>> ELSE <<x>> \o path[parent[x]]
    IN  path[o]

IndexOfChild(c, o) == CHOOSE i \in 1..Len(children[c]) : children[c][i] = o

--------------------------------------------------------------------------------
(* Durations and ranges.                                                       *)

InOffset(k) == IF k \in Transitions THEN offset[k][1] ELSE 0
OutOffset(k) == IF k \in Transitions THEN offset[k][2] ELSE 0

\* What a child that is so long takes of a track: transitions overlap the others.
Share(k, long) == IF k \in Transitions THEN 0 ELSE long

\* Track::available_range, of children that are so long.  A transition counts where
\* it stands out at one of the two ends.
TrackLength(kids, longs) ==
    IF kids = <<>> THEN 0
    ELSE Sums([i \in 1..Len(kids) |-> Share(kids[i], longs[i])])[Len(kids)]
             + InOffset(Head(kids)) + OutOffset(Last(kids))

\* Composable::duration: that of the trimmed range of an item, which is the
\* source range if there is one and the available range if not.
Duration(o) ==
    LET d[x \in Objects] ==
            IF x \in Transitions THEN InOffset(x) + OutOffset(x)
            ELSE IF x \in Items \/ source[x] # NULL THEN source[x].dur
            ELSE IF x \in Tracks
            THEN TrackLength(children[x], [i \in DOMAIN children[x] |-> d[children[x][i]]])
            ELSE Max({0} \cup {d[children[x][i]] : i \in DOMAIN children[x]})
    IN  d[o]

\* Item::trimmed_range.  The available range of a composition starts at 0.
TrimmedRange(o) ==
    IF source[o] # NULL THEN source[o] ELSE TimeRange(0, Duration(o))

\* Mutant: a transition takes its own place.
Elapsed_Transitions(c, i) ==
    Sums([j \in 1..(i - 1) |-> Duration(children[c][j])])[i - 1]

\* The time the first i - 1 children of a track take.
Elapsed(c, i) ==
    Sums([j \in 1..(i - 1) |-> Share(children[c][j], Duration(children[c][j]))])[i - 1]

RangeOfChildAtIndex(c, i) ==
    TimeRange(IF c \in Stacks THEN 0 ELSE Elapsed(c, i) - InOffset(children[c][i]),
              Duration(children[c][i]))

\* One round of Track::range_of_all_children, which carries the end of the last
\* item along.
PlaceNext(acc, k) ==
    [end |-> acc.end + Share(k, Duration(k)),
     map |-> With(acc.map, k, TimeRange(acc.end - InOffset(k), Duration(k)))]

\* A stack asks for each child.
RangeOfAllChildren(c) ==
    LET after[i \in 0..Len(children[c])] ==
            IF i = 0 THEN [end |-> 0, map |-> <<>>] ELSE PlaceNext(after[i - 1], children[c][i])
    IN  IF c \in Tracks THEN after[Len(children[c])].map
        ELSE [k \in Range(children[c]) |-> RangeOfChildAtIndex(c, IndexOfChild(c, k))]

RangeInParent(o) == RangeOfChildAtIndex(parent[o], IndexOfChild(parent[o], o))

\* Composition::range_of_child for a child at any depth: the starts add up, the
\* source ranges of the compositions in between are not looked at.
RangeOfChild(c, o) ==
    LET start[x \in Objects] ==
            IF x = c \/ parent[x] = NULL THEN 0
            ELSE RangeInParent(x).start + start[parent[x]]
    IN  TimeRange(start[o], Duration(o))

--------------------------------------------------------------------------------
(* Trimming to the source range of a composition.                              *)

Answer(r) == [status |-> "OK", range |-> r]
Failed(st) == [status |-> st, range |-> NULL]

\* Mutant: the end is cut to the child's own length.
TrimChildRange_Start(c, r) ==
    LET sr == source[c]
    IN  IF sr = NULL THEN r
        ELSE IF sr.start >= EndExclusive(r) \/ EndExclusive(sr) <= r.start THEN NULL
        ELSE TimeRange(Later(r.start, sr.start), Earlier(r.dur, sr.dur))

\* Composition::trim_child_range: the part of a range of c inside the source
\* range of c, NULL if there is none.
TrimChildRange(c, r) ==
    LET sr == source[c]
    IN  IF sr = NULL THEN r
        ELSE IF sr.start >= EndExclusive(r) \/ EndExclusive(sr) <= r.start THEN NULL
        ELSE FromStartEnd(Later(r.start, sr.start), Earlier(EndExclusive(r), EndExclusive(sr)))

\* A track refuses a child it trims away.  A stack gives the start of its source
\* range to every child.
TrimmedIn(c, r) ==
    IF c \in Tracks
    THEN IF TrimChildRange(c, r) = NULL
         THEN Failed("INVALID_TIME_RANGE")
         ELSE Answer(TrimChildRange(c, r))
    ELSE IF source[c] = NULL THEN Answer(r)
    ELSE Answer(TimeRange(source[c].start, Earlier(r.dur, source[c].dur)))

TrimmedRangeOfChildAtIndex(c, i) == TrimmedIn(c, RangeOfChildAtIndex(c, i))

\* What a parent says of a child, after what the parents below have said.
Joined(below, above) ==
    IF above.status # "OK" \/ below.range = NULL THEN above
    ELSE Answer(TimeRange(below.range.start + above.range.start, below.range.dur))

\* The end of trimmed_range_of_child, where c has a source range.
CutTo(sr, r) ==
    LET start == Later(sr.start, r.start)
        end == Earlier(EndExclusive(r), EndExclusive(sr))
    IN  IF start > EndExclusive(r) \/ end < start THEN NULL ELSE FromStartEnd(start, end)

\* Composition::trimmed_range_of_child.  The loop over the parents looks for the
\* child in the first of them and for the first of them in all the others.
TrimmedRangeOfChild(c, o) ==
    LET in(x, sought) ==
            IF parent[sought] # parent[x] THEN Failed("NOT_A_CHILD_OF")
            ELSE TrimmedRangeOfChildAtIndex(parent[x], IndexOfChild(parent[x], sought))
        path == Path(c, o)
        said[i \in 0..Len(path)] ==
            IF i = 0 THEN Answer(NULL)
            ELSE IF said[i - 1].status # "OK" THEN said[i - 1]
            ELSE Joined(said[i - 1], in(path[i], IF path[i] = o THEN o ELSE parent[o]))
        cut(answer) ==
            IF answer.status # "OK" \/ source[c] = NULL THEN answer
            ELSE Answer(CutTo(source[c], answer.range))
    IN  cut(said[Len(path)])

--------------------------------------------------------------------------------
(* Between the time spaces of one hierarchy.                                   *)

\* What one step from the space of o to that of its parent adds to a time.
ToParent(o) == RangeInParent(o).start - TrimmedRange(o).start

\* Mutant: the source ranges are forgotten.
Climb_Start(o, a) ==
    LET climb[x \in Objects] ==
            IF x = a \/ parent[x] = NULL THEN 0
            ELSE RangeInParent(x).start + climb[parent[x]]
    IN  climb[o]

Climb(o, a) ==
    LET climb[x \in Objects] ==
            IF x = a \/ parent[x] = NULL THEN 0 ELSE ToParent(x) + climb[parent[x]]
    IN  climb[o]

\* Item::transformed_time from the space of o to that of x: up to x, or else to
\* the root, and from there down to x.
TransformedTime(o, t, x) == t + Climb(o, Top(x, o)) - Climb(x, Top(x, o))

TransformedRange(o, r, x) == TimeRange(TransformedTime(o, r.start, x), r.dur)

--------------------------------------------------------------------------------
(* Searches.                                                                   *)

ShallowChildAtTime(c, t) == FirstAt(children[c], RangeOfAllChildren(c), t, NULL)

ChildAtTime(c, t) ==
    LET deep[p \in Compositions \X Int] ==
            LET hit == ShallowChildAtTime(p[1], p[2])
            IN  IF hit \in Compositions
                THEN deep[<<hit, TransformedTime(p[1], p[2], hit)>>]
                ELSE hit
    IN  deep[<<c, t>>]

\* Composition::_children_at_time, the linear search.
ChildrenAtTime(c, t) ==
    LET at == {i \in DOMAIN children[c] : ContainsTime(RangeOfChildAtIndex(c, i), t)}
    IN  {children[c][i] : i \in at}

\* A stack asks each item for its trimmed range in it.
ChildrenInRange(c, s) ==
    LET touches(r) == r # NULL /\ Intersects(r, s)
        meets(k) == k \notin Transitions /\ touches(TrimmedRangeOfChild(c, k).range)
        met[i \in 0..Len(children[c])] ==
            IF i = 0 THEN <<>>
            ELSE IF meets(children[c][i]) THEN Append(met[i - 1], children[c][i])
            ELSE met[i - 1]
    IN  IF c \in Tracks THEN AllIn(children[c], RangeOfAllChildren(c), s)
        ELSE met[Len(children[c])]

\* Mutant: the range is handed down as it is.
FindChildren_Same(c, s) ==
    LET find[d \in Compositions] ==
            LET visit(out, k) == IF k \in Compositions THEN out \o find[k]
                                 ELSE IF k \in Items THEN Append(out, k) ELSE out
            IN  FoldLeft(visit, <<>>, ChildrenInRange(d, s))
    IN  find[c]

\* One round of find_children, at child k of c.  acc.at is where the search range starts
\* by now, find what searches below have found.
Visited(c, acc, k, find) ==
    IF k \in Compositions
    THEN LET u == TransformedTime(c, acc.at, k)
         IN  [at |-> u, out |-> acc.out \o find[<<k, u>>]]
    ELSE IF k \in Items THEN [at |-> acc.at, out |-> Append(acc.out, k)]
    ELSE acc

\* Composition::find_children for items: the search range is transformed into
\* the space of each composition it meets, and keeps that value for the
\* siblings that follow.
FindChildren(c, s) ==
    LET find[p \in Compositions \X Int] ==
            LET found == ChildrenInRange(p[1], TimeRange(p[2], s.dur))
                after[i \in 0..Len(found)] ==
                    IF i = 0 THEN [at |-> p[2], out |-> <<>>]
                    ELSE Visited(p[1], after[i - 1], found[i], find)
            IN  after[Len(found)].out
    IN  find[<<c, s.start>>]

\* Track::neighbors_of (without gaps) and handles_of_child: how much material
\* the transitions around a child take before and after its trimmed range.
Handles(o) ==
    LET c == parent[o]
        i == IndexOfChild(c, o)
    IN  [head |-> IF c \in Tracks /\ i > 1 THEN InOffset(children[c][i - 1]) ELSE 0,
         tail |-> IF c \in Tracks /\ i < Len(children[c]) THEN OutOffset(children[c][i + 1]) ELSE 0]

\* Item::visible_range of an item in a composition.
VisibleRange(o) ==
    LET h == Handles(o)
    IN  TimeRange(TrimmedRange(o).start - h.head, TrimmedRange(o).dur + h.head + h.tail)

--------------------------------------------------------------------------------
(* Editing: clients append objects that are in no composition yet and set      *)
(* source ranges.                                                              *)

Init ==
    /\ children = [c \in Compositions |-> <<>>]
    /\ parent = [o \in Objects |-> NULL]
    /\ source = [o \in Compositions \cup Items |-> NULL]
    /\ offset = [o \in Transitions |-> NULL]

\* A new Item with a source range, and Composition::append_child.
AppendItem(c, o, r) ==
    /\ Len(children[c]) < Capacity
    /\ parent[o] = NULL
    /\ children' = [children EXCEPT ![c] = Append(@, o)]
    /\ parent' = [parent EXCEPT ![o] = c]
    /\ source' = [source EXCEPT ![o] = r]
    /\ UNCHANGED offset

AppendTransition(c, o, offs) ==
    /\ Len(children[c]) < Capacity
    /\ parent[o] = NULL
    /\ children' = [children EXCEPT ![c] = Append(@, o)]
    /\ parent' = [parent EXCEPT ![o] = c]
    /\ offset' = [offset EXCEPT ![o] = offs]
    /\ UNCHANGED source

AppendComposition(c, o) ==
    /\ Len(children[c]) < Capacity
    /\ parent[o] = NULL /\ Top(o, c) # o
    /\ children' = [children EXCEPT ![c] = Append(@, o)]
    /\ parent' = [parent EXCEPT ![o] = c]
    /\ UNCHANGED <<source, offset>>

\* Item::set_source_range.  An item that stands somewhere keeps a range.
SetSourceRange(o, r) ==
    /\ r = NULL => o \in Compositions
    /\ o \in Items => parent[o] # NULL
    /\ source' = [source EXCEPT ![o] = r]
    /\ UNCHANGED <<children, parent, offset>>

Next ==
    \/ \E c \in Compositions, o \in Items, r \in Ranges : AppendItem(c, o, r)
    \/ \E c \in Compositions, o \in Transitions, offs \in Offsets : AppendTransition(c, o, offs)
    \/ \E c, o \in Compositions : AppendComposition(c, o)
    \/ \E o \in Compositions \cup Items, r \in Ranges \cup {NULL} : SetSourceRange(o, r)

Spec == Init /\ [][Next]_vars

--------------------------------------------------------------------------------
(* Properties.                                                                 *)

\* The children of a track and where they are, by the slow query.
Placed(c) == [i \in DOMAIN children[c] |-> RangeOfChildAtIndex(c, i)]

\* What otio-timeline-structure.md asks of transitions: no two next to each other,
\* and none reaches beyond the items at its sides.
TransitionsFit(c) ==
    \A i \in DOMAIN children[c] :
        children[c][i] \in Transitions =>
            /\ i > 1 => /\ children[c][i - 1] \notin Transitions
                        /\ offset[children[c][i]][1] <= Duration(children[c][i - 1])
            /\ i < Len(children[c]) => offset[children[c][i]][2] <= Duration(children[c][i + 1])

\* Every child takes at least one frame.
Lasting(c) == \A k \in Range(children[c]) : Duration(k) > 0

Orderly(c) == c \in Tracks /\ TransitionsFit(c) /\ Lasting(c)

\* Ranges and offsets are the ones clients gave; what is in a composition has
\* a timing.
TypeOK ==
    /\ \A c \in Compositions : Range(children[c]) \subseteq Objects
    /\ \A o \in Compositions \cup Items : source[o] \in Ranges \cup {NULL}
    /\ \A o \in Items : parent[o] # NULL => source[o] \in Ranges
    /\ \A o \in Transitions : parent[o] # NULL => offset[o] \in Offsets

\* range_of_all_children, which carries the end of the last item along, and
\* range_of_child_at_index, which adds the durations up anew, give every child
\* the same range.
RangesAgree ==
    \A c \in Compositions : \A i \in DOMAIN children[c] :
        RangeOfAllChildren(c)[children[c][i]] = RangeOfChildAtIndex(c, i)

\* The duration of the available range of a track is the distance between the
\* first frame and the end of the last frame of its children, overhanging
\* transitions included.
AvailableIsExtent ==
    \A c \in Tracks :
        source[c] = NULL /\ children[c] # <<>> /\ TransitionsFit(c)
            => Duration(c) = Max({EndExclusive(r) : r \in Range(Placed(c))})
                             - Min({r.start : r \in Range(Placed(c))})

\* Both neighbours of a transition have material for all of it: their visible
\* ranges, taken to the space of the track, contain the range of the transition
\* to its last frame (time-ranges.md, Clip.visible_range).
DissolveCovered ==
    \A c \in Tracks : \A i \in DOMAIN children[c] :
        /\ Orderly(c)
        /\ 1 < i /\ i < Len(children[c])
        /\ children[c][i] \in Transitions
        => \A k \in {children[c][i - 1], children[c][i + 1]} :
              LET seen == TransformedRange(k, VisibleRange(k), c)
                  mix == RangeOfChildAtIndex(c, i)
              IN  seen.start <= mix.start /\ EndExclusive(mix) <= EndExclusive(seen)

\* child_at_time, which bisects, finds in a track what a look at every child
\* finds: the first that contains the time.
SearchFindsFirst ==
    \A c \in Tracks, t \in Frames :
        Orderly(c) =>
            LET at == {i \in DOMAIN children[c] : ContainsTime(Placed(c)[i], t)}
            IN  ShallowChildAtTime(c, t) = IF at = {} THEN NULL ELSE children[c][Min(at)]

\* children_in_range finds in a track exactly the children that share a frame
\* with the range, in their order.
SearchFindsAll ==
    \A c \in Tracks, s \in Ranges :
        Orderly(c) /\ s.dur > 0
            => LET found == ChildrenInRange(c, s)
                   at == {i \in DOMAIN children[c] : Intersects(Placed(c)[i], s)}
               IN  IF at = {} THEN found = <<>>
                   ELSE /\ found = SubSeq(children[c], Min(at), Max(at))
                        /\ Range(found) = {children[c][i] : i \in at}

\* The clip that a search through all levels finds at a time is one that, in its
\* own space, contains that time: searching downwards and transforming agree.
FoundAtItsTime ==
    \A c \in Compositions, t \in Frames :
        LET hit == ChildAtTime(c, t)
        IN  hit \in Items => ContainsTime(TrimmedRange(hit), TransformedTime(c, t, hit))

\* range_of_child at any depth is where transformed_time_range takes the trimmed
\* range, unless a composition in between has a source range of its own.
SpacesAgree ==
    \A c \in Compositions, o \in Compositions \cup Items :
        /\ Top(c, o) = c /\ o # c
        /\ \A d \in Range(Path(c, o)) \cap Compositions : source[d] = NULL
        => RangeOfChild(c, o) = TransformedRange(o, TrimmedRange(o), c)

\* In a track with a source range, the trimmed range of a child holds exactly
\* the frames of the child that the source range shows, and a child without any
\* is refused.
TrimIsIntersection ==
    \A c \in Tracks : \A i \in DOMAIN children[c] :
        Lasting(c) /\ source[c] # NULL =>
            LET answer == TrimmedRangeOfChildAtIndex(c, i)
                shown == {t \in Frames : ContainsTime(Placed(c)[i], t) /\ ContainsTime(source[c], t)}
            IN  IF answer.status = "OK"
                THEN shown = {t \in Frames : ContainsTime(answer.range, t)}
                ELSE shown = {}

--------------------------------------------------------------------------------
(* How far comments and docs hold that the code does not keep everywhere.      *)

\* "Return the child that overlaps with the given time" (composition.h): a stack
\* never answers with another child, and if its children end in the order they
\* are in, it answers whenever some child contains the time.
StackSearchIsOrdered ==
    \A c \in Stacks, t \in Frames :
        LET hit == ShallowChildAtTime(c, t)
            ends(i) == EndExclusive(RangeOfChildAtIndex(c, i))
            ordered == \A i, j \in DOMAIN children[c] : i < j => ends(i) <= ends(j)
        IN  /\ hit # NULL => hit \in ChildrenAtTime(c, t)
            /\ ordered /\ ChildrenAtTime(c, t) # {} => hit # NULL

\* "In most cases the parent has a source_range of None, so there is no trimming"
\* (time-ranges.md): where no composition has a source range, the trimmed range
\* of a child is its range, as long as the child is at most two levels below.
NothingToTrim ==
    \A c \in Compositions, o \in Items :
        /\ Top(c, o) = c /\ Len(Path(c, o)) <= 2
        /\ \A d \in Compositions : source[d] = NULL
        => TrimmedRangeOfChild(c, o) = Answer(RangeOfChild(c, o))

\* "An optional range to limit the search" (composition.h): what is found in one
\* child of a composition does not depend on its siblings, unless a composition
\* before it keeps another time than their parent.
SearchIsPerChild ==
    \A c \in Compositions, s \in Ranges :
        LET found == ChildrenInRange(c, s)
            hits == Range(found)
            within(k) == Range(FindChildren(k, TransformedRange(c, s, k)))
            shifts(k) == k \in Compositions /\ TransformedRange(c, s, k) # s
        IN  (\A i, j \in DOMAIN found : i < j /\ found[j] \in Compositions => ~shifts(found[i]))
            => Range(FindChildren(c, s)) =
                   (hits \cap Items) \cup UNION {within(k) : k \in hits \cap Compositions}

--------------------------------------------------------------------------------
(* What the runs check, from the parts above.                                  *)

\* The queries for the ranges of children, for the extent of a track and for what
\* clips show under their transitions agree on where everything is.
PlacesAgree == TypeOK /\ RangesAgree /\ AvailableIsExtent /\ DissolveCovered

\* The bisections of child_at_time and children_in_range find in a track what a
\* look at every child finds, transitions and meeting ends included.
SearchesFind == SearchFindsFirst /\ SearchFindsAll

\* What composition.h and time-ranges.md say of searches in stacks, of trimming
\* and of searches below, as far as the code keeps it.
SearchesAsDocumented == StackSearchIsOrdered /\ NothingToTrim /\ SearchIsPerChild
================================================================================
