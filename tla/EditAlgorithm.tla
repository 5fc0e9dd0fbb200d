----------------------------- MODULE EditAlgorithm -----------------------------
(* The edits of algo/editAlgorithm.cpp on one track without a source range,    *)
(* over the times of one rate.  A child of the track is a record: what it      *)
(* shows of which media, or the offsets of a transition.  An edit is an        *)
(* operator from the track and its arguments to an outcome, a status and the   *)
(* track as the edit leaves it, on every path of the code.                     *)
EXTENDS TrackItems, FiniteSetsExt

CONSTANTS
    Clips,          \* media of clips
    Available,      \* the available range of each media, empty if it has none
    Sources,        \* source ranges of the items that clients make
    Offsets,        \* <<in_offset, out_offset>> of transitions
    Times,          \* bound: the times of edits and starts of ranges
    Deltas,         \* bound: by how much a head or a tail is moved
    Lengths,        \* bound: the durations of the ranges that are overwritten
    Capacity,       \* bound: children that clients append
    MaxEdits        \* bound: edits in a row

ASSUME EditAssumption ==
    /\ \A m \in Clips : Available[m] \in [start : Int, dur : Nat]
    /\ Sources \subseteq [start : Int, dur : Nat \ {0}]
    /\ \A o \in Offsets : o[1] \in Nat /\ o[2] \in Nat
    /\ Times \cup Deltas \subseteq Int /\ Lengths \subseteq Nat \ {0}
    /\ Capacity \in Nat

VARIABLES
    kids,           \* _children of the track
    status,         \* the outcome of the last edit
    edits           \* how many there were

vars == <<kids, status, edits>>

Templates == {Clip(m, r) : m \in Clips, r \in Sources} \cup {Gap(r) : r \in Sources}
Fillers == {NULL} \cup {Gap(r) : r \in Sources}

\* Item::available_range; that of a gap is empty.
AvailableRange(k) == IF k.kind = "clip" THEN Available[k.media] ELSE TimeRange(0, 0)

--------------------------------------------------------------------------------
(* What the edits ask of the track.  Children are told apart by their places.  *)

Indices(k) == [i \in DOMAIN k |-> i]

\* child_at_time, 0 if there is none, and whether it finds an item.
ChildAt(k, t) == FirstAt(Indices(k), Places(k), t, 0)
FindsItem(k, t) == ChildAt(k, t) # 0 /\ IsItem(k[ChildAt(k, t)])

\* find_children by type, shallow.
Items(k) == {i \in DOMAIN k : IsItem(k[i])}
ChildrenIn(k, r) == AllIn(Indices(k), Places(k), r)
ItemsIn(k, r) == Only(ChildrenIn(k, r), Items(k))
TransitionsIn(k, r) == Only(ChildrenIn(k, r), DOMAIN k \ Items(k))

\* insert_child counts from 0 and appends at any index beyond the end.
InsertChild(k, index, c) ==
    IF index >= Len(k) THEN Append(k, c) ELSE InsertAt(k, Max({index, 0}) + 1, c)

\* remove_child of a Retainer: its conversion to bool is the index 1, and an
\* index beyond the end removes the last child.
RemoveRetained(k) ==
    IF k = <<>> THEN k ELSE IF Len(k) = 1 THEN <<>> ELSE RemoveAt(k, 2)

\* The transitions found in r are removed in turn, those that are still there.
WithoutTransitions(k, r) ==
    LET found == TransitionsIn(k, r)
        left[n \in 0..Len(found)] ==
            IF n = 0 THEN Indices(k)
            ELSE IF found[n] \in Range(left[n - 1]) THEN RemoveRetained(left[n - 1])
            ELSE left[n - 1]
        last == left[Len(found)]
    IN  [j \in DOMAIN last |-> k[last[j]]]

Done(k) == [status |-> "OK", kids |-> k]

Refused(st, k) == [status |-> st, kids |-> k]

\* The gap that fills n frames, or the client's template as it is.
Filler(template, n) == IF template = NULL THEN Gap(TimeRange(0, n)) ELSE template

--------------------------------------------------------------------------------
(* overwrite.                                                                  *)

\* The item is appended, after a fill.
OverwriteAfter(k, c, t, template) ==
    LET n == t - EndOf(k)
    IN  IF n = 0 THEN Append(k, c) ELSE k \o <<Filler(template, n), c>>

OverwriteBefore(k, c, r, template) ==
    <<c, Filler(template, 0 - r.start - r.dur)>> \o k

\* Mutant: the second part starts where the first ends.
OverwriteWithin_Overlap(k, i, c, r) ==
    LET old == k[i]
        first == r.start - Places(k)[i].start
        second == Duration(old) - r.dur - first
        new == IF r.dur < c.range.dur THEN Shows(c, old.range.start, r.dur) ELSE c
    IN  SubSeq(k, 1, i - 1)
            \o (IF first = 0 THEN <<>> ELSE <<Shows(old, old.range.start, first)>>)
            \o <<new>>
            \o (IF second = 0 THEN <<>> ELSE <<Shows(old, old.range.start + first, second)>>)
            \o SubSeq(k, i + 1, Len(k))

\* A part of one item is overwritten.  A longer item is cut to the range, and
\* shows what is at the start of the source range of the old one, unless it
\* is there to fit a gap.
OverwriteWithin(k, i, c, r) ==
    LET old == k[i]
        first == r.start - Places(k)[i].start
        second == Duration(old) - r.dur - first
        fit == old.kind = "gap" /\ c.warped
        new == IF r.dur < c.range.dur /\ ~fit THEN Shows(c, old.range.start, r.dur) ELSE c
    IN  SubSeq(k, 1, i - 1)
            \o (IF first = 0 THEN <<>> ELSE <<Shows(old, old.range.start, first)>>)
            \o <<new>>
            \o (IF second = 0 THEN <<>>
                ELSE <<Shows(old, old.range.start + first + r.dur, second)>>)
            \o SubSeq(k, i + 1, Len(k))

\* What is left of the last item, as the code reckons it.
LastPart(old, left, r, alone) ==
    IF alone THEN Shows(old, old.range.start + r.dur, left + r.start)
    ELSE Shows(old, old.range.start + left, old.range.dur - left)

\* As many children are removed as there are items that are covered.
Uncovered(k, covered) ==
    LET left[n \in 0..covered] == IF n = 0 THEN k ELSE RemoveRetained(left[n - 1])
    IN  left[covered]

\* Several items, or parts of one at its ends.
OverwriteAcross(k, found, c, r) ==
    LET at == Places(k)
        a == Head(found)
        b == Last(found)
        headStays == at[a].start < r.start
        left == EndInclusive(at[b]) - EndInclusive(r)
        tailStays == left > 0
        parts == [i \in DOMAIN k |->
                     IF tailStays /\ i = b THEN LastPart(k[b], left, r, Len(found) = 1)
                     ELSE IF headStays /\ i = a THEN Shows(k[a], k[a].range.start, r.start - at[a].start)
                     ELSE k[i]]
        covered == Len(found) - (IF headStays THEN 1 ELSE 0) - (IF tailStays THEN 1 ELSE 0)
    IN  InsertChild(Uncovered(parts, covered), a - 1 + (IF headStays THEN 1 ELSE 0), Shows(c, c.range.start, r.dur))

\* The range contains, ends included.
Holds(r, o) == r.start <= o.start /\ EndExclusive(o) <= EndExclusive(r)

OverwriteItems(k, c, r) ==
    LET found == ItemsIn(k, r)
    IN  IF found = <<>> THEN Refused("NOT_AN_ITEM", k)
        ELSE IF Len(found) = 1 /\ Holds(Places(k)[found[1]], r)
        THEN Done(OverwriteWithin(k, found[1], c, r))
        ELSE Done(OverwriteAcross(k, found, c, r))

Overwrite(k, c, r, strip, template) ==
    IF r.start >= EndOf(k) THEN Done(OverwriteAfter(k, c, r.start, template))
    ELSE IF r.start < 0 /\ EndExclusive(r) < 0 THEN Done(OverwriteBefore(k, c, r, template))
    ELSE OverwriteItems(IF strip THEN WithoutTransitions(k, r) ELSE k, c, r)

--------------------------------------------------------------------------------
(* insert, slice, remove.                                                      *)

\* No item is found at t.
InsertOutside(k, c, t, template) ==
    IF t >= EndOf(k) THEN Done(OverwriteAfter(k, c, t, template))
    ELSE IF t < 0 THEN Done(<<c>> \o k)
    ELSE Refused("INTERNAL_ERROR", k)

\* Mutant: the new item replaces the second part.
InsertInto_Lossy(k, i, c, t) ==
    LET at == Places(k)[i]
        first == t - at.start
    IN  IF first = 0 THEN InsertChild(k, i - 1, c)
        ELSE SubSeq(k, 1, i - 1) \o <<Shows(k[i], k[i].range.start, first), c>>
                \o SubSeq(k, i + 1, Len(k))

\* The item at place i is split at t.  The second part starts later by where the
\* new item starts in the track and by how long it is.
InsertInto(k, i, c, t) ==
    LET at == Places(k)[i]
        old == k[i]
        first == t - at.start
        rest == EndExclusive(at) - t
    IN  IF first = 0 THEN InsertChild(k, i - 1, c)
        ELSE SubSeq(k, 1, i - 1)
                \o <<Shows(old, old.range.start, first), c,
                     Shows(old, old.range.start + t + Duration(c), rest)>>
                \o SubSeq(k, i + 1, Len(k))

Insert(k, c, t, strip, template) ==
    LET bare == IF strip THEN WithoutTransitions(k, TimeRange(t, 1)) ELSE k
    IN  IF FindsItem(bare, t) THEN Done(InsertInto(bare, ChildAt(bare, t), c, t))
        ELSE InsertOutside(bare, c, t, template)

\* The transitions at the sides of place i that contain t.
CutBy(k, i, t) ==
    {j \in {i - 1, i + 1} \cap DOMAIN k : ~IsItem(k[j]) /\ ContainsTime(Places(k)[j], t)}

\* Mutant: the second part is as long as the item was.
SliceItem_Long(k, i, t, strip) ==
    LET n == t - Places(k)[i].start
    IN  IF n = 0 THEN Done(k)
        ELSE Done(InsertChild([k EXCEPT ![i].range.dur = n], i,
                              Shows(k[i], k[i].range.start + n, Duration(k[i]))))

\* A cut at the start of an item does nothing.  The index of the item is taken
\* before the transitions at its sides are removed, and where the second part is
\* put is reckoned from it.
SliceItem(k, i, t, strip) ==
    LET n == t - Places(k)[i].start
        cut == CutBy(k, i, t)
        cutItem == [k EXCEPT ![i].range.dur = n]
        before == IF i + 1 \in cut THEN RemoveAt(cutItem, i + 1) ELSE cutItem
        bare == IF i - 1 \in cut THEN RemoveAt(before, i - 1) ELSE before
    IN  IF n = 0 THEN Done(k)
        ELSE IF cut # {} /\ ~strip THEN Refused("CANNOT_TRIM_TRANSITION", k)
        ELSE Done(InsertChild(bare, i,
                              Shows(k[i], k[i].range.start + n, Duration(k[i]) - n)))

Slice(k, t, strip) ==
    IF FindsItem(k, t) THEN SliceItem(k, ChildAt(k, t), t, strip)
    ELSE Refused("NOT_AN_ITEM", k)

\* A gap takes over the range of the item it replaces.
RemoveItem(k, i, fill, template) ==
    LET filler == IF template = NULL THEN Gap(k[i].range) ELSE template
    IN  IF fill THEN ReplaceAt(k, i, filler) ELSE RemoveAt(k, i)

RemoveAtTime(k, t, fill, template) ==
    IF FindsItem(k, t) THEN Done(RemoveItem(k, ChildAt(k, t), fill, template))
    ELSE Refused("NOT_AN_ITEM", k)

--------------------------------------------------------------------------------
(* Edits of the item at place i.                                               *)

IsGapAt(k, i) == i \in DOMAIN k /\ k[i].kind = "gap"

Stretch(k, i, by) == [k EXCEPT ![i].range.dur = @ + by]

\* The head of a trim: the item before gives or takes the frames.
TrimHead(k, i, din) ==
    LET k1 == IF din # 0 /\ i > 1 THEN Stretch(k, i - 1, din) ELSE k
    IN  [k1 EXCEPT ![i].range = TimeRange(@.start + din, @.dur - din)]

\* The tail: it grows into a gap, which is left as it is, and shrinks before
\* anything; a gap after it is moved and made shorter, else the hole is filled.
TrimTail(k, i, dout, template) ==
    IF dout = 0 \/ i = Len(k) \/ (dout > 0 /\ ~IsGapAt(k, i + 1)) THEN k
    ELSE LET k1 == Stretch(k, i, dout)
         IN  IF dout > 0 THEN k1
             ELSE IF IsGapAt(k, i + 1)
             THEN [k1 EXCEPT ![i + 1].range = TimeRange(@.start - dout, @.dur + dout)]
             ELSE InsertAt(k1, i + 1, Filler(template, 0 - dout))

Trim(k, i, din, dout, template) == Done(TrimTail(TrimHead(k, i, din), i, dout, template))

\* Mutant: only the start is clamped.
Slip_Late(k, i, d) ==
    LET a == AvailableRange(k[i])
        start == k[i].range.start + d
    IN  Done([k EXCEPT ![i].range.start =
                  IF a.dur # 0 /\ start < a.start THEN a.start ELSE start])

Slip(k, i, d) ==
    LET a == AvailableRange(k[i])
        start == k[i].range.start + d
        over == start + Duration(k[i]) - EndExclusive(a)
    IN  Done([k EXCEPT ![i].range.start =
                  IF a.dur = 0 THEN start
                  ELSE IF start < a.start THEN a.start
                  ELSE IF over > 0 THEN start - over
                  ELSE start])

\* As far as the media of an item that lasts n frames allows; only the length of
\* what is available is looked at.
Reach(k, d) ==
    LET a == AvailableRange(k)
    IN  IF a.dur # 0 /\ Duration(k) + d > a.dur THEN a.dur - Duration(k) ELSE d

\* The item itself stays as it is; the one before it changes its length.
Slide(k, i, d) ==
    IF i = 1 \/ d = 0 \/ (d < 0 /\ Duration(k[i - 1]) <= 0 - d) THEN Done(k)
    ELSE Done(Stretch(k, i - 1, IF d < 0 THEN d ELSE Reach(k[i - 1], d)))

\* How far the start moves: to 0 if the delta is before the start.
RippleIn(r, d) ==
    IF d = 0 THEN 0
    ELSE IF d < r.start THEN 0 - r.start
    ELSE IF r.start + d > EndExclusive(r) THEN d - EndExclusive(r)
    ELSE d

Ripple(k, i, din, dout) ==
    LET in == RippleIn(k[i].range, din)
        out == IF dout > 0 THEN Reach(k[i], dout) ELSE dout
    IN  Done([k EXCEPT ![i].range = TimeRange(@.start + in, @.dur - in + out)])

\* The clamp of the item before counts in the wrong direction.
RollBack(k, i, d) ==
    LET n == Duration(k[i - 1])
    IN  IF i > 1 /\ n < 0 - d THEN d - (n - 1) ELSE d

\* Mutant: the item before is left as it is.
RollIn_Alone(k, i, din) ==
    IF din = 0 THEN k ELSE [k EXCEPT ![i].range = TimeRange(@.start + din, @.dur - din)]

\* The start of the item and the end of the one before it.
RollIn(k, i, din) ==
    LET r == k[i].range
        a == AvailableRange(k[i])
        in == RollBack(k, i, IF 0 - din > r.start THEN 0 - r.start ELSE din)
        start == IF a.dur # 0 /\ r.start + in < a.start THEN a.start ELSE r.start + in
        k1 == IF i > 1 THEN Stretch(k, i - 1, in) ELSE k
    IN  IF din = 0 THEN k
        ELSE [k1 EXCEPT ![i].range = FromStartEnd(start, EndExclusive(r))]

\* The end of the item and the start of the one after, which keeps its length.
RollOut(k, i, dout) ==
    LET next == k[i + 1].range
        least == IF AvailableRange(k[i]).dur # 0 THEN AvailableRange(k[i + 1]).start ELSE next.start
        out == IF 0 - dout > least THEN 0 - least ELSE dout
    IN  IF dout = 0 \/ i = Len(k) THEN k
        ELSE [Stretch(k, i, out) EXCEPT ![i + 1].range.start = @ + out]

Roll(k, i, din, dout) == Done(RollOut(RollIn(k, i, din), i, dout))

--------------------------------------------------------------------------------
(* fill.                                                                       *)

\* The clip is cut to the source range of the gap, then to the rest of the gap.
FillSequence(k, i, c, t) ==
    LET gap == k[i].range
        start == Later(c.range.start, gap.start)
        n == IF EndExclusive(c.range) > EndExclusive(gap) THEN EndExclusive(gap) - start
             ELSE c.range.dur - (start - c.range.start)
        rest == EndExclusive(Places(k)[i]) - t
    IN  Overwrite(k, Shows(c, start, n), TimeRange(t, Earlier(n, rest)), TRUE, NULL)

\* A plain Item, without the media of the clip, takes its source range as it is
\* and a time warp.
FillFit(k, i, c, t) ==
    LET plain == [Gap(c.range) EXCEPT !.kind = "item", !.warped = TRUE]
    IN  Overwrite(k, plain, TimeRange(t, EndExclusive(Places(k)[i]) - t), TRUE, NULL)

Fill(k, c, t, reference) ==
    LET i == ChildAt(k, t)
    IN  IF ~IsGapAt(k, i) THEN Refused("NOT_A_GAP", k)
        ELSE CASE reference = "Sequence" -> FillSequence(k, i, c, t)
               [] reference = "Fit" -> FillFit(k, i, c, t)
               [] reference = "Source" -> Overwrite(k, c, TimeRange(t, c.range.dur), TRUE, NULL)

--------------------------------------------------------------------------------
(* Clients append children and edit.                                           *)

\* What the code reads through without a check: the neighbours an edit changes
\* are items.
ItemAt(k, i) == i \in DOMAIN k => IsItem(k[i])

\* An edit whose outcome has an item of no frames is not followed further.
Usable(k) == \A i \in DOMAIN k : IsItem(k[i]) => Duration(k[i]) > 0

Become(outcome) ==
    /\ edits < MaxEdits
    /\ Usable(outcome.kids)
    /\ kids' = outcome.kids
    /\ status' = outcome.status
    /\ edits' = edits + 1

Init == kids = <<>> /\ status = "OK" /\ edits = 0

AppendChild(c) ==
    /\ edits = 0 /\ Len(kids) < Capacity
    /\ kids' = Append(kids, c)
    /\ UNCHANGED <<status, edits>>

DoOverwrite(c, r, strip, template) == Become(Overwrite(kids, c, r, strip, template))
DoInsert(c, t, strip, template) == Become(Insert(kids, c, t, strip, template))
DoSlice(t, strip) == Become(Slice(kids, t, strip))
DoRemove(t, fill, template) == Become(RemoveAtTime(kids, t, fill, template))
DoFill(c, t, reference) == Become(Fill(kids, c, t, reference))
DoTrim(i, din, dout, template) ==
    (din # 0 => ItemAt(kids, i - 1)) /\ Become(Trim(kids, i, din, dout, template))
DoSlip(i, d) == Become(Slip(kids, i, d))
DoSlide(i, d) == ItemAt(kids, i - 1) /\ Become(Slide(kids, i, d))
DoRipple(i, din, dout) == Become(Ripple(kids, i, din, dout))
DoRoll(i, din, dout) ==
    /\ din # 0 => ItemAt(kids, i - 1)
    /\ dout # 0 => ItemAt(kids, i + 1)
    /\ Become(Roll(kids, i, din, dout))

Next ==
    \/ \E c \in Templates \cup {Transition(o) : o \in Offsets} : AppendChild(c)
    \/ \E c \in Templates, t \in Times, n \in Lengths, strip \in BOOLEAN, template \in Fillers :
          DoOverwrite(c, TimeRange(t, n), strip, template)
    \/ \E c \in Templates, t \in Times, strip \in BOOLEAN, template \in Fillers :
          DoInsert(c, t, strip, template)
    \/ \E t \in Times, strip \in BOOLEAN : DoSlice(t, strip)
    \/ \E t \in Times, fill \in BOOLEAN, template \in Fillers : DoRemove(t, fill, template)
    \/ \E c \in Templates, t \in Times, reference \in {"Source", "Sequence", "Fit"} :
          DoFill(c, t, reference)
    \/ \E i \in Items(kids), d, e \in Deltas, template \in Fillers : DoTrim(i, d, e, template)
    \/ \E i \in Items(kids), d \in Deltas : DoSlip(i, d)
    \/ \E i \in Items(kids), d \in Deltas : DoSlide(i, d)
    \/ \E i \in Items(kids), d, e \in Deltas : DoRipple(i, d, e)
    \/ \E i \in Items(kids), d, e \in Deltas : DoRoll(i, d, e)

Spec == Init /\ [][Next]_vars

--------------------------------------------------------------------------------
(* Properties.  Each holds of every track that clients and edits can make, for *)
(* the edit with any arguments.                                                *)

\* What a track plays: the frames of its items one after the other.
FramesOf(c) ==
    [f \in 1..(IF IsItem(c) THEN Duration(c) ELSE 0) |->
        IF c.kind = "gap" THEN NULL ELSE <<c.media, c.range.start + f - 1>>]
Frames(k) == FlattenSeq([i \in DOMAIN k |-> FramesOf(k[i])])

\* The frames s with n of them, after the first t, replaced; nothing is played
\* between the end and a later t.
Replaced(s, t, n, new) ==
    LET longer == s \o [i \in 1..(t - Len(s)) |-> NULL]
    IN  SubSeq(longer, 1, t) \o new \o SubSeq(longer, t + n + 1, Len(longer))

Nothing(n) == [i \in 1..n |-> NULL]

OnlyItems(k) == Items(k) = DOMAIN k

\* The children that a track can have: items of these kinds that show these media,
\* and transitions.
ItemsOf(kinds, media) ==
    [kind : kinds, media : media, range : [start : Int, dur : Int], warped : BOOLEAN, enabled : BOOLEAN]
ItemRecords == ItemsOf({"clip"}, Clips) \cup ItemsOf({"gap", "item"}, {NULL})
Children == ItemRecords \cup [kind : {"transition"}, in : Nat, out : Nat]

\* Outcomes, and children of a known shape; an edit adds two children at most.
TypeOK ==
    /\ status \in {"OK", "NOT_AN_ITEM", "NOT_A_GAP", "INTERNAL_ERROR", "CANNOT_TRIM_TRANSITION"}
    /\ edits \in Nat /\ Len(kids) <= Capacity + 2 * edits
    /\ kids \in Seq(Children) /\ Usable(kids)

\* slice: the track plays the same, and an item begins at the cut.  (Not if the
\* transition before the item is in the way: the parts then change places.)
SlicePlaysTheSame ==
    \A t \in Times : FindsItem(kids, t) /\ ChildAt(kids, t) - 1 \notin CutBy(kids, ChildAt(kids, t), t) =>
        LET after == Slice(kids, t, TRUE).kids
        IN  /\ Frames(after) = Frames(kids)
            /\ \E i \in Items(after) : Places(after)[i].start = t

\* remove: everything else plays the same, at the same time if the hole is
\* filled, and otherwise with the hole closed.
RemoveLeavesHole ==
    \A t \in Times : FindsItem(kids, t) =>
        LET at == Places(kids)[ChildAt(kids, t)]
            without(fill) == Frames(RemoveAtTime(kids, t, fill, NULL).kids)
        IN  /\ without(TRUE) = Replaced(Frames(kids), at.start, at.dur, Nothing(at.dur))
            /\ without(FALSE) = Replaced(Frames(kids), at.start, at.dur, <<>>)

\* insert, where no transition is in the way: "the end result is L1 + L2"
\* (editAlgorithm.h), the new item plays at its time, what was before it is as it
\* was, and so is what comes after it if no item is split.
InsertMakesRoom ==
    \A c \in Templates, t \in Times : OnlyItems(kids) /\ 0 <= t /\ t <= EndOf(kids) =>
        LET after == Frames(Insert(kids, c, t, TRUE, NULL).kids)
            boundary == \A i \in DOMAIN kids : ContainsTime(Places(kids)[i], t) => Places(kids)[i].start = t
        IN  /\ Len(after) = Len(Frames(kids)) + Duration(c)
            /\ SubSeq(after, 1, t + Duration(c)) = SubSeq(Frames(kids), 1, t) \o FramesOf(c)
            /\ boundary => after = Replaced(Frames(kids), t, 0, FramesOf(c))

\* overwrite inside one item, from inside an item beyond its end if that is the
\* last, or after the end: the range plays the new item of that length, all else
\* is as it was.
OverwriteReplaces ==
    \A c \in Templates, t \in Times : OnlyItems(kids) /\ 0 <= t =>
        LET r == TimeRange(t, Duration(c))
            found == ItemsIn(kids, r)
            place == Places(kids)[found[1]]
        IN  t >= EndOf(kids) \/ (Len(found) = 1 /\ (place.start < t \/ Holds(place, r)))
                => Frames(Overwrite(kids, c, r, TRUE, NULL).kids)
                       = Replaced(Frames(kids), t, Duration(c), FramesOf(c))

\* fill by Sequence, of a clip that shares a frame with the gap's source range:
\* the track keeps its length, and outside the gap everything is as it was.
FillStaysInGap ==
    \A c \in Templates, t \in Times : OnlyItems(kids) /\ IsGapAt(kids, ChildAt(kids, t)) =>
        LET i == ChildAt(kids, t)
            before == Frames(kids)
            after == Frames(Fill(kids, c, t, "Sequence").kids)
            end == EndExclusive(Places(kids)[i])
        IN  Intersects(c.range, kids[i].range) =>
                /\ Len(after) = Len(before)
                /\ SubSeq(after, 1, t) = SubSeq(before, 1, t)
                /\ SubSeq(after, end + 1, Len(after)) = SubSeq(before, end + 1, Len(before))

\* trim of a tail that gives frames up to something that is not a gap: nothing
\* moves, "Fill now-empty time with gap" (editAlgorithm.h).
TrimLeavesHole ==
    \A i \in Items(kids), d \in Deltas :
        /\ d < 0 /\ 0 - d < Duration(kids[i])
        /\ i < Len(kids) /\ ~IsGapAt(kids, i + 1)
        => LET end == EndExclusive(Places(kids)[i])
           IN  Frames(Trim(kids, i, 0, d, NULL).kids)
                   = Replaced(Frames(kids), end + d, 0 - d, Nothing(0 - d))

InMedia(c) ==
    c.range.start >= AvailableRange(c).start /\ EndExclusive(c.range) <= EndExclusive(AvailableRange(c))
FromStart(c) == c.range.start = AvailableRange(c).start

\* slip, slide and ripple clamp: an item that shows what its media has shows
\* no other frames after it, as many as before if it slips.  (Slide and ripple
\* look at the length only, so the item must show its media from the start.)
ClampedToMedia ==
    \A i \in Items(kids), d \in Deltas :
        AvailableRange(kids[i]).dur > 0 /\ InMedia(kids[i]) =>
            /\ LET slipped == Slip(kids, i, d).kids[i]
               IN  InMedia(slipped) /\ Duration(slipped) = Duration(kids[i])
            /\ FromStart(kids[i]) /\ d > 0 => InMedia(Ripple(kids, i, 0, d).kids[i])
            /\ FromStart(kids[i]) /\ i < Len(kids) /\ IsItem(kids[i + 1]) =>
                LET slid == Slide(kids, i + 1, d).kids[i] IN InMedia(slid) /\ Duration(slid) > 0

\* roll of a head, by less than the items have and the media gives: outside the
\* two items nothing changes or moves (editAlgorithm.h).
RollStaysBetween ==
    \A i \in Items(kids), d \in Deltas :
        /\ i > 1 /\ IsItem(kids[i - 1])
        /\ d < Duration(kids[i]) /\ 0 - d < Duration(kids[i - 1]) /\ 0 - d <= kids[i].range.start
        /\ AvailableRange(kids[i]).dur > 0 => kids[i].range.start + d >= AvailableRange(kids[i]).start
        => LET before == Frames(kids)
               after == Frames(Roll(kids, i, d, 0).kids)
               from == Places(kids)[i - 1].start
               to == EndExclusive(Places(kids)[i])
           IN  /\ Len(after) = Len(before)
               /\ SubSeq(after, 1, from) = SubSeq(before, 1, from)
               /\ SubSeq(after, to + 1, Len(after)) = SubSeq(before, to + 1, Len(before))

\* What an edit does not name plays on as it did, at its time: removing, filling a
\* gap, trimming a tail and rolling a head keep their changes to the items they
\* are about, and leave a track of known shape.
RestStaysInPlace ==
    TypeOK /\ RemoveLeavesHole /\ FillStaysInGap /\ TrimLeavesHole /\ RollStaysBetween
================================================================================
