-------------------------------- MODULE Flatten --------------------------------
(* flatten_stack of stackAlgorithm.cpp, one turn of its loop over the children *)
(* of a track at a time, and track_trimmed_to_range of trackAlgorithm.cpp.     *)
(* Where a track shows nothing the part of the tracks below it is flattened in *)
(* its place, from a trimmed copy that is freed at the end.  The ranges of the *)
(* children are looked up in a map by the address of the track, and an address *)
(* that was freed may be taken by the next copy.                               *)
EXTENDS TrackItems, FiniteSetsExt

CONSTANTS
    Stacks,         \* what is flattened: sequences of tracks, the bottom first
    Addresses       \* bound: where tracks can be in memory

ASSUME FlattenAssumption ==
    /\ Addresses \subseteq Nat
    /\ \A s \in Stacks : s \in Seq(Range(s)) /\ NULL \notin DOMAIN s
    /\ NULL \notin Addresses

\* What a child of a track is.  No item lasts less than no time.
IsChild(k) ==
    \/ k.kind = "composable"
    \/ k.kind = "transition" /\ k.in \in Nat /\ k.out \in Nat
    \/ /\ IsItem(k) /\ DOMAIN k = {"kind", "media", "range", "warped", "enabled"}
       /\ k.range.start \in Int /\ k.range.dur \in Nat /\ k.enabled \in BOOLEAN

ASSUME ChildrenAssumption ==
    \A s \in Stacks : \A t \in Range(s) : t.kind = "track" =>
        /\ t.enabled \in BOOLEAN /\ t.kids \in Seq(Range(t.kids))
        /\ \A k \in Range(t.kids) : IsChild(k)

VARIABLES
    input,          \* the children of the stack; their addresses are their places
    list,           \* a list of tracks is given instead of the stack
    phase,          \* "prepare", "flatten", "done"
    seen,           \* how many children of the stack were looked at
    heap,           \* the children of the track at each address that is in use
    tracks,         \* the addresses of the tracks that are flattened
    ranges,         \* range_track_map
    calls,          \* the calls of _flatten_next_item, the latest last
    flat,           \* the children of the new track
    status

vars == <<input, list, phase, seen, heap, tracks, ranges, calls, flat, status>>

Track(enabled, kids) == [kind |-> "track", enabled |-> enabled, kids |-> kids]
AllTracks(s) == \A i \in DOMAIN s : s[i].kind = "track"

Init ==
    /\ input \in Stacks /\ list \in {FALSE} \cup {AllTracks(input)}
    /\ phase = "prepare" /\ seen = 0
    /\ heap = [a \in DOMAIN input |-> IF input[a].kind = "track" THEN input[a].kids ELSE <<>>]
    /\ tracks = <<>> /\ ranges = <<>> /\ calls = <<>>
    /\ flat = <<>> /\ status = "OK"

Stop(st) ==
    /\ phase' = "done" /\ status' = st
    /\ calls' = <<>> /\ ranges' = <<>>

--------------------------------------------------------------------------------
(* The tracks.  The ones of a stack count if they are enabled; those of a list *)
(* all do.                                                                     *)

Collecting == phase = "prepare" /\ seen < Len(input)
NextIn == input[seen + 1]

Mixed ==
    /\ Collecting /\ NextIn.kind # "track"
    /\ Stop("TYPE_MISMATCH")
    /\ UNCHANGED <<input, list, seen, heap, tracks, flat>>

Collect ==
    /\ Collecting /\ NextIn.kind = "track"
    /\ tracks' = IF list \/ NextIn.enabled THEN Append(tracks, seen + 1) ELSE tracks
    /\ seen' = seen + 1
    /\ UNCHANGED <<input, list, phase, heap, ranges, calls, flat, status>>

Collected == phase = "prepare" /\ seen = Len(input)

LengthAt(a) == EndOf(heap[a])
Longest == Max({0} \cup {LengthAt(a) : a \in Range(tracks)})

\* A copy takes the place of a track that is short, and is not looked at again.
Short == {i \in DOMAIN tracks : tracks[i] \in DOMAIN input /\ LengthAt(tracks[i]) < Longest}
Padded(a, i, kids) == heap' = With(heap, a, kids) /\ tracks' = [tracks EXCEPT ![i] = a]

Normalize(a) ==
    /\ Collected /\ Short # {}
    /\ LET i == Min(Short)
           missing == Longest - LengthAt(tracks[i])
       IN  Padded(a, i, Append(heap[tracks[i]], Gap(TimeRange(0, missing))))
    /\ UNCHANGED <<input, list, phase, seen, ranges, calls, flat, status>>

--------------------------------------------------------------------------------
(* track_trimmed_to_range, from the last child to the first.                   *)

\* The map has no range of a child that is neither an item nor a transition.
RangesOf(kids) ==
    [i \in DOMAIN kids |-> IF kids[i].kind = "composable" THEN NULL ELSE Places(kids)[i]]

\* The source range of an item at the range at, cut to what is in trim.
CutTo(item, at, trim) ==
    LET head == Later(trim.start - at.start, 0)
        tail == Later(EndExclusive(at) - EndExclusive(trim), 0)
    IN  Shows(item, item.range.start + head, item.range.dur - head - tail)

\* Mutant: a transition stays though a part of what it joins is cut off.
TrimRefusal_Never(child, at, trim) ==
    IF at = NULL THEN "CANNOT_COMPUTE_AVAILABLE_RANGE" ELSE "OK"

\* Why a child cannot be trimmed.
TrimRefusal(child, at, trim) ==
    IF at = NULL THEN "CANNOT_COMPUTE_AVAILABLE_RANGE"
    ELSE IF Intersects(trim, at) /\ ~ContainsRange(trim, at) /\ ~IsItem(child)
    THEN "CANNOT_TRIM_TRANSITION" ELSE "OK"

Trimmed(kids, trim) ==
    LET at == RangesOf(kids)
        refused == {i \in DOMAIN kids : TrimRefusal(kids[i], at[i], trim) # "OK"}
        kept == Only([i \in DOMAIN kids |-> i], {i \in DOMAIN kids : Intersects(trim, at[i])})
        cut(i) == IF IsItem(kids[i]) /\ ~ContainsRange(trim, at[i])
                  THEN CutTo(kids[i], at[i], trim) ELSE kids[i]
        last == Max(refused)
    IN  IF refused # {} THEN [status |-> TrimRefusal(kids[last], at[last], trim), kids |-> <<>>]
        ELSE [status |-> "OK", kids |-> [n \in DOMAIN kept |-> cut(kept[n])]]

--------------------------------------------------------------------------------
(* _flatten_next_item.                                                         *)

Call(index, trim) == [index |-> index, trim |-> trim, track |-> NULL, next |-> 1]

Begin ==
    /\ Collected /\ Short = {}
    /\ phase' = "flatten"
    /\ calls' = IF tracks = <<>> THEN <<>> ELSE <<Call(Len(tracks), NULL)>>
    /\ UNCHANGED <<input, list, seen, heap, tracks, ranges, flat, status>>

Top == Last(calls)
WithTop(top) == Append(Front(calls), top)
Flattening == phase = "flatten" /\ calls # <<>>

\* An entry that is there is used as it is.
Found(a, kids) == IF a \in DOMAIN ranges THEN ranges ELSE With(ranges, a, RangesOf(kids))

EnterWhole ==
    /\ Flattening /\ Top.track = NULL /\ Top.trim = NULL
    /\ LET a == tracks[Top.index]
       IN  /\ calls' = WithTop([Top EXCEPT !.track = a])
           /\ ranges' = Found(a, heap[a])
    /\ UNCHANGED <<input, list, phase, seen, heap, tracks, flat, status>>

Copy == Trimmed(heap[tracks[Top.index]], Top.trim)
Enters == Flattening /\ Top.track = NULL /\ Top.trim # NULL

EnterTrimmed(a) ==
    /\ Enters /\ Copy.status = "OK"
    /\ heap' = With(heap, a, Copy.kids)
    /\ calls' = WithTop([Top EXCEPT !.track = a])
    /\ ranges' = Found(a, Copy.kids)
    /\ UNCHANGED <<input, list, phase, seen, tracks, flat, status>>

EnterRefused ==
    /\ Enters /\ Copy.status # "OK"
    /\ Stop(Copy.status)
    /\ UNCHANGED <<input, list, seen, heap, tracks, flat>>

Inside == Flattening /\ Top.track # NULL
HasNext == Inside /\ Top.next \in DOMAIN heap[Top.track]
Child == heap[Top.track][Top.next]
Advanced == [Top EXCEPT !.next = @ + 1]

NeitherItemNorTransition ==
    /\ HasNext /\ Child.kind = "composable"
    /\ Stop("TYPE_MISMATCH")
    /\ UNCHANGED <<input, list, seen, heap, tracks, flat>>

Shown(c) == ~IsItem(c) \/ Visible(c)

InsertChild ==
    /\ HasNext /\ Child.kind # "composable"
    /\ Shown(Child) \/ Top.index = 1
    /\ flat' = Append(flat, Child)
    /\ calls' = WithTop(Advanced)
    /\ UNCHANGED <<input, list, phase, seen, heap, tracks, ranges, status>>

\* Mutant: the range stays one of the trimmed copy.
Hole_Local(range, trim) == range

\* The part that shows nothing, in the time of the whole tracks.
Hole(range, trim) ==
    IF trim = NULL THEN range ELSE TimeRange(range.start + trim.start, range.dur)

LookBelow ==
    /\ HasNext /\ Child.kind # "composable"
    /\ ~Shown(Child) /\ Top.index > 1
    /\ LET hole == Hole(ranges[Top.track][Top.next], Top.trim)
       IN  /\ ranges' = [ranges EXCEPT ![Top.track][Top.next] = hole]
           /\ calls' = Append(WithTop(Advanced), Call(Top.index - 1, hole))
    /\ UNCHANGED <<input, list, phase, seen, heap, tracks, flat, status>>

\* Mutant: the ranges of a copy that is freed are kept.
Forgotten_Kept(a) == ranges

Forgotten(a) == [b \in DOMAIN ranges \ {a} |-> ranges[b]]

\* The copy is freed, and its entry with it.
Leave ==
    /\ Inside /\ ~HasNext
    /\ calls' = Front(calls)
    /\ IF Top.trim = NULL THEN UNCHANGED <<ranges, heap>>
       ELSE /\ ranges' = Forgotten(Top.track)
            /\ heap' = [a \in DOMAIN heap \ {Top.track} |-> heap[a]]
    /\ UNCHANGED <<input, list, phase, seen, tracks, flat, status>>

Return ==
    /\ phase = "flatten" /\ calls = <<>>
    /\ Stop("OK")
    /\ UNCHANGED <<input, list, seen, heap, tracks, flat>>

Done == phase = "done" /\ UNCHANGED vars

Next ==
    \/ Mixed \/ Collect
    \/ \E a \in Addresses \ DOMAIN heap : Normalize(a)
    \/ Begin \/ EnterWhole
    \/ \E a \in Addresses \ DOMAIN heap : EnterTrimmed(a)
    \/ EnterRefused \/ NeitherItemNorTransition
    \/ InsertChild \/ LookBelow \/ Leave \/ Return
    \/ Done

Spec == Init /\ [][Next]_vars

--------------------------------------------------------------------------------
(* Properties.                                                                 *)

\* What a track shows at each time: the frame of the media, or NULL.
FrameAt(k, n) == IF Visible(k) THEN <<k.media, k.range.start + n - 1>> ELSE NULL
FramesOf(k) == IF IsItem(k) THEN [n \in 1..k.range.dur |-> FrameAt(k, n)] ELSE <<>>
Frames(kids) == FlattenSeq([i \in DOMAIN kids |-> FramesOf(kids[i])])

Used == Only(input, {t \in Range(input) : list \/ t.enabled})
FrameOf(t, n) == LET f == Frames(t.kids) IN IF n \in DOMAIN f THEN f[n] ELSE NULL

\* The frame that the top track with one has.
Composite(n) ==
    LET showing == {i \in DOMAIN Used : FrameOf(Used[i], n) # NULL}
    IN  IF showing = {} THEN NULL ELSE FrameOf(Used[Max(showing)], n)

Flattened == phase = "done" /\ status = "OK"

\* No track begins or ends with a transition, of which one half joins nothing but
\* counts for the length of the track.
NoneAtTheEnds ==
    \A t \in Range(Used) : \A i \in DOMAIN t.kids :
        t.kids[i].kind = "transition" => i \notin {1, Len(t.kids)}

FullLength == Max({0} \cup {Len(Frames(t.kids)) : t \in Range(Used)})

\* The flat track is as long as the longest of the tracks, and shows at each time
\* the frame of the topmost track that shows one.
ShowsTheTopmost ==
    Flattened /\ NoneAtTheEnds => Frames(flat) = [n \in 1..FullLength |-> Composite(n)]

\* Ends of an item at either side of a transition.
Joined(kids, i) ==
    {<<d, IF d = -1 THEN Last(Frames(<<kids[i + d]>>)) ELSE Head(Frames(<<kids[i + d]>>))>> :
        d \in {e \in {-1, 1} : i + e \in DOMAIN kids /\ Visible(kids[i + e])}}
TransitionsOf(kids) ==
    {[at |-> Places(kids)[i], of |-> kids[i], joined |-> Joined(kids, i)] :
        i \in {j \in DOMAIN kids : kids[j].kind = "transition"}}

\* A transition of the flat track is one of a track that was given, at the same
\* time, and between the same frames ("Cannot trim in the middle of a transition").
TransitionsStay ==
    Flattened =>
        \A t \in TransitionsOf(flat) :
            \E i \in DOMAIN Used : \E u \in TransitionsOf(Used[i].kids) :
                u.at = t.at /\ u.of = t.of /\ u.joined \subseteq t.joined

\* The tracks that were given are as they were, and nothing that was freed is used.
InputUnchanged ==
    /\ \A i \in DOMAIN input : input[i].kind = "track" => heap[i] = input[i].kids
    /\ \A n \in DOMAIN calls : calls[n].track # NULL => calls[n].track \in DOMAIN heap

\* The ranges of the children that are still to be visited are those of the track
\* that is at the address now, not of one that was there before.
RangesAreFresh ==
    \A n \in DOMAIN calls :
        LET c == calls[n]
            kids == heap[c.track]
        IN  c.track # NULL =>
                \A i \in DOMAIN kids \ 1..(c.next - 1) :
                    i \in DOMAIN ranges[c.track] /\ ranges[c.track][i] = RangesOf(kids)[i]

\* The recursion keeps apart the tracks of the client, its own copies and those it
\* has freed: the first do not change, and nothing known of the last is used.
MemoryIsSound == InputUnchanged /\ RangesAreFresh
================================================================================
