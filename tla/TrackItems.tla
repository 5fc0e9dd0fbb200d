------------------------------- MODULE TrackItems -------------------------------
(* The children of one track, for the algorithms that rebuild tracks: a record *)
(* each, with what it shows of which media, or the offsets of a transition.    *)
(* The times are of one rate, and the track has no source range.               *)
EXTENDS Bisection

CONSTANT NULL   \* nullptr and nullopt

Clip(m, r) == [kind |-> "clip", media |-> m, range |-> r, warped |-> FALSE, enabled |-> TRUE]
Gap(r) == [kind |-> "gap", media |-> NULL, range |-> r, warped |-> FALSE, enabled |-> TRUE]
Disabled(item) == [item EXCEPT !.enabled = FALSE]
Transition(offs) == [kind |-> "transition", in |-> offs[1], out |-> offs[2]]

IsItem(k) == k.kind \notin {"transition", "composable"}
Duration(k) == IF IsItem(k) THEN k.range.dur ELSE k.in + k.out

Shows(k, start, dur) == [k EXCEPT !.range = TimeRange(start, dur)]

\* Item::visible and Gap::visible
Visible(k) == IsItem(k) /\ k.kind # "gap" /\ k.enabled

\* How long a child is for the track, and where the children end: Laid(k)[i] is the
\* end of the first i of them.
Long(k) == IF IsItem(k) THEN Duration(k) ELSE 0
Laid(k) == Sums([i \in DOMAIN k |-> Long(k[i])])

\* range_of_all_children.  Children are told apart by their places.
Places(k) ==
    LET end == Laid(k)
    IN  [i \in DOMAIN k |-> TimeRange(end[i - 1] - IF IsItem(k[i]) THEN 0 ELSE k[i].in,
                                      Duration(k[i]))]

\* The end of Track::available_range.
EndOf(k) ==
    IF k = <<>> THEN 0
    ELSE Laid(k)[Len(k)] + (IF Head(k).kind = "transition" THEN Head(k).in ELSE 0)
                         + (IF Last(k).kind = "transition" THEN Last(k).out ELSE 0)

================================================================================
