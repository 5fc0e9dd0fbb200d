--------------------------- MODULE SequenceProtocol ---------------------------
(*****************************************************************************)
(* The list-like face of four C++ containers in Python: AnyVector, the       *)
(* vectors of markers and effects ("proxy"), SerializableCollection          *)
(* ("collection") and Composition ("composition").  The bindings give        *)
(* __internal_getitem__, _setitem__, _delitem__ and _insert; a mixin         *)
(* (_add_mutable_sequence_methods) builds the rest on them, and is compared  *)
(* here with what a Python list does.  Indices count from 0, as in Python;   *)
(* list holds what the container holds, from 1.                              *)
(*                                                                           *)
(* Bounds: Values, Capacity, the indices of Ends and the steps of Steps; what*)
(* is assigned to a slice is another sequence of at most two values, never   *)
(* the container itself; compositions are given no index below minus twice   *)
(* their length (there remove_child reads outside the list).                 *)
(*****************************************************************************)
EXTENDS Integers, SequencesExt

CONSTANTS Kinds,     \* of the four names above
          Values,    \* what is stored; for a composition children
          Elsewhere, \* children that have another parent
          NULL,      \* None
          Ends,      \* the starts and stops of slices, and indices
          Steps,     \* of extended slices
          Capacity

ASSUME SequenceAssumption ==
    /\ Kinds \subseteq {"any", "proxy", "collection", "composition"}
    /\ Elsewhere \subseteq Values
    /\ Ends \subseteq Int /\ Steps \subseteq Int \ {0} /\ Capacity \in Nat
    /\ NULL \notin Ends \cup Values

VARIABLES kind, list

vars == <<kind, list>>

Done(s) == [ok |-> TRUE, list |-> s]
Refused(s) == [ok |-> FALSE, list |-> s]   \* an exception, and what it leaves

-------------------------------------------------------------------------------
(* The bindings.                                                             *)

Adjusted(i, n) == IF i < 0 THEN n + i ELSE i

\* The bindings of SerializableCollection and Composition adjust an index, and
\* so does the method they call.
Position(k, i, n) ==
    IF k \in {"any", "proxy"} THEN Adjusted(i, n) ELSE Adjusted(Adjusted(i, n), n)

InRange(p, s) == 0 <= p /\ p < Len(s)

\* A child may not be added that has a parent.
Taken(k, s, v) == k = "composition" /\ (v \in Range(s) \/ v \in Elsewhere)

InternalGet(s, i) ==
    IF InRange(Adjusted(i, Len(s)), s) THEN s[Adjusted(i, Len(s)) + 1] ELSE NULL

InternalSet(k, s, i, v) ==
    LET p == Position(k, i, Len(s))
    IN  IF ~InRange(p, s) THEN Refused(s)
        ELSE IF s[p + 1] # v /\ Taken(k, s, v) THEN Refused(s)
        ELSE Done(ReplaceAt(s, p + 1, v))

\* Mutant: an index at the last place appends.
InternalInsert_Late(k, s, i, v) ==
    LET p == Position(k, i, Len(s))
    IN  IF Taken(k, s, v) THEN Refused(s)
        ELSE IF p + 1 >= Len(s) \/ (p < 0 /\ k \in {"any", "proxy"}) THEN Done(Append(s, v))
        ELSE Done(InsertAt(s, IF p < 0 THEN 1 ELSE p + 1, v))

\* A negative index that is still negative is a large one to AnyVector and the
\* proxies, which compare it as size_t, and the first place to the others.
InternalInsert(k, s, i, v) ==
    LET p == Position(k, i, Len(s))
    IN  IF Taken(k, s, v) THEN Refused(s)
        ELSE IF p >= Len(s) \/ (p < 0 /\ k \in {"any", "proxy"}) THEN Done(Append(s, v))
        ELSE Done(InsertAt(s, IF p < 0 THEN 1 ELSE p + 1, v))

\* Every index outside the list deletes the last value.
InternalDel(k, s, i) ==
    LET p == Position(k, i, Len(s))
    IN  IF s = <<>> THEN Refused(s)
        ELSE IF InRange(p, s) THEN Done(RemoveAt(s, p + 1)) ELSE Done(Front(s))

-------------------------------------------------------------------------------
(* slice.indices and range of Python.                                        *)

Indices(start, stop, step, n) ==
    LET low == IF step > 0 THEN 0 ELSE -1
        high == IF step > 0 THEN n ELSE n - 1
        clip(i) == IF i < 0 THEN (IF i + n < low THEN low ELSE i + n)
                   ELSE IF i > high THEN high ELSE i
        first == IF start # NULL THEN clip(start) ELSE IF step > 0 THEN low ELSE high
        last == IF stop # NULL THEN clip(stop) ELSE IF step > 0 THEN high ELSE low
        room == IF step > 0 THEN last - first ELSE first - last
        width == IF step > 0 THEN step ELSE -step
    IN  [j \in 1..(IF room <= 0 THEN 0 ELSE (room + width - 1) \div width)
             |-> first + (j - 1) * step]

-------------------------------------------------------------------------------
(* The mixin.                                                                *)

\* One call after the other, each on the list that the one before left, until one
\* is refused; calls[j][l] is the answer of call j on the list l.
Then(answer, next) == IF answer.ok THEN next ELSE answer
InTurn(s, calls) ==
    LET after[j \in 0..Len(calls)] ==
            IF j = 0 THEN Done(s)
            ELSE LET before == after[j - 1] IN Then(before, calls[j][before.list])
    IN  after[Len(calls)]

Lists == Seq(Values)

DeleteAll(k, s, ixs) ==
    InTurn(s, [j \in 1..Len(ixs) |-> [l \in Lists |-> InternalDel(k, l, ixs[j])]])

\* Values inserted one behind the other; __internal_insert of an AnyVector takes
\* none that was not converted, and here none is.
InsertAll(k, s, start, items) ==
    InTurn(s, [j \in 1..Len(items) |-> [l \in Lists |->
                  IF k = "any" THEN Refused(l)
                  ELSE InternalInsert(k, l, start + j - 1, items[j])]])

SetAll(k, s, ixs, items) ==
    InTurn(s, [j \in 1..Len(ixs) |-> [l \in Lists |-> InternalSet(k, l, ixs[j], items[j])]])

\* Pop until empty, and extend with the children of before.
Emptied(k, s) == DeleteAll(k, s, [j \in 1..Len(s) |-> -1]).list
Extended(k, s, before) ==
    InTurn(s, [j \in 1..Len(before) |-> [l \in Lists |->
                  InternalInsert(k, l, Len(l), before[j])]]).list
Restored(k, s, before) == Refused(Extended(k, Emptied(k, s), before))

\* Mutant: what was inserted before the failure stays.
Replaced_Half(k, s, ixs, start, items) ==
    InsertAll(k, DeleteAll(k, s, Reverse(ixs)).list, start, items)

\* Deletes from the back, inserts, and for a composition makes good a failure.
Replaced(k, s, ixs, start, items) ==
    LET answer == InsertAll(k, DeleteAll(k, s, Reverse(ixs)).list, start, items)
    IN  IF answer.ok \/ k # "composition" THEN answer ELSE Restored(k, answer.list, s)

\* __setitem__ of a slice without a step; mutable says whether items is a
\* MutableSequence.
SetSlice(k, s, start, stop, items, mutable) ==
    LET ixs == Indices(start, stop, 1, Len(s))
    IN  IF k # "composition" /\ mutable /\ Len(items) = Len(ixs)
        THEN SetAll(k, s, ixs, items)
        ELSE Replaced(k, s, ixs, IF start = NULL THEN 0 ELSE start, items)

\* __setitem__ of a slice with a step.  For a composition it calls a method that
\* does not exist (__internal_del_item__).
SetExtended(k, s, start, stop, step, items) ==
    LET ixs == Indices(start, stop, step, Len(s))
    IN  IF Len(items) # Len(ixs) THEN Refused(s)
        ELSE IF k = "composition" THEN (IF ixs = <<>> THEN Done(s) ELSE Refused(s))
        ELSE SetAll(k, s, ixs, items)

\* Mutant: deletes in the order of the slice.
DeleteSlice_Forward(k, s, start, stop, step) ==
    DeleteAll(k, s, Indices(start, stop, step, Len(s)))

\* __delitem__ of a slice: from the last of its indices to the first.
DeleteSlice(k, s, start, stop, step) ==
    DeleteAll(k, s, Reverse(Indices(start, stop, step, Len(s))))

\* pop, remove and reverse of collections.abc.MutableSequence on these methods.
Pop(k, s, i) == IF InternalGet(s, i) = NULL THEN Refused(s) ELSE InternalDel(k, s, i)

RemoveValue(k, s, v) ==
    IF v \notin Range(s) THEN Refused(s) ELSE InternalDel(k, s, SelectInSeq(s, LAMBDA x : x = v) - 1)

\* Swaps the places j and n - j + 1.
Swapped(k, l, j) ==
    LET n == Len(l)
        one == InternalSet(k, l, j - 1, l[n - j + 1])
    IN  Then(one, InternalSet(k, one.list, n - j, l[j]))

Turned(k, s) ==
    InTurn(s, [j \in 1..(Len(s) \div 2) |-> [l \in Lists |-> Swapped(k, l, j)]])

-------------------------------------------------------------------------------
(* Clients.                                                                  *)

Items == {<<>>} \cup {<<v>> : v \in Values} \cup {<<v, w>> : v, w \in Values}

InBounds(i) == kind = "composition" => i >= -2 * Len(list)

Take(answer) ==
    /\ Len(answer.list) <= Capacity
    /\ list' = answer.list
    /\ UNCHANGED kind

Init == kind \in Kinds /\ list = <<>>

SetItem(i, v) == Take(InternalSet(kind, list, i, v))
DelItem(i) == InBounds(i) /\ Take(InternalDel(kind, list, i))
Insert(i, v) == Take(InternalInsert(kind, list, i, v))
PopItem(i) == Take(Pop(kind, list, i))
RemoveItem(v) == Take(RemoveValue(kind, list, v))
TurnRound == Take(Turned(kind, list))
AssignSlice(start, stop, items, mutable) ==
    Take(SetSlice(kind, list, start, stop, items, mutable))
AssignExtended(start, stop, step, items) ==
    Take(SetExtended(kind, list, start, stop, step, items))
DelSlice(start, stop, step) == Take(DeleteSlice(kind, list, start, stop, step))

Edge == Ends \cup {NULL}

Next ==
    \/ \E i \in Ends, v \in Values : SetItem(i, v) \/ Insert(i, v)
    \/ \E i \in Ends : DelItem(i) \/ PopItem(i)
    \/ \E v \in Values : RemoveItem(v)
    \/ TurnRound
    \/ \E start, stop \in Edge, items \in Items, mutable \in BOOLEAN :
           AssignSlice(start, stop, items, mutable)
    \/ \E start, stop \in Edge, step \in Steps :
           \/ DelSlice(start, stop, step)
           \/ step # 1 /\ \E items \in Items : AssignExtended(start, stop, step, items)

Spec == Init /\ [][Next]_vars

-------------------------------------------------------------------------------
(* A Python list.                                                            *)

ListIndex(i) == -Len(list) <= i /\ i < Len(list)
ListPlace(i) == (IF i < 0 THEN Len(list) + i ELSE i) + 1

ListSlice(start, stop, items) ==
    LET n == Len(list)
        clip(i) == IF i < -n THEN 0 ELSE IF i < 0 THEN n + i ELSE IF i > n THEN n ELSE i
        first == IF start = NULL THEN 0 ELSE clip(start)
        last == IF stop = NULL THEN n ELSE clip(stop)
    IN  SubSeq(list, 1, first) \o items
            \o SubSeq(list, (IF last < first THEN first ELSE last) + 1, n)

ListWithout(start, stop, step) ==
    LET cut == Range(Indices(start, stop, step, Len(list)))
        kept == {i \in DOMAIN list : i - 1 \notin cut}
    IN  [j \in 1..Cardinality(kept) |->
             list[CHOOSE i \in kept : Cardinality({h \in kept : h < i}) = j - 1]]

\* Values that this container would take all of, once the slice is gone.
Acceptable(start, stop, items) ==
    /\ kind = "any" => items = <<>>
    /\ kind = "composition" => IsInjective(ListSlice(start, stop, items))
    /\ kind = "composition" => Range(items) \cap Elsewhere = {}

-------------------------------------------------------------------------------
(* Properties.                                                               *)

\* A container holds values and nothing else.
TypeOK == kind \in Kinds /\ list \in Seq(Values) /\ Len(list) <= Capacity

\* "Instancing is not allowed" (test_composition.py): no call leaves a child in a
\* composition twice, or takes one that belongs to another.
NoInstancing ==
    kind = "composition" => IsInjective(list) /\ Range(list) \cap Elsewhere = {}

\* With an index that a list has, setting, deleting, popping and inserting do what
\* they do to a list, in all four containers, though two of them adjust twice.
IndexedLikeAList ==
    \A i \in Ends : ListIndex(i) =>
        /\ InternalDel(kind, list, i) = Done(RemoveAt(list, ListPlace(i)))
        /\ Pop(kind, list, i) = Done(RemoveAt(list, ListPlace(i)))
        /\ \A v \in Values :
            /\ ~Taken(kind, list, v) =>
                /\ InternalSet(kind, list, i, v) = Done(ReplaceAt(list, ListPlace(i), v))
                /\ InternalInsert(kind, list, i, v) = Done(InsertAt(list, ListPlace(i), v))

\* Assigning values to a slice that does not start at a negative index leaves what
\* it leaves of a list, whatever its ends, if the container takes the values.
SlicesLikeAList ==
    \A start, stop \in Edge, items \in Items, mutable \in BOOLEAN :
        (start = NULL \/ start >= 0) /\ Acceptable(start, stop, items) =>
            SetSlice(kind, list, start, stop, items, mutable)
                = Done(ListSlice(start, stop, items))

\* test_transactional: a composition is as it was before an assignment to a slice
\* that fails, wherever the slice starts and whichever value is refused.
RefusedIsRestored ==
    kind = "composition" =>
        /\ \A start, stop \in Edge, items \in Items :
            LET answer == SetSlice(kind, list, start, stop, items, TRUE)
            IN  ~answer.ok => answer.list = list
        /\ ~Turned(kind, list).ok => Turned(kind, list).list = list

\* An extended slice of the other containers takes its values one by one, in the
\* order of its indices, forwards and backwards; reverse turns them round.
ExtendedLikeAList ==
    kind # "composition" =>
        /\ Turned(kind, list) = Done(Reverse(list))
        /\ \A start, stop \in Edge, step \in Steps \ {1}, items \in Items :
            LET ixs == Indices(start, stop, step, Len(list))
                answer == SetExtended(kind, list, start, stop, step, items)
            IN  IF Len(items) # Len(ixs) THEN answer = Refused(list)
                ELSE /\ answer.ok /\ Len(answer.list) = Len(list)
                     /\ \A j \in DOMAIN ixs : answer.list[ixs[j] + 1] = items[j]
                     /\ \A i \in DOMAIN list : i - 1 \notin Range(ixs) => answer.list[i] = list[i]

\* Deleting a slice that goes forwards deletes its indices and no others, though
\* they are deleted one by one and an index past the end deletes the last value.
DeletionsLikeAList ==
    \A start, stop \in Edge, step \in Steps :
        step > 0 => DeleteSlice(kind, list, start, stop, step) = Done(ListWithout(start, stop, step))

\* Slices, with a step or without, assigned or deleted, leave what they leave of a
\* list, though the mixin takes them apart into single calls.
SlicedLikeAList == SlicesLikeAList /\ ExtendedLikeAList /\ DeletionsLikeAList

\* No call loses or doubles the children of a composition, successful or not.
ChildrenKept == TypeOK /\ NoInstancing /\ RefusedIsRestored
===============================================================================
