------------------------------ MODULE Serialization ------------------------------
(* The Writer and the encoders of serialization.cpp, one call of the Writer at *)
(* a time.  A writer is a record: the calls it has still to make, the objects  *)
(* it is in the middle of, and its encoder.  An encoder of kind "json" makes a *)
(* sequence of tokens; one of the others makes a value, on a stack of          *)
(* dictionaries and arrays: "clone" turns each dictionary into the object that *)
(* it stands for, "math" leaves dictionaries, and "dicts" makes dictionaries   *)
(* of times as well and downgrades them.                                       *)
EXTENDS TypeRegistry

NoKey == "(no key)"

\* The calls.
Write(key, value) == [do |-> "write", key |-> key, value |-> value]
EndObjectOf(o) == [do |-> "end_object", object |-> o]
EndArrayCall == [do |-> "end_array"]
ResumeCall(o) == [do |-> "resume", object |-> o]

Token(t) == [tok |-> t]
KeyToken(k) == [tok |-> "key", key |-> k]
ValueToken(v) == [tok |-> "value", value |-> v]

\* A writer at the start of write_root, clone or is_equivalent_to.  child is the
\* error of the writer that it asks for downgraded objects.
Writer(kind, targets, value) ==
    [kind |-> kind, targets |-> targets, todo |-> <<Write(NoKey, value)>>, ids |-> {},
     stack |-> <<>>, root |-> Null, text |-> <<>>, status |-> "OK", child |-> "OK"]

Errored(w) == w.status # "OK"
Fail(w, st) == [w EXCEPT !.status = st]
Emit(w, tokens) == [w EXCEPT !.text = @ \o tokens]

--------------------------------------------------------------------------------
(* The encoders.  After an error the cloning encoders do nothing.              *)

\* A dictionary that is begun; named says that a key awaits its value.
OpenDict == [dict |-> TRUE, key |-> "", named |-> FALSE, d |-> <<>>]
Keyed(stack, key) == Append(Front(stack), [Last(stack) EXCEPT !.key = key, !.named = TRUE])

InDict(stack) == stack # <<>> /\ Last(stack).dict

\* What is stored goes into the dictionary or the array on the top.
PutInto(stack, v) ==
    LET top == Last(stack)
    IN  Append(Front(stack), IF top.dict THEN [top EXCEPT !.d = Emplace(@, top.key, v), !.named = FALSE]
                             ELSE [top EXCEPT !.s = Append(@, v)])

Store(w, v) ==
    IF Errored(w) THEN w
    ELSE IF w.stack = <<>> THEN [w EXCEPT !.root = v]
    ELSE [w EXCEPT !.stack = PutInto(@, v)]

\* The dictionary on the top is done; the last one stays on the stack.
ReplaceBack(w, d) ==
    IF Errored(w) THEN w
    ELSE IF Len(w.stack) = 1 THEN [w EXCEPT !.root = Dict(d)]
    ELSE [w EXCEPT !.stack = PutInto(Front(@), Dict(d))]

WriteKey(w, key) ==
    IF key = NoKey THEN w
    ELSE IF w.kind = "json" THEN Emit(w, <<KeyToken(key)>>)
    ELSE IF Errored(w) THEN w
    ELSE IF ~InDict(w.stack) THEN Fail(w, "INTERNAL_ERROR")
    ELSE [w EXCEPT !.stack = Keyed(@, key)]

WriteValue(w, v) == IF w.kind = "json" THEN Emit(w, <<ValueToken(v)>>) ELSE Store(w, v)

MathTypes == {"RationalTime", "TimeRange", "TimeTransform", "Color", "V2d", "Box2d"}
MathKeys ==
    [RationalTime |-> <<"rate", "value">>, TimeRange |-> <<"duration", "start_time">>,
     TimeTransform |-> <<"offset", "rate", "scale">>, Color |-> <<"r", "g", "b", "a", "name">>,
     V2d |-> <<"x", "y">>, Box2d |-> <<"min", "max">>]

\* A time, a color or a box as an object in JSON; its parts may be such as well.
RECURSIVE MathTokens(_)
MathTokens(v) ==
    LET keys == MathKeys[v.t]
        part(k) == IF v.parts[k].t \in MathTypes THEN MathTokens(v.parts[k])
                   ELSE <<ValueToken(v.parts[k])>>
    IN  <<Token("start_object"), KeyToken("OTIO_SCHEMA"), ValueToken(SchemaString(v.t, 1))>>
            \o FlattenSeq([i \in DOMAIN keys |-> <<KeyToken(keys[i])>> \o part(keys[i])])
            \o <<Token("end_object")>>

\* Only the outer one becomes a dictionary in a downgraded object.
WriteMath(w, v) ==
    IF w.kind = "json" THEN Emit(w, MathTokens(v))
    ELSE IF w.kind = "dicts" THEN Store(w, Dict(("OTIO_SCHEMA" :> SchemaString(v.t, 1)) @@ v.parts))
    ELSE Store(w, v)

StartObject(w) ==
    IF w.kind = "json" THEN Emit(w, <<Token("start_object")>>)
    ELSE IF Errored(w) THEN w
    ELSE [w EXCEPT !.stack = Append(@, OpenDict)]

StartArray(w) ==
    IF w.kind = "json" THEN Emit(w, <<Token("start_array")>>)
    ELSE IF Errored(w) THEN w
    ELSE [w EXCEPT !.stack = Append(@, [dict |-> FALSE, s |-> <<>>])]

EndArray(w) ==
    IF w.kind = "json" THEN Emit(w, <<Token("end_array")>>)
    ELSE IF Errored(w) THEN w
    ELSE IF w.stack = <<>> \/ InDict(w.stack) THEN Fail(w, "INTERNAL_ERROR")
    ELSE Store([w EXCEPT !.stack = Front(@)], Vector(Last(w.stack).s))

\* _downgrade_dictionary: step by step to the version that is asked for, if every
\* step has a function.  (The record of a name that has none is read through.)
Downgraded(d, targets) ==
    LET schema == IF "OTIO_SCHEMA" \in DOMAIN d THEN d["OTIO_SCHEMA"] ELSE Null
        target == targets[schema.name]
        steps == (target + 1)..schema.version
        at(n) == Assign(d, "OTIO_SCHEMA", SchemaString(schema.name, n))
    IN  IF schema.t # "schema" THEN [status |-> "OK", d |-> d]
        ELSE IF schema.name \notin DOMAIN targets THEN [status |-> "OK", d |-> d]
        ELSE IF steps = {} THEN [status |-> "OK", d |-> d]
        ELSE IF ClassOf(schema.name) = NULL THEN [status |-> "UNDEFINED", d |-> d]
        ELSE IF \E n \in steps : ~HasDowngrade(schema.name, n) THEN [status |-> "INTERNAL_ERROR", d |-> d]
        ELSE [status |-> "OK",
              d |-> Assign(DowngradeClip(d), "OTIO_SCHEMA", SchemaString(schema.name, target))]

\* end_object of every kind but "clone".
EndDict(w) ==
    LET done == Downgraded(Last(w.stack).d, w.targets)
    IN  IF w.kind = "json" THEN Emit(w, <<Token("end_object")>>)
        ELSE IF Errored(w) THEN w
        ELSE IF ~InDict(w.stack) THEN Fail(w, "INTERNAL_ERROR")
        ELSE IF w.kind = "dicts" /\ DOMAIN w.targets # {}
        THEN IF done.status # "OK" THEN Fail(w, done.status) ELSE ReplaceBack(w, done.d)
        ELSE ReplaceBack(w, Last(w.stack).d)

--------------------------------------------------------------------------------
(* The calls of a Writer w, of which the first that is left is the next.       *)

\* In the order of the map's keys.
CONSTANT KeyOrder
Entries(d) ==
    LET keys == SelectSeq(KeyOrder, LAMBDA k : k \in DOMAIN d)
    IN  [i \in DOMAIN keys |-> Write(keys[i], d[keys[i]])]

Called(w) == [w EXCEPT !.todo = Tail(@)]
NextCall(w) == Head(w.todo)
Then(w, calls) == [w EXCEPT !.todo = calls \o @]

\* What write_to of an object writes: its dynamic fields, then its members.
WriteTo(o) ==
    Entries(o.extra)
        \o IF o.schema = "UnknownSchema" THEN <<>>
           ELSE LET fields == WriteFields[o.schema]
                IN  [i \in DOMAIN fields |-> Write(fields[i].key, o.fields[fields[i].key])]

WrittenSchema(o) ==
    IF o.origin # NULL THEN SchemaString(o.origin[1], o.origin[2])
    ELSE SchemaString(o.schema, Current[o.schema])

MustDowngrade(w, schema) ==
    /\ w.kind = "json" /\ schema \in DOMAIN w.targets
    /\ Current[schema] > w.targets[schema]

\* Mutant: an object that was written once is not written again.
Finished_Kept(w, o) == w

\* An object that was written may be written again: another copy.
Finished(w, o) == [w EXCEPT !.ids = @ \ {o}]

\* A null Retainer is written as null.
WriteAtom(w) ==
    LET call == NextCall(w)
    IN  WriteValue(WriteKey(Called(w), call.key), IF call.value = Ref(NULL) THEN Null ELSE call.value)
WriteTime(w) == LET call == NextCall(w) IN WriteMath(WriteKey(Called(w), call.key), call.value)

\* The error is reported and a null stands for the value.
WriteOther(w) ==
    LET keyed == WriteKey(Called(w), NextCall(w).key)
    IN  IF w.kind = "json" THEN WriteValue(Fail(keyed, "TYPE_MISMATCH"), Null)
        ELSE Fail(keyed, "TYPE_MISMATCH")

WriteDict(w) ==
    LET call == NextCall(w)
    IN  Then(StartObject(WriteKey(Called(w), call.key)), Entries(call.value.d) \o <<EndObjectOf(NULL)>>)

WriteVector(w) ==
    LET call == NextCall(w)
        items == call.value.s
    IN  Then(StartArray(WriteKey(Called(w), call.key)),
             [i \in DOMAIN items |-> Write(NoKey, items[i])] \o <<EndArrayCall>>)

\* An object met in the middle of writing it is a cycle.
WriteCycle(w) == Fail(WriteKey(Called(w), NextCall(w).key), "OBJECT_CYCLE")

Begun(w, o) == [WriteKey(Called(w), NextCall(w).key) EXCEPT !.ids = @ \cup {o}]

WriteObject(w, o, object) ==
    Then(StartObject(Begun(w, o)),
         <<Write("OTIO_SCHEMA", WrittenSchema(object))>> \o WriteTo(object) \o <<EndObjectOf(o)>>)

\* The object is written to a dictionary by a writer of its own first, always the
\* same one: it keeps its error.
AskChild(w, o) == Then(Begun(w, o), <<ResumeCall(o)>>)
Child(w, o) == [Writer("dicts", w.targets, Ref(o)) EXCEPT !.status = w.child]

\* The child's status becomes that of the writer, which forgets an error it had.
\* An error of the child ends the object, which stays one that is being written;
\* else its dictionary is written.
Resume(w, child) ==
    LET told == [Fail(Called(w), child.status) EXCEPT !.child = child.status]
        o == NextCall(w).object
    IN  IF Errored(child) THEN told
        ELSE Then(StartObject(told), Entries(child.root.d) \o <<EndObjectOf(o)>>)

--------------------------------------------------------------------------------
(* Equality of what two encoders of kind "math" made.                          *)

\* Mutant: only the keys of dictionaries are compared.
AnyEquals_Keys(l, r) == IF l.t = "dict" THEN r.t = "dict" /\ DOMAIN l.d = DOMAIN r.d ELSE l = r

\* _any_equals: dictionaries and arrays part by part.
RECURSIVE AnyEquals(_, _)
AnyEquals(l, r) ==
    CASE l.t = "dict" -> /\ r.t = "dict" /\ DOMAIN l.d = DOMAIN r.d
                         /\ \A k \in DOMAIN l.d : AnyEquals(l.d[k], r.d[k])
      [] l.t = "vector" -> /\ r.t = "vector" /\ Len(l.s) = Len(r.s)
                           /\ \A i \in DOMAIN l.s : AnyEquals(l.s[i], r.s[i])
      [] OTHER -> l = r

================================================================================
