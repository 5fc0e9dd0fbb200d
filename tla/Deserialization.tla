---------------------------- MODULE Deserialization ----------------------------
(* The decoder and the Reader of deserialization.cpp.  heap is the sequence of *)
(* all objects; those that are still to be read from a dictionary have data.   *)
(* ids gives the object that a reference id stands for.                        *)
EXTENDS Serialization

\* The outcome of a step of the decoder: a value, and what became of the rest.
Decoded(value, heap, ids, status) ==
    [value |-> value, heap |-> heap, ids |-> ids, status |-> status]

\* _fetch by type.  A double may be written as an integer.
Fits(v, as) ==
    CASE as = "double" -> v.t \in {"double", "int"}
      [] as = "string" -> IsString(v)
      [] OTHER -> v.t = as

FetchStatus(d, key, as) ==
    IF key \notin DOMAIN d THEN "KEY_NOT_FOUND"
    ELSE IF ~Fits(d[key], as) THEN "TYPE_MISMATCH" ELSE "OK"

PartType(type, part) ==
    CASE part \in {"duration", "start_time", "offset"} -> "RationalTime"
      [] part \in {"min", "max"} -> "V2d"
      [] part = "name" -> "string"
      [] OTHER -> "double"

\* A time, a color or a box: all its parts are there, and the rest is dropped.
DecodeMath(type, d, heap, ids) ==
    LET keys == MathKeys[type]
        bad == SelectInSeq(keys, LAMBDA k : FetchStatus(d, k, PartType(type, k)) # "OK")
    IN  IF bad # 0
        THEN Decoded(Null, heap, ids, FetchStatus(d, keys[bad], PartType(type, keys[bad])))
        ELSE Decoded(Math(type, [k \in Range(keys) |-> d[k]]), heap, ids, "OK")

DecodeReference(d, heap, ids) ==
    IF FetchStatus(d, "id", "string") # "OK" THEN Decoded(Null, heap, ids, FetchStatus(d, "id", "string"))
    ELSE Decoded(ReferenceId(d["id"].v), heap, ids, "OK")

\* An object is made at once, and keeps its dictionary until all are made.
DecodeObject(schema, d, heap, ids) ==
    LET named == "OTIO_REF_ID" \in DOMAIN d
        id == d["OTIO_REF_ID"].v
        made == Instance(schema.name, schema.version, Erase(d, "OTIO_REF_ID"), heap)
    IN  IF named /\ FetchStatus(d, "OTIO_REF_ID", "string") # "OK"
        THEN Decoded(Null, heap, ids, "TYPE_MISMATCH")
        ELSE IF named /\ id \in DOMAIN ids THEN Decoded(Null, heap, ids, "DUPLICATE_OBJECT_REFERENCE")
        ELSE IF schema.t # "schema" THEN Decoded(Null, heap, ids, "MALFORMED_SCHEMA")
        ELSE IF made.status # "OK" THEN Decoded(Null, heap, ids, made.status)
        ELSE Decoded(Ref(Len(made.heap)), made.heap,
                     IF named THEN (id :> Len(made.heap)) @@ ids ELSE ids, "OK")

\* Reader::_decode of a dictionary that is complete.
Decode(d, heap, ids) ==
    LET schema == d["OTIO_SCHEMA"]
        rest == Erase(d, "OTIO_SCHEMA")
        isMath == schema.t = "schema" /\ schema.version = 1 /\ schema.name \in MathTypes
    IN  IF "OTIO_SCHEMA" \notin DOMAIN d THEN Decoded(Dict(d), heap, ids, "OK")
        ELSE IF ~IsString(schema) THEN Decoded(Null, heap, ids, "TYPE_MISMATCH")
        ELSE IF isMath THEN DecodeMath(schema.name, rest, heap, ids)
        ELSE IF schema = SchemaString("SerializableObjectRef", 1) THEN DecodeReference(rest, heap, ids)
        ELSE DecodeObject(schema, rest, heap, ids)

--------------------------------------------------------------------------------
(* The handler of the JSON parser: a decoder has a stack as an encoder does.   *)

Decoder(tokens) ==
    [kind |-> "reader", text |-> tokens, stack |-> <<>>, root |-> Null, status |-> "OK"]

Consumed(r) == [r EXCEPT !.text = Tail(@)]

\* A cycle leaves a key without a value.  The JSON writer puts a colon after every
\* other piece of an object, so that the pieces behind the key change places.
NameIsDue(r) == InDict(r.stack) /\ ~Last(r.stack).named

\* The next piece as the parser takes it.  (What splits as a schema is the first
\* value of its object, and comes at no other place.)
NextToken(r) ==
    LET token == Head(r.text)
    IN  CASE token.tok = "key" /\ ~NameIsDue(r) -> ValueToken(Atom("string", token.key))
          [] token.tok = "value" /\ NameIsDue(r) -> KeyToken(token.value.v)
          [] OTHER -> token

\* What the parser cannot take: no name, or a name without a value.
Misplaced(r) ==
    /\ r.text # <<>>
    /\ LET token == Head(r.text)
       IN  CASE token.tok = "end_object" -> ~NameIsDue(r)
             [] token.tok = "value" -> NameIsDue(r) /\ token.value.t # "string"
             [] token.tok \in {"start_object", "start_array"} -> NameIsDue(r)
             [] OTHER -> FALSE

HandleKey(r) ==
    IF ~InDict(r.stack) THEN Fail(Consumed(r), "INTERNAL_ERROR")
    ELSE [Consumed(r) EXCEPT !.stack = Keyed(@, NextToken(r).key)]
HandleValue(r) == Store(Consumed(r), NextToken(r).value)
HandleStart(r, dict) ==
    [Consumed(r) EXCEPT !.stack = Append(@, IF dict THEN OpenDict
                                            ELSE [dict |-> FALSE, s |-> <<>>])]
HandleEndArray(r) ==
    IF InDict(r.stack) THEN Fail(Consumed(r), "INTERNAL_ERROR")
    ELSE Store([Consumed(r) EXCEPT !.stack = Front(@)], Vector(Last(r.stack).s))

\* end_object of the decoder and of the encoder that clones: what became of the
\* dictionary is stored, unless that is an error.
StoreDecoded(r, outcome) ==
    LET popped == [r EXCEPT !.stack = Front(@)]
    IN  IF outcome.status # "OK" THEN Fail(popped, outcome.status) ELSE Store(popped, outcome.value)

--------------------------------------------------------------------------------
(* finalize: references are resolved and every object is read.                 *)

\* Mutant: nothing in an array is looked at.
Fixed_Outside(v, ids) ==
    LET one(x) == IF x.t = "reference" /\ x.id \in DOMAIN ids THEN Ref(ids[x.id]) ELSE x
    IN  IF v.t = "dict" THEN Dict([k \in DOMAIN v.d |-> one(v.d[k])]) ELSE one(v)

\* _fix_reference_ids
RECURSIVE Fixed(_, _)
Fixed(v, ids) ==
    CASE v.t = "dict" -> Dict([k \in DOMAIN v.d |-> Fixed(v.d[k], ids)])
      [] v.t = "vector" -> Vector([i \in DOMAIN v.s |-> Fixed(v.s[i], ids)])
      [] v.t = "reference" -> IF v.id \in DOMAIN ids THEN Ref(ids[v.id]) ELSE v
      [] OTHER -> v

RECURSIVE Unresolved(_, _)
Unresolved(v, ids) ==
    CASE v.t = "dict" -> \E k \in DOMAIN v.d : Unresolved(v.d[k], ids)
      [] v.t = "vector" -> \E i \in DOMAIN v.s : Unresolved(v.s[i], ids)
      [] OTHER -> v.t = "reference" /\ v.id \notin DOMAIN ids

\* An element of a list or a map: an object of the class, or null in a Retainer.
IsElement(heap, v, class) ==
    v.t = "object" /\ (v.id = NULL \/ IsA(heap[v.id].schema, class))

\* What a container keeps: the elements before the first that does not fit.
FirstBad(heap, s, class) == SelectInSeq(s, LAMBDA v : ~IsElement(heap, v, class))

ReadList(heap, v, class) ==
    LET bad == FirstBad(heap, v.s, class)
    IN  IF v.t # "vector" THEN [value |-> Null, read |-> FALSE, status |-> "TYPE_MISMATCH"]
        ELSE IF bad = 0 THEN [value |-> v, read |-> TRUE, status |-> "OK"]
        ELSE [value |-> Vector(SubSeq(v.s, 1, bad - 1)), read |-> TRUE, status |-> "TYPE_MISMATCH"]

ReadMap(heap, v, class) ==
    LET keys == SelectSeq(KeyOrder, LAMBDA k : k \in DOMAIN v.d)
        bad == FirstBad(heap, [i \in DOMAIN keys |-> v.d[keys[i]]], class)
        kept == IF bad = 0 THEN keys ELSE SubSeq(keys, 1, bad - 1)
    IN  IF v.t # "dict" THEN [value |-> Null, read |-> FALSE, status |-> "TYPE_MISMATCH"]
        ELSE [value |-> Dict([k \in Range(kept) |-> v.d[k]]), read |-> TRUE,
              status |-> IF bad = 0 THEN "OK" ELSE "TYPE_MISMATCH"]

ReadIf(fits, v, otherwise) ==
    [value |-> v, read |-> fits, status |-> IF fits THEN "OK" ELSE otherwise]

\* One of the reads of a Reader: what is read, whether it says it was, the error.
ReadField(heap, f, v) ==
    CASE f.as = "list" -> ReadList(heap, v, f.of)
      [] f.as = "map" -> ReadMap(heap, v, f.of)
      [] f.null /\ v = Null -> [value |-> IF f.as = "string" THEN Atom("string", "") ELSE Null,
                                read |-> TRUE, status |-> "OK"]
      [] f.as = "object" -> ReadIf(IsElement(heap, v, f.of), v, "TYPE_MISMATCH")
      [] f.as = "policy" -> ReadIf(v.t = "string" /\ v.v \in {"error", "black", "hold"}, v, "JSON_PARSE_ERROR")
      [] OTHER -> ReadIf(Fits(v, f.as), v, "TYPE_MISMATCH")

\* A member that must be there is not.  ("" is no policy, and says so after that.)
Absent(f) == IF f.as = "policy" THEN "JSON_PARSE_ERROR" ELSE "KEY_NOT_FOUND"

\* The reads in turn, until one fails: what is left of the dictionary, the
\* members, and the last error.
ReadMembers(heap, fields, d) ==
    FoldLeft(LAMBDA r, f :
                 IF ~r.going THEN [r EXCEPT !.members = Assign(@, f.key, Default(f))]
                 ELSE IF f.key \notin DOMAIN r.d
                 THEN [r EXCEPT !.members = Assign(@, f.key, Default(f)), !.going = ~f.must,
                                !.status = IF f.must THEN Absent(f) ELSE @]
                 ELSE LET one == ReadField(heap, f, r.d[f.key])
                      IN  [going |-> one.read,
                           members |-> Assign(r.members, f.key, IF one.read THEN one.value ELSE Default(f)),
                           status |-> IF one.status = "OK" THEN r.status ELSE one.status,
                           d |-> Erase(r.d, f.key)],
             [d |-> d, members |-> <<>>, going |-> TRUE, status |-> "OK"], fields)

\* Composition::read_from: the children get their parent one after the other.
Adopt(heap, o) ==
    LET kids == heap[o].fields["children"].s
        taken == {i \in DOMAIN kids : heap[kids[i].id].parent # NULL
                                      \/ \E j \in 1..(i - 1) : kids[j] = kids[i]}
        first == IF taken = {} THEN Len(kids) + 1 ELSE CHOOSE i \in taken : \A j \in taken : i <= j
    IN  [heap |-> [p \in DOMAIN heap |->
                       IF \E i \in 1..(first - 1) : kids[i].id = p THEN [heap[p] EXCEPT !.parent = o]
                       ELSE heap[p]],
         status |-> IF taken = {} THEN "OK" ELSE "CHILD_ALREADY_PARENTED"]

\* Mutant: keys that no class knows are lost.
Leftover_Dropped(r, status) == <<>>

\* What no class has read becomes dynamic fields, if the reads got that far.
Leftover(r, status) == IF r.going THEN r.d ELSE <<>>

\* read_from of the object o, and the last error of it.
ReadFrom(heap, ids, o) ==
    LET object == heap[o]
        dangling == Unresolved(Dict(object.data), ids)
        d == Fixed(Dict(object.data), ids).d
        unknown == object.schema = "UnknownSchema"
        r == ReadMembers(heap, IF unknown THEN <<>> ELSE ReadFields[object.schema], d)
        read == [heap EXCEPT ![o] = [@ EXCEPT !.fields = r.members, !.extra = Leftover(r, r.status),
                                             !.data = NULL]]
        early == IF dangling THEN "UNRESOLVED_OBJECT_REFERENCE" ELSE "OK"
        late == IF r.status = "OK" THEN early ELSE r.status
        adopted == Adopt(read, o)
    IN  IF IsA(object.schema, "Composition") /\ r.going
        THEN [heap |-> adopted.heap, status |-> IF adopted.status = "OK" THEN late ELSE adopted.status]
        ELSE [heap |-> read, status |-> late]

================================================================================
