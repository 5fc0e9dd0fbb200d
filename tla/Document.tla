-------------------------------- MODULE Document --------------------------------
(* Documents on their way: clients set the media references of the clips of a  *)
(* document, and then clone it, write it to JSON and read that back, or read a *)
(* file from elsewhere; the copy is compared with the original.                *)
EXTENDS Deserialization

CONSTANTS
    Jobs,           \* what is done with which document
    Keys            \* keys of media references that clients use

VARIABLES
    job,            \* [op, heap, root, targets, text, edits]: what this behaviour does, and a
                    \* bound on the calls of the setters of clips
    heap,           \* all objects, those of the copy after those of the original
    phase,          \* how far it is
    edits,          \* calls of setters so far
    writers,        \* the writer at work is the last; the others wait for it
    decoder,        \* the decoder of the JSON text
    ids,            \* object_for_id of the resolver
    status,         \* the error of the operation
    result,         \* what it returns
    left,           \* the original as is_equivalent_to sees it
    verdict         \* what is_equivalent_to says

vars == <<job, heap, phase, edits, writers, decoder, ids, status, result, left, verdict>>

Init ==
    /\ job \in Jobs
    /\ heap = job.heap
    /\ phase = "edit" /\ edits = 0
    /\ writers = <<>> /\ decoder = Decoder(<<>>) /\ ids = <<>>
    /\ status = "OK" /\ result = Null
    /\ left = Null /\ verdict = "none"

--------------------------------------------------------------------------------
(* The media references of a clip.                                             *)

Editing == phase = "edit" /\ edits < job.edits

Clips == {o \in DOMAIN heap : heap[o].schema = "Clip"}
Medias == {o \in DOMAIN heap : IsA(heap[o].schema, "MediaReference")}
Edited == IF Editing THEN Clips ELSE {}
ReferencesOf(o) == o.fields["media_references"].d
ActiveKey(o) == o.fields["active_media_reference_key"].v

\* check_for_valid_media_reference_key
ValidKey(key, keys) == "" \notin keys /\ key \in keys

WithReferences(o, refs, key) ==
    [o EXCEPT !.fields = Assign(Assign(@, "media_references", Dict(refs)),
                                "active_media_reference_key", Atom("string", key))]

SetClip(o, made, refs, key) ==
    /\ edits' = edits + 1
    /\ heap' = [heap EXCEPT ![o] = WithReferences(@, refs, key)] \o made
    /\ UNCHANGED <<job, phase, writers, decoder, ids, status, result, left, verdict>>

SetActiveMediaReferenceKey(o, key) ==
    /\ ValidKey(key, DOMAIN ReferencesOf(heap[o]))
    /\ SetClip(o, <<>>, ReferencesOf(heap[o]), key)

SetMediaReference(o, media) ==
    LET key == ActiveKey(heap[o])
        new == IF media = NULL THEN Len(heap) + 1 ELSE media
    IN  SetClip(o, IF media = NULL THEN <<Missing>> ELSE <<>>,
                   Assign(ReferencesOf(heap[o]), key, Ref(new)), key)

\* Every key gets the same reference.
SetMediaReferences(o, keys, media, key) ==
    LET new == IF media = NULL THEN Len(heap) + 1 ELSE media
    IN  /\ ValidKey(key, keys)
        /\ SetClip(o, IF media = NULL THEN <<Missing>> ELSE <<>>, [k \in keys |-> Ref(new)], key)

--------------------------------------------------------------------------------
(* The writer at work.                                                         *)

Start ==
    /\ phase = "edit"
    /\ IF job.op = "load"
       THEN phase' = "decode" /\ decoder' = Decoder(job.text) /\ UNCHANGED writers
       ELSE /\ phase' = "encode"
            /\ writers' = <<Writer(IF job.op = "clone" THEN "clone" ELSE "json", job.targets, Ref(job.root))>>
            /\ UNCHANGED decoder
    /\ UNCHANGED <<job, heap, edits, ids, status, result, left, verdict>>

Working == phase \in {"encode", "left", "right"}
AtWork == Last(writers)
Calls(do) == Working /\ AtWork.todo # <<>> /\ NextCall(AtWork).do = do
Writes(types) == Calls("write") /\ NextCall(AtWork).value.t \in types
Object == NextCall(AtWork).value.id

Becomes(ws) ==
    /\ writers' = ws
    /\ UNCHANGED <<job, heap, phase, edits, decoder, ids, status, result, left, verdict>>
Turn(w) == Becomes(Append(Front(writers), w))

Atoms == {"null", "bool", "int", "double", "string", "schema"}

DoWriteAtom ==
    /\ Writes(Atoms) \/ (Writes({"object"}) /\ Object = NULL)
    /\ Turn(WriteAtom(AtWork))
DoWriteTime == Writes(MathTypes) /\ Turn(WriteTime(AtWork))
DoWriteOther == Writes({"other", "reference"}) /\ Turn(WriteOther(AtWork))
DoWriteDict == Writes({"dict"}) /\ Turn(WriteDict(AtWork))
DoWriteVector == Writes({"vector"}) /\ Turn(WriteVector(AtWork))

WritesObject == Writes({"object"}) /\ Object # NULL
DoWriteCycle == WritesObject /\ Object \in AtWork.ids /\ Turn(WriteCycle(AtWork))
DoWriteObject ==
    /\ WritesObject /\ Object \notin AtWork.ids
    /\ ~MustDowngrade(AtWork, heap[Object].schema)
    /\ Turn(WriteObject(AtWork, Object, heap[Object]))
DoAskChild ==
    /\ WritesObject /\ Object \notin AtWork.ids
    /\ MustDowngrade(AtWork, heap[Object].schema)
    /\ Becomes(Front(writers) \o <<AskChild(AtWork, Object), Child(AtWork, Object)>>)
DoResume ==
    /\ Working /\ Len(writers) > 1 /\ AtWork.todo = <<>>
    /\ LET waiting == Front(writers)
       IN  Becomes(Append(Front(waiting), Resume(Last(waiting), AtWork)))

DoEndArray == Calls("end_array") /\ Turn(EndArray(Called(AtWork)))

Closed(w) == Finished(w, NextCall(AtWork).object)

\* A cloning encoder makes the object at once; its data waits.
Clones == AtWork.kind = "clone" /\ ~Errored(AtWork) /\ InDict(AtWork.stack)
DoEndClone ==
    /\ Calls("end_object") /\ Clones
    /\ LET made == Decode(Last(AtWork.stack).d, heap, ids)
       IN  /\ writers' = Append(Front(writers), Closed(StoreDecoded(Called(AtWork), made)))
           /\ heap' = made.heap /\ ids' = made.ids
    /\ UNCHANGED <<job, phase, edits, decoder, status, result, left, verdict>>
DoEndObject ==
    /\ Calls("end_object") /\ ~Clones
    /\ Turn(Closed(EndDict(Called(AtWork))))

\* The first writer has written everything.
Written == Working /\ Len(writers) = 1 /\ AtWork.todo = <<>>

DoneEncoding ==
    /\ Written /\ phase = "encode"
    /\ status' = AtWork.status
    /\ phase' = IF Errored(AtWork) THEN "done" ELSE IF job.op = "clone" THEN "finalize" ELSE "decode"
    /\ result' = IF job.op = "clone" /\ ~Errored(AtWork) THEN AtWork.root ELSE Null
    /\ decoder' = IF job.op = "save" /\ ~Errored(AtWork) THEN Decoder(AtWork.text) ELSE decoder
    /\ writers' = <<>>
    /\ UNCHANGED <<job, heap, edits, ids, left, verdict>>

--------------------------------------------------------------------------------
(* The decoder, one token at a time.                                           *)

\* The parser is at the end of the text, or of what it can take of it.
Parsed == decoder.text = <<>> \/ Errored(decoder) \/ Misplaced(decoder)

Reads(toks) ==
    /\ phase = "decode" /\ ~Parsed
    /\ NextToken(decoder).tok \in toks

Handle(r) ==
    /\ decoder' = r
    /\ UNCHANGED <<job, heap, phase, edits, writers, ids, status, result, left, verdict>>

DoKey == Reads({"key"}) /\ Handle(HandleKey(decoder))
DoValue == Reads({"value"}) /\ Handle(HandleValue(decoder))
DoStart == Reads({"start_object", "start_array"})
           /\ Handle(HandleStart(decoder, Head(decoder.text).tok = "start_object"))
DoEndArrayRead == Reads({"end_array"}) /\ Handle(HandleEndArray(decoder))
DoEndObjectRead ==
    /\ Reads({"end_object"})
    /\ LET made == Decode(Last(decoder.stack).d, heap, ids)
       IN  /\ decoder' = StoreDecoded(Consumed(decoder), made)
           /\ heap' = made.heap /\ ids' = made.ids
    /\ UNCHANGED <<job, phase, edits, writers, status, result, left, verdict>>

\* At the end of the text, or of what the parser took of it, what was made is
\* read, unless the decoder has an error.
DoneDecoding ==
    /\ phase = "decode" /\ Parsed
    /\ status' = decoder.status
    /\ phase' = IF Errored(decoder) THEN "done" ELSE "finalize"
    /\ UNCHANGED <<job, heap, edits, writers, decoder, ids, result, left, verdict>>

Waiting == {o \in DOMAIN heap : heap[o].data # NULL}

\* The map of the resolver is in the order of the objects' addresses.  Any order is
\* possible; the bound is that the next object is the oldest or the newest.
Finalize(o) ==
    /\ o \in {Min(Waiting), Max(Waiting)}
    /\ LET read == ReadFrom(heap, ids, o)
       IN  /\ heap' = read.heap
           /\ status' = IF read.status = "OK" THEN status ELSE read.status
    /\ UNCHANGED <<job, phase, edits, writers, decoder, ids, result, left, verdict>>

\* The clone is returned though an object could not be read; a text of which an
\* object could not be read, or that ended too early, gives nothing.
DoneReading ==
    LET parsed == decoder.stack = <<>>
        root == IF job.op = "clone" THEN result
                ELSE IF status = "OK" /\ parsed THEN decoder.root ELSE Null
        compares == job.op # "load" /\ root.t = "object" /\ heap[root.id].schema = heap[job.root].schema
    IN  /\ phase = "finalize" /\ Waiting = {}
        /\ result' = root
        /\ status' = IF status = "OK" /\ ~parsed THEN "JSON_PARSE_ERROR" ELSE status
        /\ phase' = IF compares THEN "left" ELSE "done"
        /\ writers' = IF compares THEN <<Writer("math", <<>>, Ref(job.root))>> ELSE <<>>
        /\ UNCHANGED <<job, heap, edits, decoder, ids, left, verdict>>

DoneLeft ==
    /\ Written /\ phase = "left"
    /\ phase' = "right" /\ left' = [status |-> AtWork.status, root |-> AtWork.root]
    /\ writers' = <<Writer("math", <<>>, result)>>
    /\ UNCHANGED <<job, heap, edits, decoder, ids, status, result, verdict>>

IsEquivalentTo ==
    /\ Written /\ phase = "right"
    /\ phase' = "done" /\ writers' = <<>>
    /\ verdict' = IF left.status = "OK" /\ ~Errored(AtWork) /\ AnyEquals(left.root, AtWork.root)
                  THEN "same" ELSE "different"
    /\ UNCHANGED <<job, heap, edits, decoder, ids, status, result, left>>

AllDone == phase = "done" /\ UNCHANGED vars

Next ==
    \/ \E o \in Edited, key \in Keys \cup {""} : SetActiveMediaReferenceKey(o, key)
    \/ \E o \in Edited, media \in Medias \cup {NULL} : SetMediaReference(o, media)
    \/ \E o \in Edited, keys \in SUBSET Keys, media \in Medias \cup {NULL}, key \in Keys :
          SetMediaReferences(o, keys, media, key)
    \/ Start
    \/ DoWriteAtom \/ DoWriteTime \/ DoWriteOther \/ DoWriteDict \/ DoWriteVector
    \/ DoWriteCycle \/ DoWriteObject \/ DoAskChild \/ DoResume
    \/ DoEndArray \/ DoEndClone \/ DoEndObject \/ DoneEncoding
    \/ DoKey \/ DoValue \/ DoStart \/ DoEndArrayRead \/ DoEndObjectRead \/ DoneDecoding
    \/ phase = "finalize" /\ \E o \in Waiting : Finalize(o)
    \/ DoneReading \/ DoneLeft \/ IsEquivalentTo
    \/ AllDone

Spec == Init /\ [][Next]_vars

--------------------------------------------------------------------------------
(* Properties.                                                                 *)

RECURSIVE ObjectsIn(_)
ObjectsIn(v) ==
    CASE v.t = "dict" -> UNION {ObjectsIn(v.d[k]) : k \in DOMAIN v.d}
      [] v.t = "vector" -> UNION {ObjectsIn(v.s[i]) : i \in DOMAIN v.s}
      [] v.t = "object" -> {v.id} \ {NULL}
      [] OTHER -> {}

ObjectsOf(o) == ObjectsIn(Dict(heap[o].fields)) \cup ObjectsIn(Dict(heap[o].extra))

\* The objects of a set and those below them.
Below(set) == FoldLeftDomain(LAMBDA found, n : found \cup UNION {ObjectsOf(o) : o \in found}, set, heap)

Source == Below({job.root})
CycleBelow(o) == \E p \in Below({o}) : p \in Below(ObjectsOf(p))
Cyclic == CycleBelow(job.root)

\* Values that do not come back as they were: dictionaries that read as an object,
\* and values of types that nothing writes.
RECURSIVE Odd(_)
Odd(v) ==
    CASE v.t = "dict" -> "OTIO_SCHEMA" \in DOMAIN v.d \/ \E k \in DOMAIN v.d : Odd(v.d[k])
      [] v.t = "vector" -> \E i \in DOMAIN v.s : Odd(v.s[i])
      [] OTHER -> v.t = "other"

HasNull(v) == v.t = "vector" /\ Ref(NULL) \in Range(v.s)

\* Nor does a null in a list of objects.
Plain == \A o \in Source : /\ ~Odd(Dict(heap[o].fields)) /\ ~Odd(Dict(heap[o].extra))
                           /\ \A k \in DOMAIN heap[o].fields : ~HasNull(heap[o].fields[k])

\* A document as a tree: an object that is in two places is there twice.  legacy
\* shows of the references of a clip the active one, as version 1 did.
LegacyClip(fields) ==
    LET key == fields["active_media_reference_key"].v
        refs == fields["media_references"].d
        none == [t |-> "tree", schema |-> "MissingReference", origin |-> NULL,
                 fields |-> Missing.fields, extra |-> <<>>]
    IN  ("media_reference" :> IF key \in DOMAIN refs THEN refs[key] ELSE none)
            @@ Without(fields, {"active_media_reference_key", "media_references"})

RECURSIVE Tree(_, _)
Tree(v, legacy) ==
    CASE v.t = "dict" -> Dict([k \in DOMAIN v.d |-> Tree(v.d[k], legacy)])
      [] v.t = "vector" -> Vector([i \in DOMAIN v.s |-> Tree(v.s[i], legacy)])
      [] v.t = "object" ->
            IF v.id = NULL THEN Null
            ELSE LET o == heap[v.id]
                     fields == Tree(Dict(o.fields), legacy).d
                 IN  [t |-> "tree", schema |-> o.schema, origin |-> o.origin,
                      fields |-> IF legacy /\ o.schema = "Clip" THEN LegacyClip(fields) ELSE fields,
                      extra |-> Tree(Dict(o.extra), legacy).d]
      [] OTHER -> v

Over == phase = "done"
Copies == job.op \in {"clone", "save"}

\* A clone, and what is read back from JSON, is the document that was written,
\* whatever the order in which the objects are read (cloned_from and
\* serialization tests compare by is_equivalent_to).
CopyIsSame ==
    Over /\ Copies /\ job.targets = <<>> /\ Plain /\ ~Cyclic =>
        status = "OK" /\ Tree(result, FALSE) = Tree(Ref(job.root), FALSE)

\* is_equivalent_to says of a copy that it is the same exactly if it is, and never of a
\* document with a cycle, which it cannot write.
EquivalentIffSame ==
    Over /\ verdict # "none" /\ (\A o \in Source : ~Odd(Dict(heap[o].fields))) =>
        (verdict = "same" <=> ~Cyclic /\ Tree(result, FALSE) = Tree(Ref(job.root), FALSE))

\* There are functions for the versions that the manifest asks for.
Downgradable ==
    \A s \in DOMAIN job.targets : \A n \in (job.targets[s] + 1)..Current[s] : HasDowngrade(s, n)

\* The objects that are written for an older version.
Older ==
    {o \in Source : LET s == heap[o].schema
                    IN  s \in DOMAIN job.targets /\ Current[s] > job.targets[s]}

\* Writing ends.  It fails with OBJECT_CYCLE only if an object is below itself, "a
\* cycle, as opposed to mere instancing" (serialization.cpp), and then always if
\* nothing is downgraded or if the cycle is below something that is: an object that is
\* downgraded after another cycle was met sets the error to its own, which is none.
CycleRefused ==
    Over /\ Copies /\ Plain /\ Downgradable =>
        /\ status = "OBJECT_CYCLE" => Cyclic
        /\ (Cyclic /\ Older = {}) \/ (\E o \in Older : CycleBelow(o)) => status = "OBJECT_CYCLE"

\* The calls of encoders match: an INTERNAL_ERROR is that of a version to which
\* nothing downgrades.
CallsMatch == Over /\ Copies /\ status = "INTERNAL_ERROR" => ~Downgradable

\* No object in the text is newer than the manifest asks for.
TextIsDowngraded ==
    \A n \in DOMAIN writers : job.targets # <<>> /\ writers[n].kind = "json" /\ Plain =>
        LET text == writers[n].text
        IN  \A i \in 2..Len(text) :
                text[i - 1] = KeyToken("OTIO_SCHEMA") /\ text[i].value.name \in DOMAIN job.targets
                    => text[i].value.version <= job.targets[text[i].value.name]

\* A document without cycles written for an older version and read again has lost
\* nothing but the references of its clips that were not active.
ActiveReferenceSurvives ==
    Over /\ job.op = "save" /\ status = "OK" /\ Plain /\ ~Cyclic =>
        Tree(result, TRUE) = Tree(Ref(job.root), TRUE)

\* Every object whose data waits in the resolver is held by something else than
\* the resolver, which has its address only.  (From the end of the text on the
\* dictionaries of the resolver keep everything alive.)
Held ==
    LET frames == Range(decoder.stack) \cup UNION {Range(w.stack) : w \in Range(writers)}
        roots == {decoder.root} \cup {w.root : w \in Range(writers)}
    IN  UNION {ObjectsIn(v) : v \in roots}
            \cup UNION {ObjectsIn(IF f.dict THEN Dict(f.d) ELSE Vector(f.s)) : f \in frames}
            \cup UNION {ObjectsIn(Dict(heap[o].data)) : o \in Waiting}
NothingStaleIsRead ==
    /\ phase \in {"encode", "decode"}
    /\ ~Errored(decoder) /\ \A n \in DOMAIN writers : ~Errored(writers[n])
    => Waiting \subseteq Held

\* After a load without an error no reference id is left, at any depth.
ReferencesResolved ==
    Over /\ job.op = "load" /\ status = "OK" =>
        \A o \in DOMAIN heap : ~Unresolved(Dict(heap[o].fields), <<>>) /\ ~Unresolved(Dict(heap[o].extra), <<>>)

\* After a copy or a load without an error the children of a composition are its
\* own, each of them once.
ChildrenHaveParent ==
    Over /\ status = "OK" =>
        \A o \in Below(ObjectsIn(result)) : IsA(heap[o].schema, "Composition") =>
            LET kids == heap[o].fields["children"].s
            IN  /\ \A i \in DOMAIN kids : heap[kids[i].id].parent = o
                /\ \A i, j \in DOMAIN kids : kids[i] = kids[j] => i = j

\* A clip that was made and changed by calls, and every copy of it, has a reference
\* under its active key.
ActiveKeyKnown ==
    job.op # "load" /\ (Plain /\ job.targets = <<>>) =>
        \A o \in Clips : heap[o].fields # <<>> => ActiveKey(heap[o]) \in DOMAIN ReferencesOf(heap[o])

\* Writing a document of plain values fails for a cycle or for a version nothing
\* downgrades to, and for nothing else: the stacks and the set of objects being
\* written are kept right on every way out of SerializableObject::Writer::write.
WritingIsSound == CycleRefused /\ CallsMatch

\* A document written for an older version says so in every object, and keeps what
\* that version can say (downgrade functions, run on dictionaries, inside writing).
OlderVersionKeeps == TextIsDowngraded /\ ActiveReferenceSurvives

\* What was read or copied is a document: references are objects, children have
\* their parent, and active keys are keys, in whatever order objects are filled in.
ReadIsWhole == ReferencesResolved /\ ChildrenHaveParent /\ ActiveKeyKnown
================================================================================
