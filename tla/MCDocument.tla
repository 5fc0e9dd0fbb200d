------------------------------- MODULE MCDocument -------------------------------
(* Document for TLC: one object of every class with everything set and with    *)
(* nothing, small documents with shared and cyclic objects, and files.         *)
EXTENDS Document

MCKeyOrder ==
    <<"", "DEFAULT_MEDIA", "OTIO_REF_ID", "OTIO_SCHEMA", "a", "active_media_reference_key", "available_image_bounds",
      "available_range", "b", "children", "color", "comment", "duration", "effect_name", "effects",
      "enabled", "frame_step", "frame_zero_padding", "generator_kind", "global_start_time", "id",
      "in_offset", "k", "kind", "marked_range", "markers", "max", "media_reference",
      "media_references", "metadata", "min", "missing_frame_policy", "name", "name_prefix",
      "name_suffix", "offset", "out_offset", "parameters", "range", "rate", "scale", "source_range",
      "start_frame", "start_time", "target_url", "target_url_base", "time_scalar", "tracks",
      "transition_type", "value", "x", "y", "z">>

Number(v) == Atom("double", v)
Time(v) == Math("RationalTime", [rate |-> Number("24"), value |-> Number(v)])
Range1 == Math("TimeRange", [start_time |-> Time("0"), duration |-> Time("3")])
Point(v) == Math("V2d", [x |-> Number(v), y |-> Number("1")])
Text(v) == Atom("string", v)

Sample(as) ==
    CASE as = "bool" -> Atom("bool", "false")
      [] as = "int" -> Atom("int", "7")
      [] as = "double" -> Number("2")
      [] as = "string" -> Text("a")
      [] as = "policy" -> Text("hold")
      [] as = "RationalTime" -> Time("5")
      [] as = "TimeRange" -> Range1
      [] as = "Color" -> Math("Color", [r |-> Number("1"), g |-> Number("0"), b |-> Number("0"),
                                        a |-> Number("1"), name |-> Text("red")])
      [] as = "Box2d" -> Math("Box2d", [min |-> Point("0"), max |-> Point("1")])
      [] as = "dict" -> Dict([z |-> Math("TimeTransform", [offset |-> Time("1"), rate |-> Number("24"),
                                                           scale |-> Number("1")]),
                              k |-> Vector(<<Null, Point("2")>>)])

\* Where the objects of a class are in the sample document.
Place(class) ==
    CASE class = "Effect" -> 2 [] class = "Marker" -> 3 [] class \in {"Composable", "SerializableObject"} -> 4
      [] class = "MediaReference" -> 5 [] class = "Stack" -> 6

Whole(f) ==
    CASE f.as = "list" -> Vector(<<Ref(Place(f.of))>>)
      [] f.as = "map" -> Dict([a |-> Ref(Place(f.of))])
      [] f.as = "object" -> Ref(Place(f.of))
      [] OTHER -> Sample(f.as)
Bare(f) == IF f.as = "map" THEN Whole(f) ELSE IF f.must THEN Whole(f) ELSE Default(f)

Made(s, Of(_)) ==
    LET fields == Range(ReadFields[s])
    IN  [NewObject(s, NULL, NULL) EXCEPT
            !.fields = [k \in {f.key : f \in fields} |-> Of(CHOOSE f \in fields : f.key = k)]]
With(o, key, v) == [o EXCEPT !.fields = Assign(@, key, v)]

BareStack == With(Made("Stack", Bare), "children", Vector(<<>>))
Parts == <<Made("Effect", Bare), Made("Marker", Bare), Made("Gap", Bare), Made("MissingReference", Bare), BareStack>>

Job(op, objects, root, targets, text, calls) ==
    [op |-> op, heap |-> objects, root |-> root, targets |-> targets, text |-> text, edits |-> calls]

Known == Schemas \ {"UnknownSchema"}
ClassJobs ==
    {Job(op, <<Made(s, Whole)>> \o Parts, 1, <<>>, <<>>, 0) : op \in {"clone", "save"}, s \in Known}
        \cup {Job("save", <<Made(s, Bare)>> \o Parts, 1, <<>>, <<>>, 0) : s \in Known}

\* A collection of a clip with two references and of what it refers to.
Kids == {<<>>, <<2>>, <<2, 2>>, <<2, 3>>, <<1, 2>>, <<2, 1>>, <<NULL, 2>>}
Metas == {Dict(<<>>), Dict([k |-> Ref(2)]), Dict([k |-> Vector(<<Ref(3), Dict([z |-> Ref(NULL)])>>)]),
          Dict([k |-> Other]), Dict([k |-> Dict([OTIO_SCHEMA |-> SchemaString("Gap", 1), OTIO_REF_ID |-> Text("a")])]),
          Dict([k |-> Ref(5)]), Dict([k |-> Ref(1)]), Dict([a |-> Ref(1), k |-> Ref(1)])}
ClipMetas == {Dict(<<>>), Dict([k |-> Ref(1)]), Dict([k |-> Ref(3)])}

Clip2(meta, active) ==
    With(With(With(Made("Clip", Bare), "metadata", meta), "active_media_reference_key", Text(active)),
         "media_references", Dict([a |-> Ref(3), b |-> Ref(4)]))
Unknown == [NewObject("UnknownSchema", <<"Foo", 7>>, NULL) EXCEPT !.extra = [k |-> Ref(3), x |-> Range1]]
Small(kids, meta, clipMeta) ==
    <<With(With(Made("SerializableCollection", Bare), "metadata", meta),
           "children", Vector([i \in DOMAIN kids |-> Ref(kids[i])])),
      Clip2(clipMeta, "b"),
      With(Made("ExternalReference", Bare), "target_url", Text("b")), Made("MissingReference", Bare), Unknown>>

Versions == {<<>>, [Clip |-> 1], [Clip |-> 1, Marker |-> 1], [MissingReference |-> 0]}
ShapeJobs ==
    {Job("clone", Small(s, m, c), 1, <<>>, <<>>, 0) : s \in Kids, m \in Metas, c \in ClipMetas}
        \cup {Job("save", Small(s, m, c), 1, v, <<>>, 0) : s \in Kids, m \in Metas, c \in ClipMetas, v \in Versions}
ClipJobs ==
    {Job(op, <<Clip2(Dict(<<>>), "a"), Made("Marker", Bare)>> \o SubSeq(Small(<<>>, Dict(<<>>), Dict(<<>>)), 3, 4),
         1, v, <<>>, 2) : op \in {"clone", "save"}, v \in {<<>>, [Clip |-> 1]}}

\* Files.
RECURSIVE Tokens(_)
Tokens(v) ==
    CASE v.t = "dict" ->
            LET keys == SelectSeq(MCKeyOrder, LAMBDA k : k \in DOMAIN v.d)
            IN  <<Token("start_object")>>
                    \o FlattenSeq([i \in DOMAIN keys |-> <<KeyToken(keys[i])>> \o Tokens(v.d[keys[i]])])
                    \o <<Token("end_object")>>
      [] v.t = "vector" ->
            <<Token("start_array")>> \o FlattenSeq([i \in DOMAIN v.s |-> Tokens(v.s[i])]) \o <<Token("end_array")>>
      [] v.t \in MathTypes -> MathTokens(v)
      [] OTHER -> <<ValueToken(v)>>

File(name, version, d) == Dict(("OTIO_SCHEMA" :> SchemaString(name, version)) @@ d)
Named(id, name, version, d) == File(name, version, ("OTIO_REF_ID" :> Text(id)) @@ d)
To(id) == File("SerializableObjectRef", 1, [id |-> Text(id)])

OldClip(d) == File("Clip", 1, d)
Url == File("ExternalReference", 1, [target_url |-> Text("u")])
NewClip(key, d) ==
    Named("c", "Clip", 2, [media_references |-> Dict([a |-> Url]), active_media_reference_key |-> Text(key)] @@ d)
List(name, s) == File(name, 1, [children |-> Vector(s), kind |-> Text("x")])

Files ==
    {OldClip([media_reference |-> Url]), OldClip([media_reference |-> Null]), OldClip(<<>>),
     File("Marker", 1, [range |-> Range1]), File("Marker", 1, <<>>), File("Clip", 3, <<>>),
     List("Sequence", <<OldClip([media_reference |-> Url]), File("Filler", 1, <<>>)>>),
     File("Foo", 7, [k |-> Url]), File("UnknownSchema", 1, <<>>), Dict([OTIO_SCHEMA |-> Text("x")]), Dict([OTIO_SCHEMA |-> Number("2")]),
     List("Track", <<NewClip("a", <<>>), To("c")>>),
     List("SerializableCollection", <<To("c"), NewClip("b", [k |-> Vector(<<To("c")>>)])>>),
     List("SerializableCollection", <<NewClip("a", <<>>), NewClip("a", <<>>)>>),
     File("Stack", 1, [children |-> Vector(<<NewClip("a", <<>>)>>), k |-> Vector(<<To("c")>>)]),
     List("SerializableCollection", <<To("d")>>), List("Stack", <<Null>>),
     List("Stack", <<Url>>), File("Timeline", 1, [tracks |-> Null]), File("Timeline", 1, [tracks |-> Url]),
     File("ImageSequenceReference", 1, [k |-> Null]), Dict([k |-> Vector(<<Url>>)]), Null,
     File("RationalTime", 1, [rate |-> Atom("int", "24")]), File("V2d", 1, [x |-> Atom("int", "1"), y |-> Text("x")])}

Whole1 == Tokens(List("Stack", <<NewClip("a", [k |-> Vector(<<Url>>)])>>))
Cut == {SubSeq(Whole1, 1, n) : n \in 1..Len(Whole1)}

MCJobs ==
    ClassJobs \cup ShapeJobs \cup ClipJobs
        \cup {Job("load", <<>>, NULL, <<>>, Tokens(f), 0) : f \in Files}
        \cup {Job("load", <<>>, NULL, <<>>, t, 0) : t \in Cut}
================================================================================
