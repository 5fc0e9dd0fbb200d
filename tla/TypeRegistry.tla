------------------------------ MODULE TypeRegistry ------------------------------
(* The registry of typeRegistry.cpp, as it stands after its constructor, and   *)
(* the values that documents are made of: a tagged record for each C++ type a  *)
(* std::any is found to hold.  A schema string "Clip.2" is kept as its name    *)
(* and version; any other text is one that cannot be split.                    *)
EXTENDS SchemaRecords, Integers

Null == [t |-> "null"]                       \* a std::any without a value
Atom(t, v) == [t |-> t, v |-> v]             \* "bool", "int", "double", "string"
Other == [t |-> "other"]                     \* a C++ type that nothing writes
SchemaString(name, version) == [t |-> "schema", name |-> name, version |-> version]
Math(type, parts) == [t |-> type, parts |-> parts]
Dict(d) == [t |-> "dict", d |-> d]
Vector(s) == [t |-> "vector", s |-> s]
Ref(o) == [t |-> "object", id |-> o]         \* a Retainer of an object, or of NULL
ReferenceId(i) == [t |-> "reference", id |-> i]

IsString(v) == v.t \in {"string", "schema"}

\* emplace: an entry that is there stays.
Emplace(d, key, v) == IF key \in DOMAIN d THEN d ELSE (key :> v) @@ d
Assign(d, key, v) == (key :> v) @@ d
Erase(d, key) == [k \in DOMAIN d \ {key} |-> d[k]]
Without(d, keys) == [k \in DOMAIN d \ keys |-> d[k]]

\* An object: its class, what an UnknownSchema was read as, the members that its
\* class declares, its dynamic fields, its parent, and the dictionary that it
\* will be read from.
NewObject(schema, origin, data) ==
    [schema |-> schema, origin |-> origin, fields |-> <<>>, extra |-> <<>>,
     parent |-> NULL, data |-> data]

\* A member that the file says nothing of.
Default(f) ==
    CASE f.as = "list" -> Vector(<<>>)
      [] f.as \in {"map", "dict"} -> Dict(<<>>)
      [] f.as = "string" -> Atom("string", "")
      [] f.as = "bool" -> Atom("bool", "true")
      [] OTHER -> Null

\* A MissingReference as it is made.
Missing ==
    LET fields == ReadFields["MissingReference"]
    IN  [NewObject("MissingReference", NULL, NULL) EXCEPT
            !.fields = [k \in {f.key : f \in Range(fields)} |->
                            Default(CHOOSE f \in Range(fields) : f.key = k)]]

--------------------------------------------------------------------------------
(* Type records.                                                               *)

Current == [s \in Schemas |-> IF s \in {"Clip", "Marker"} THEN 2 ELSE 1]

Alias == [Filler |-> "Gap", SerializeableCollection |-> "SerializableCollection",
          Sequence |-> "Track"]

\* The class that a name in a file stands for: itself, an old name of a class, or
\* NULL if there is no record.  The record of an old name has no functions.
ClassOf(name) ==
    IF name \in DOMAIN Alias THEN Alias[name]
    ELSE IF name \in Schemas THEN name ELSE NULL

DefaultMedia == "DEFAULT_MEDIA"

\* Marker 2: a range gets another name.
UpgradeMarker(d) ==
    LET range == IF "range" \in DOMAIN d THEN d["range"] ELSE Null
    IN  Erase(Assign(d, "marked_range", range), "range")

\* Mutant: the only reference is forgotten.
UpgradeClip_Missing(d, missing) ==
    Assign(Assign(Erase(d, "media_reference"), "media_references", Dict(DefaultMedia :> missing)),
           "active_media_reference_key", Atom("string", DefaultMedia))

\* Clip 2: the one reference becomes the only entry of the map.
UpgradeClip(d, missing) ==
    LET found == "media_reference" \in DOMAIN d /\ d["media_reference"].t = "object"
        media == IF found THEN d["media_reference"] ELSE missing
    IN  Assign(Assign(Erase(d, "media_reference"), "media_references", Dict(DefaultMedia :> media)),
               "active_media_reference_key", Atom("string", DefaultMedia))

\* Mutant: the reference under the key that an upgrade gives.
DowngradeClip_Default(d) ==
    LET kept == Without(d, {"media_references", "active_media_reference_key"})
        refs == d["media_references"].d
    IN  IF DefaultMedia \in DOMAIN refs THEN Assign(kept, "media_reference", refs[DefaultMedia]) ELSE kept

\* Clip 2 to 1: the active reference, if it is there.
DowngradeClip(d) ==
    LET active ==
            IF {"media_references", "active_media_reference_key"} \subseteq DOMAIN d
            THEN IF d["media_references"].t = "dict" /\ d["active_media_reference_key"].t = "string"
                 THEN LET refs == d["media_references"].d
                          key == d["active_media_reference_key"].v
                      IN  IF key \in DOMAIN refs THEN refs[key] ELSE Null
                 ELSE Null
            ELSE Null
        kept == Without(d, {"media_references", "active_media_reference_key"})
    IN  IF active.t = "dict" THEN Assign(kept, "media_reference", active) ELSE kept

HasDowngrade(name, version) == name = "Clip" /\ version = 2

\* _instance_from_schema of a name and version in a file: the class of the new
\* object, what it was read as if the class is not known, the objects made on the
\* way and the upgraded dictionary.  An UnknownSchema by that name ends the program.
Instance(name, version, d, heap) ==
    LET class == ClassOf(name)
        at == IF class = NULL THEN 1 ELSE version
        made == Len(heap) + 1
        clip == class = "Clip" /\ name = class /\ at < 2
        media == "media_reference" \in DOMAIN d /\ d["media_reference"].t = "object"
        upgraded == IF clip THEN UpgradeClip(d, Ref(made))
                    ELSE IF class = "Marker" /\ at < 2 THEN UpgradeMarker(d) ELSE d
    IN  IF class = "UnknownSchema" THEN [status |-> "FATAL_ERROR", heap |-> heap]
        ELSE IF class = NULL
        THEN [status |-> "OK", heap |-> Append(heap, NewObject("UnknownSchema", <<name, version>>, d))]
        ELSE IF at > Current[class]
        THEN [status |-> "SCHEMA_VERSION_UNSUPPORTED", heap |-> heap]
        ELSE [status |-> "OK",
              heap |-> (IF clip /\ ~media
                        THEN Append(heap, Missing) ELSE heap)
                       \o <<NewObject(class, NULL, upgraded)>>]

================================================================================
