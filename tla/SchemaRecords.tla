----------------------------- MODULE SchemaRecords -----------------------------
(* The schema classes of OpenTimelineIO as their read_from and write_to see    *)
(* them: for each class its parent, and the fields it reads and writes itself. *)
(* The order of the fields of one class is left out: it only decides which of  *)
(* several errors is the last.                                                 *)
EXTENDS SequencesExt

CONSTANT NULL   \* nullptr, nullopt and the empty any

\* A field: how it is held ("list", "map" and "object" hold objects of class of),
\* whether null stands for no value, and whether the key must be there.
Field(key, as, of, null, must) == [key |-> key, as |-> as, of |-> of, null |-> null, must |-> must]

Must(key, as) == Field(key, as, NULL, as = "string", TRUE)
Maybe(key, as) == Field(key, as, NULL, as = "string", FALSE)
Optional(key, as) == Field(key, as, NULL, TRUE, FALSE)

Parent ==
    [SerializableObject |-> NULL,
     SerializableObjectWithMetadata |-> "SerializableObject",
     UnknownSchema |-> "SerializableObject",
     Composable |-> "SerializableObjectWithMetadata",
     Item |-> "Composable",
     Composition |-> "Item",
     Track |-> "Composition",
     Stack |-> "Composition",
     Gap |-> "Item",
     Clip |-> "Item",
     Transition |-> "Composable",
     Timeline |-> "SerializableObjectWithMetadata",
     SerializableCollection |-> "SerializableObjectWithMetadata",
     Marker |-> "SerializableObjectWithMetadata",
     Effect |-> "SerializableObjectWithMetadata",
     TimeEffect |-> "Effect",
     LinearTimeWarp |-> "TimeEffect",
     FreezeFrame |-> "LinearTimeWarp",
     MediaReference |-> "SerializableObjectWithMetadata",
     MissingReference |-> "MediaReference",
     ExternalReference |-> "MediaReference",
     GeneratorReference |-> "MediaReference",
     ImageSequenceReference |-> "MediaReference"]

Schemas == DOMAIN Parent

WithMetadataFields == <<Maybe("metadata", "dict"), Maybe("name", "string")>>
ItemFields ==
    <<Optional("source_range", "TimeRange"), Field("effects", "list", "Effect", FALSE, FALSE),
      Field("markers", "list", "Marker", FALSE, FALSE), Maybe("enabled", "bool"),
      Optional("color", "Color")>>
CompositionFields == <<Field("children", "list", "Composable", FALSE, TRUE)>>
TrackFields == <<Must("kind", "string")>>
ClipFields ==
    <<Field("media_references", "map", "MediaReference", FALSE, TRUE),
      Must("active_media_reference_key", "string")>>
TransitionFields ==
    <<Must("in_offset", "RationalTime"), Must("out_offset", "RationalTime"),
      Must("transition_type", "string")>>
TimelineFields ==
    <<Field("tracks", "object", "Stack", TRUE, TRUE), Optional("global_start_time", "RationalTime")>>
CollectionFields == <<Field("children", "list", "SerializableObject", FALSE, TRUE)>>
MarkerFields ==
    <<Maybe("color", "string"), Must("marked_range", "TimeRange"), Maybe("comment", "string")>>
EffectFields == <<Must("effect_name", "string"), Maybe("enabled", "bool")>>
TimeWarpFields == <<Must("time_scalar", "double")>>
MediaFields ==
    <<Optional("available_range", "TimeRange"), Optional("available_image_bounds", "Box2d")>>
ExternalFields == <<Must("target_url", "string")>>
GeneratorFields == <<Must("generator_kind", "string"), Must("parameters", "dict")>>
ImageSequenceFields ==
    <<Must("target_url_base", "string"), Must("name_prefix", "string"), Must("name_suffix", "string"),
      Must("start_frame", "int"), Must("frame_step", "int"), Must("rate", "double"),
      Must("frame_zero_padding", "int"), Must("missing_frame_policy", "policy")>>

Own(s) ==
    CASE s = "SerializableObjectWithMetadata" -> WithMetadataFields
      [] s = "Item" -> ItemFields
      [] s = "Composition" -> CompositionFields
      [] s = "Track" -> TrackFields
      [] s = "Clip" -> ClipFields
      [] s = "Transition" -> TransitionFields
      [] s = "Timeline" -> TimelineFields
      [] s = "SerializableCollection" -> CollectionFields
      [] s = "Marker" -> MarkerFields
      [] s = "Effect" -> EffectFields
      [] s = "LinearTimeWarp" -> TimeWarpFields
      [] s = "MediaReference" -> MediaFields
      [] s = "ExternalReference" -> ExternalFields
      [] s = "GeneratorReference" -> GeneratorFields
      [] s = "ImageSequenceReference" -> ImageSequenceFields
      [] OTHER -> <<>>

\* A class and its ancestors, the class first.
Lineage ==
    LET up[c \in Schemas] == IF Parent[c] = NULL THEN <<c>> ELSE <<c>> \o up[Parent[c]]
    IN  [s \in Schemas |-> up[s]]

IsA(s, class) == s \in Schemas /\ class \in Range(Lineage[s])

\* read_from reads its own fields and then calls its parent's; write_to calls its
\* parent's and then writes its own.
ReadFields == [s \in Schemas |-> FlattenSeq([i \in DOMAIN Lineage[s] |-> Own(Lineage[s][i])])]
WriteFields ==
    [s \in Schemas |-> LET up == Reverse(Lineage[s]) IN FlattenSeq([i \in DOMAIN up |-> Own(up[i])])]

================================================================================
