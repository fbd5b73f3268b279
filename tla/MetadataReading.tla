--------------------------- MODULE MetadataReading ---------------------------
(***************************************************************************)
(* From the tags an extractor found in a file to the row the evidence      *)
(* engine reads: services/image/metadata.py and lineage.py.                *)
(*                                                                         *)
(* raw is a function from <<group, tag>> to what was recorded: a time (a   *)
(* number or Unreadable) for the time tags, a set of times for the edit    *)
(* history, the declared type for DigitalSourceType, and anything else for *)
(* a tag whose text is only quoted.  Texts, coordinates and tag counts are *)
(* left out.                                                               *)
(***************************************************************************)
EXTENDS Recorded, Sequences

\* The first of several tags that is recorded; a value that cannot be read hides
\* the readable ones after it.
FirstOf(raw, tags, otherwise) ==
    LET found == SelectSeq(tags, LAMBDA t : t \in DOMAIN raw)
    IN  IF found = <<>> THEN otherwise ELSE raw[Head(found)]

HasGroup(raw, group) == \E t \in DOMAIN raw : t[1] = group
HasAny(raw, tags) == tags \cap DOMAIN raw # {}

\* Any of them, if only the version the camera always writes.
GpsTags == {"GPSVersionID", "GPSLatitude", "GPSDateStamp", "GPSTimeStamp"}

GpsPresent(raw) ==
    HasAny(raw, ({"EXIF"} \X GpsTags) \cup {<<"Composite", "GPSPosition">>})

\* The receiver's time: as one value, or from a date and a clock that are both there.
GpsTime(raw) ==
    IF ~GpsPresent(raw) THEN Absent
    ELSE IF <<"Composite", "GPSDateTime">> \in DOMAIN raw THEN raw[<<"Composite", "GPSDateTime">>]
    ELSE IF {<<"EXIF", "GPSDateStamp">>, <<"EXIF", "GPSTimeStamp">>} \subseteq DOMAIN raw
    THEN raw[<<"EXIF", "GPSTimeStamp">>] ELSE Absent

\* A text chunk only generators write, a description that names one, and a Software
\* field that does.  The first one found names the generator, so there is one
\* exactly when there are markers.
NamedSoftware == <<"EXIF", "generator">>
GeneratorTags == {<<"PNG", "parameters">>, <<"XMP", "generator">>, NamedSoftware}

\* Of several kinds of declaration the XMP property is taken before the IPTC field.
DigitalSourceType(raw) ==
    FirstOf(raw, <<<<"XMP", "DigitalSourceType">>, <<"IPTC", "DigitalSourceType">>>>, "none")

EditHistory(raw) == FirstOf(raw, <<<<"XMP", "History">>>>, {})

NormalizeMetadata(raw) ==
    LET has(signal, condition) == IF condition THEN {signal} ELSE {}
    IN  [signals |->
            has("exif", HasGroup(raw, "EXIF")) \cup has("xmp", HasGroup(raw, "XMP"))
            \cup has("iptc", HasGroup(raw, "IPTC"))
            \cup has("software", HasAny(raw, {<<"EXIF", "Software">>, <<"XMP", "CreatorTool">>,
                                              <<"XMP", "Software">>, NamedSoftware}))
            \cup has("camera", HasAny(raw, {"EXIF", "XMP"} \X {"Make", "Model"}))
            \cup (IF HasAny(raw, GeneratorTags) THEN {"generator", "markers"} ELSE {})
            \cup has("history", EditHistory(raw) # {})
            \cup has("derived", <<"XMP", "DerivedFrom">> \in DOMAIN raw)
            \cup has("gps", GpsPresent(raw)),
         captured |-> FirstOf(raw, <<<<"EXIF", "DateTimeOriginal">>, <<"XMP", "DateTimeOriginal">>,
                                     <<"EXIF", "CreateDate">>>>, Absent),
         modified |-> FirstOf(raw, <<<<"EXIF", "ModifyDate">>, <<"XMP", "ModifyDate">>>>, Absent),
         gpsTime |-> GpsTime(raw),
         edits |-> EditHistory(raw),
         sourceType |-> DigitalSourceType(raw),
         remote |-> <<"XMP", "provenance">> \in DOMAIN raw]
=============================================================================
