------------------------------- MODULE Timeline -------------------------------
(***************************************************************************)
(* services/evidence/timeline.py: every recorded time of an analysis as an *)
(* event that names the evidence record it comes from.  Two fields of the  *)
(* rows are read only here: the times of the manifest's actions and of its *)
(* ingredients' signatures, and the edit history of the metadata.          *)
(***************************************************************************)
EXTENDS EvidenceEngine

\* An event: its time (Unreadable sorts last, with its raw text), the certainty
\* it is shown with and the rules of the records it points at.
Event(type, time, certainty, rules) ==
    [type |-> type, time |-> time, certainty |-> certainty, rules |-> rules]

Named(drafts, rules) == {d \in drafts : d.rule \in rules}

\* The signature, the dated actions and the ingredients' signatures are as
\* certain as the record of the manifest.
ProvenanceEvents(o, drafts) ==
    LET recorded == UNION {{<<"provenance.signed", o.provenance.signedAt>>},
                           {"provenance.action"} \X o.provenance.actions,
                           {"provenance.ingredient-signed"} \X o.provenance.chain}
        events(head) == {Event(e[1], e[2], head.level, {head.rule}) :
                            e \in {r \in recorded : r[2] # Absent}}
    IN  UNION {events(d) : d \in Named(drafts, {"provenance.valid", "provenance.invalid"})}

\* A time that no record speaks of is POSSIBLE, and points at nothing.
Linked(type, time, rule, drafts) ==
    IF Named(drafts, {rule}) = {} THEN {Event(type, time, "POSSIBLE", {})}
    ELSE {Event(type, time, d.level, {rule}) : d \in Named(drafts, {rule})}

MetadataEvents(o, drafts) ==
    LET m == o.metadata
        recorded == {<<"metadata.captured", m.captured, "metadata.captured">>,
                     <<"metadata.modified", m.modified, "metadata.modified">>,
                     <<"metadata.gps_time", m.gpsTime, "metadata.gps">>}
        dated == {r \in recorded : r[2] # Absent}
        edited == UNION {Linked("metadata.edit", time, "metadata.edit-history", drafts) :
                            time \in m.edits}
    IN  edited \cup UNION {Linked(e[1], e[2], e[3], drafts) : e \in dated}

\* The publication is as the source reports it; that we found it is our own fact.
SourceEvents(o, drafts) ==
    LET rules == {"sources.matches"}
    IN  IF Named(drafts, rules) = {} THEN {}
        ELSE {Event("source.published", time, "POSSIBLE", rules) :
                 time \in o.search.published \ {Absent}}
             \cup {Event("source.discovered", 0, "VERIFIED", rules)}

SubmittedEvents(o, drafts) ==
    IF ~o.file THEN {}
    ELSE {Event("analysis.submitted", 0, "VERIFIED",
                {"file.identity"} \cap RulesOf(drafts))}

BuildTimeline(o, drafts) ==
    (IF o.provenance = None THEN {} ELSE ProvenanceEvents(o, drafts))
    \cup (IF o.metadata = None THEN {} ELSE MetadataEvents(o, drafts))
    \cup SourceEvents(o, drafts) \cup SubmittedEvents(o, drafts)
=============================================================================
