---------------------------- MODULE EvidenceEngine ----------------------------
(***************************************************************************)
(* The rules that turn the rows the pipeline's steps have written into     *)
(* leveled evidence records.  Every operator is a rule group of            *)
(* services/evidence/engine.py: from the rows of one analysis to the set   *)
(* of records it drafts.  Claims, details and limitations are wording and  *)
(* left out, and so is the order of the report.                            *)
(*                                                                         *)
(* An observation o is a record with one field per row; a row that does    *)
(* not exist is None, an empty set of facts is {}.  Scores and confidences *)
(* are per cent.                                                           *)
(***************************************************************************)
EXTENDS Recorded

CONSTANTS AiHigh, AiMedium,       \* ai_score_high, ai_score_medium
          LanguageProbable,       \* language_probable_confidence
          FamiliesForStrong,      \* forensic_families_for_strong
          LevelConfidence,        \* evidence_confidence_* of the four levels
          Overrides,              \* evidence_level_overrides: rule -> level
          ConflictPenalty,        \* evidence_conflict_penalty
          Tolerance               \* TIME_CONFLICT_TOLERANCE_SECONDS

Levels == {"VERIFIED", "STRONG", "PROBABLE", "POSSIBLE", "UNKNOWN"}
Kinds == {"fact", "signal", "unknown", "conflict"}

LevelRank == [VERIFIED |-> 4, STRONG |-> 3, PROBABLE |-> 2, POSSIBLE |-> 1, UNKNOWN |-> 0]

ASSUME ThresholdsAssumption ==
    /\ AiMedium \in 0 .. 100 /\ AiHigh \in 0 .. 100 /\ LanguageProbable \in 0 .. 100
    /\ FamiliesForStrong \in Nat \ {0}
    /\ LevelConfidence \in [Levels \ {"UNKNOWN"} -> 0 .. 100]
    /\ \A r \in DOMAIN Overrides : Overrides[r] \in Levels
    /\ ConflictPenalty \in 0 .. 100 /\ Tolerance \in Nat

-----------------------------------------------------------------------------
(* Records *)

\* EvidenceThresholds.confidence_for
ConfidenceFor(level) == IF level = "UNKNOWN" THEN NoNumber ELSE LevelConfidence[level]

Step(name) == <<"step", name>>
Row(table) == <<"row", table>>
Call(operation) == <<"call", operation>>

\* A draft: the rule, its level and kind, where it was observed, the forensic
\* family it counts for, whether it declares an algorithmic origin, and the
\* rules a conflict names.
Draft(rule, level, kind, refs) ==
    [rule |-> rule, level |-> level, kind |-> kind, refs |-> refs,
     confidence |-> ConfidenceFor(level), family |-> "", algorithmic |-> FALSE,
     sides |-> {}]

Unknown(rule, refs) == Draft(rule, "UNKNOWN", "unknown", refs)
NoSign(rule, refs) == Draft(rule, "UNKNOWN", "signal", refs)
Possible(rule, refs) == Draft(rule, "POSSIBLE", "signal", refs)
Anomaly(rule, family, refs) == [Possible(rule, refs) EXCEPT !.family = family]

When(condition, draft) == IF condition THEN {draft} ELSE {}

\* The provider calls recorded for an operation, as references.
CallRefs(o, operation) == {Call(operation)} \cap o.calls

RulesOf(drafts) == {d.rule : d \in drafts}

-----------------------------------------------------------------------------
(* File and provenance *)

FileRules(o) ==
    When(o.file,
         Draft("file.identity", "VERIFIED", "fact",
               IF o.type = "text"
               THEN {Step("validate"), Row("analysis_files")}
               ELSE {Step("validate"), Step("hashing"), Row("analysis_files")}))

\* Seen by the metadata engine (an XMP field), by the C2PA engine, or both.
RemoteReferenceRule(o) ==
    LET byMetadata == o.metadata # None /\ o.metadata.remote
        byEngine == o.provenance # None /\ o.provenance.remoteHost
    IN  When(byMetadata \/ byEngine,
             Unknown("provenance.remote",
                     {Step("metadata"), Row("image_metadata")}
                     \cup IF byEngine THEN {Step("provenance"), Row("image_provenance")}
                                      ELSE {}))

TrustRules(p, refs) ==
      When(p.trust = "trusted", Draft("provenance.trusted", "VERIFIED", "fact", refs))
      \cup When(p.trust = "untrusted", Unknown("provenance.untrusted-signer", refs))

\* Only an inconsistency is a record.
CertificateRules(p, refs) ==
    When(p.certificate = "outside", Possible("provenance.certificate.outside-validity", refs))

\* The engine validated the identity assertion (CAWG), by its old code or its new.
IdentityValidated(p) ==
    p.codes \cap {"cawg.ica.credential_valid", "cawg.identity.validated"} # {}

\* Declarations are the signer's statements: STRONG when the signature
\* validates, POSSIBLE when it does not.  An algorithmic source type wins over
\* the others.
ProvenanceDeclarationRules(p, refs) ==
    LET declared == IF p.valid THEN "STRONG" ELSE "POSSIBLE"
        algorithmic == "algorithmic" \in p.sourceTypes
        signal(rule, level) == Draft(rule, level, "signal", refs)
    IN  When(p.sourceTypes # {},
             [signal("provenance.source-type", IF algorithmic THEN declared ELSE "POSSIBLE")
              EXCEPT !.algorithmic = algorithmic])
        \cup When(p.training, signal("provenance.training-mining", declared))
        \cup When(p.identity,
                  signal("provenance.identity",
                         IF IdentityValidated(p) THEN declared ELSE "POSSIBLE"))
        \cup When(p.ingredientFailures, signal("provenance.ingredient.invalid", "POSSIBLE"))

ProvenanceRules(o) ==
    LET p == o.provenance
        refs == {Step("provenance")} \cup CallRefs(o, "provenance")
        remote == RemoteReferenceRule(o)
        bound == IF p.location = "sidecar" THEN {Row("analysis_files")} ELSE {}
    IN  IF p = None THEN {Unknown("provenance.uninspected", {Step("provenance")})} \cup remote
        ELSE IF ~p.hasC2pa
        THEN When(p.location # "remote", Unknown("provenance.absent", refs)) \cup remote
        ELSE {IF p.valid THEN Draft("provenance.valid", "VERIFIED", "fact", refs \cup bound)
                         ELSE Possible("provenance.invalid", refs)}
             \cup TrustRules(p, refs) \cup CertificateRules(p, refs)
             \cup ProvenanceDeclarationRules(p, refs) \cup remote

-----------------------------------------------------------------------------
(* Metadata and matches *)

\* What the file says about its origin, declared types, edits and place.
DeclarationRules(m, refs) ==
    LET signal(rule, level) == Draft(rule, level, "signal", refs)
        algorithmic == m.sourceType = "algorithmic"
    IN  When(m.sourceType # "none",
             [signal("metadata.source-type", IF algorithmic THEN "STRONG" ELSE "POSSIBLE")
              EXCEPT !.algorithmic = algorithmic])
        \cup When(m.signals \cap {"history", "derived"} # {},
                  signal("metadata.edit-history", "STRONG"))
        \cup When("gps" \in m.signals, signal("metadata.gps", "POSSIBLE"))
        \cup When(m.signals \cap {"exif", "xmp", "iptc", "markers"} = {},
                  Unknown("metadata.none", refs))

\* m.signals is the set of kinds of metadata found; "generator" needs a named
\* generator as well as its markers, and markers alone still rule out "none".
MetadataRules(o) ==
    LET m == o.metadata
        refs == {Step("metadata"), Row("image_metadata")} \cup CallRefs(o, "metadata")
        signal(rule, level) == Draft(rule, level, "signal", refs)
    IN  IF m = None THEN {Unknown("metadata.unavailable", {Step("metadata")})}
        ELSE When("software" \in m.signals, signal("metadata.software", "STRONG"))
             \cup When("camera" \in m.signals, signal("metadata.camera", "POSSIBLE"))
             \cup When(m.captured # Absent, signal("metadata.captured", "POSSIBLE"))
             \cup When({"generator", "markers"} \subseteq m.signals,
                       signal("metadata.generator", "STRONG"))
             \cup DeclarationRules(m, refs)

ImageMatchRules(o) ==
    LET refs == {Step("hashing"), Row("image_fingerprints")}
    IN  IF ~o.fingerprints THEN {}
        ELSE When("exact" \in o.similar, Draft("matches.exact", "VERIFIED", "fact", refs))
             \cup When("near" \in o.similar, Possible("matches.near", refs))

TextMatchRules(o) ==
    LET refs == {Step("fingerprints"), Row("text_fingerprints")}
    IN  IF ~o.fingerprints THEN {}
        ELSE When(o.similar \ {"near"} # {},
                  Draft("matches.text.identical", "VERIFIED", "fact", refs))
             \cup When("near" \in o.similar, Possible("matches.text.near", refs))

-----------------------------------------------------------------------------
(* Text, detector and search *)

TextRules(o) ==
    LET tx == o.text
        language(level) == [Draft("text.language", level, "signal",
                                  {Step("language"), Row("text_analysis")})
                            EXCEPT !.confidence = tx.confidence]
    IN  IF tx = None
        THEN {Unknown("text.unprocessed", {Step("normalize"), Step("statistics")})}
        ELSE {Draft("text.stats", "VERIFIED", "fact", {Step("statistics"), Row("text_analysis")})}
             \cup {IF ~tx.language THEN Unknown("text.language.unknown", {Step("language")})
                   ELSE IF tx.confidence >= LanguageProbable THEN language("PROBABLE")
                   ELSE language("POSSIBLE")}
             \cup When(tx.hidden > 0,
                       Possible("text.hidden", {Step("normalize"), Row("text_analysis")}))
             \cup When(tx.repeated > 0,
                       Possible("text.repetition", {Step("statistics"), Row("text_analysis")}))

\* A calibrated high score is PROBABLE; uncalibrated high and medium are POSSIBLE.
AiLevel(score, calibrated) ==
    IF score >= AiHigh THEN IF calibrated THEN "PROBABLE" ELSE "POSSIBLE"
    ELSE IF score >= AiMedium THEN "POSSIBLE" ELSE "UNKNOWN"

AiRules(o) ==
    LET ai == o.ai
        refs == {Step("ai"), Row("ai_detections")} \cup CallRefs(o, "ai")
        level == AiLevel(ai.score, ai.calibrated)
    IN  IF ai = None THEN {Unknown("ai.unavailable", {Step("ai")})}
        ELSE IF ai.score = NoNumber THEN {Unknown("ai.noscore", refs)}
        ELSE {[Draft(IF level = "UNKNOWN" THEN "ai.weak" ELSE "ai.signal",
                     level, "signal", refs)
               EXCEPT !.confidence = ai.score]}

\* o.search is the publication times of the matches the search run stored.
SourceRules(o) ==
    LET refs == {Step("search"), Row("source_search_runs")} \cup CallRefs(o, "search")
    IN  {IF o.search = None THEN Unknown("sources.unavailable", {Step("search")})
         ELSE IF o.search.published = {} THEN Unknown("sources.none", refs)
         ELSE Possible("sources.matches", refs)}

-----------------------------------------------------------------------------
(* Forensics.  f maps each method to what its column of the forensics row   *)
(* says: "none" when it is empty, "na" when the method is not applicable,   *)
(* and otherwise the method's verdict.                                      *)

Observed(method) == {Step(method), Row("image_forensics")}

ElaRules(f) ==
    CASE f.ela = "none" -> {}
      [] f.ela = "na" -> {Unknown("forensics.ela.na", Observed("ela"))}
      [] f.ela = "anomaly" ->
             {Anomaly("forensics.ela.anomaly", "error-level/compression", Observed("ela"))}
      [] OTHER -> {NoSign("forensics.ela.none", Observed("ela"))}

CompressionRules(f) ==
    LET refs == Observed("compression")
    IN  CASE f.compression \in {"none", "na"} -> {}
          [] f.compression = "anomaly" ->
                 {Anomaly("forensics.compression.offset-grid", "error-level/compression", refs)}
          [] f.compression = "prior" -> {Possible("forensics.compression.prior-jpeg", refs)}
          [] f.compression = "encoding" -> {NoSign("forensics.compression.encoding", refs)}
          [] OTHER -> {NoSign("forensics.compression.none", refs)}

\* Processing history, never an anomaly.
ResamplingRules(f) ==
    LET refs == Observed("resampling")
    IN  CASE f.resampling \in {"none", "na"} -> {}
          [] f.resampling = "detected" -> {Possible("forensics.resampling.detected", refs)}
          [] f.resampling = "clean" -> {NoSign("forensics.resampling.none", refs)}
          [] OTHER -> {Unknown("forensics.resampling.unmeasured", refs)}

NoiseRules(f) ==
    LET refs == Observed("noise")
    IN  CASE f.noise \in {"none", "na"} -> {}
          [] f.noise = "anomaly" -> {Anomaly("forensics.noise.anomaly", "noise", refs)}
          [] f.noise = "clean" -> {NoSign("forensics.noise.consistent", refs)}
          [] OTHER -> {Unknown("forensics.noise.unmeasured", refs)}

CopyMoveRules(f) ==
    LET refs == Observed("copy_move")
    IN  CASE f.copy_move \in {"none", "na"} -> {}
          [] f.copy_move = "detected" ->
                 {Anomaly("forensics.copy-move.detected", "copy-move", refs)}
          [] f.copy_move = "clean" -> {NoSign("forensics.copy-move.none", refs)}
          [] OTHER -> {Unknown("forensics.copy-move.unmeasured", refs)}

\* A ghost of the whole image is compression history; a local one is an anomaly
\* of the family of ELA.
DoubleCompressionRules(f) ==
    LET refs == Observed("double_compression")
    IN  CASE f.double_compression = "none" -> {}
          [] f.double_compression = "na" ->
                 {Unknown("forensics.double-compression.na", refs)}
          [] f.double_compression = "anomaly" ->
                 {Anomaly("forensics.double-compression.localized",
                          "error-level/compression", refs)}
          [] f.double_compression = "detected" ->
                 {Possible("forensics.double-compression.global", refs)}
          [] OTHER -> {NoSign("forensics.double-compression.none", refs)}

\* The verdict on the thumbnail is the set of its flags: "global" hides a region,
\* a changed geometry stands on its own.
ThumbnailRules(f) ==
    LET refs == Observed("thumbnail")
        flag(rule) == Anomaly(rule, "thumbnail", refs)
    IN  CASE f.thumbnail = "none" -> {}
          [] f.thumbnail = "na" -> {Unknown("forensics.thumbnail.na", refs)}
          [] OTHER ->
                 When(f.thumbnail \in {"global", "global+geometry"},
                      flag("forensics.thumbnail.mismatch"))
                 \cup When(f.thumbnail \in {"region", "region+geometry"},
                           flag("forensics.thumbnail.region"))
                 \cup When(f.thumbnail \in {"geometry", "global+geometry", "region+geometry"},
                           flag("forensics.thumbnail.geometry"))
                 \cup When(f.thumbnail = "clean",
                           NoSign("forensics.thumbnail.consistent", refs))

\* The thumbnail signed into the manifest is of the same family; its geometry is
\* not looked at.
C2paThumbnailRules(f) ==
    LET refs == Observed("c2pa_thumbnail")
        flag(rule) == Anomaly(rule, "thumbnail", refs \cup {Step("provenance")})
    IN  CASE f.c2pa_thumbnail = "none" -> {}
          [] f.c2pa_thumbnail = "na" -> {Unknown("forensics.c2pa-thumbnail.na", refs)}
          [] f.c2pa_thumbnail \in {"global", "global+geometry"} ->
                 {flag("forensics.c2pa-thumbnail.mismatch")}
          [] f.c2pa_thumbnail \in {"region", "region+geometry"} ->
                 {flag("forensics.c2pa-thumbnail.region")}
          [] OTHER -> {NoSign("forensics.c2pa-thumbnail.consistent",
                              refs \cup {Step("provenance")})}

MethodsFlagged(f) ==                                                        \* mutant
    {method \in {"ela", "compression", "double_compression", "noise", "copy_move",
                 "thumbnail", "c2pa_thumbnail"} :
        f[method] \in {"anomaly", "detected", "global", "region", "geometry"}}

\* The independent families that flag something.  ELA, the block grid and the
\* local ghost are one, and so are the two thumbnails.
Families(f) ==
    {family \in {"error-level/compression", "noise", "copy-move", "thumbnail"} :
        CASE family = "error-level/compression" ->
                 "anomaly" \in {f.ela, f.compression, f.double_compression}
          [] family = "noise" -> f.noise = "anomaly"
          [] family = "copy-move" -> f.copy_move = "detected"
          [] OTHER -> \/ f.thumbnail \notin {"none", "na", "clean"}
                      \/ f.c2pa_thumbnail \in {"global", "region", "global+geometry",
                                              "region+geometry"}}

ForensicRules(o) ==
    LET f == o.forensics
    IN  IF f = None THEN {Unknown("forensics.unavailable", {Step("ela")})}
        ELSE ElaRules(f) \cup CompressionRules(f) \cup ResamplingRules(f) \cup NoiseRules(f)
             \cup CopyMoveRules(f) \cup DoubleCompressionRules(f) \cup ThumbnailRules(f)
             \cup C2paThumbnailRules(f)
             \cup When(Cardinality(Families(f)) >= FamiliesForStrong,
                       Draft("forensics.multiple", "STRONG", "signal",
                             {Row("image_forensics")}))

-----------------------------------------------------------------------------
(* Overrides *)

\* docs/07: the strongest level a rule may produce; a rule that is not listed is
\* capped at the level it was given.
Ceiling(draft) ==
    CASE draft.rule \in {"file.identity", "provenance.valid", "provenance.trusted",
                         "matches.exact", "matches.text.identical", "text.stats"} -> "VERIFIED"
      [] draft.rule \in {"provenance.source-type", "provenance.training-mining",
                         "provenance.identity", "metadata.software", "metadata.generator",
                         "metadata.source-type", "metadata.edit-history",
                         "forensics.multiple"} -> "STRONG"
      [] draft.rule \in {"text.language", "ai.signal"} -> "PROBABLE"
      [] draft.rule \in {"provenance.invalid", "provenance.certificate.outside-validity",
                         "provenance.ingredient.invalid", "metadata.camera",
                         "metadata.captured", "metadata.gps", "matches.near",
                         "matches.text.near", "text.hidden", "text.repetition",
                         "sources.matches", "forensics.ela.anomaly",
                         "forensics.compression.offset-grid",
                         "forensics.compression.prior-jpeg", "forensics.resampling.detected",
                         "forensics.noise.anomaly", "forensics.copy-move.detected",
                         "forensics.thumbnail.mismatch", "forensics.thumbnail.region",
                         "forensics.thumbnail.geometry", "forensics.c2pa-thumbnail.mismatch",
                         "forensics.c2pa-thumbnail.region",
                         "forensics.double-compression.localized",
                         "forensics.double-compression.global"} -> "POSSIBLE"
      [] OTHER -> draft.level

Weaker(a, b) == IF LevelRank[a] <= LevelRank[b] THEN a ELSE b

OverriddenFreely(draft) ==                                                  \* mutant
    IF draft.rule \notin DOMAIN Overrides \/ draft.kind = "conflict" THEN draft
    ELSE [draft EXCEPT !.level = Overrides[draft.rule]]

\* A confidence that was the level's default follows the new level.
Overridden(draft) ==
    IF draft.rule \notin DOMAIN Overrides \/ draft.kind = "conflict" THEN draft
    ELSE LET level == Weaker(Overrides[draft.rule], Ceiling(draft))
         IN  IF level = draft.level THEN draft
             ELSE [draft EXCEPT
                      !.level = level,
                      !.confidence = IF @ \in {NoNumber, ConfidenceFor(draft.level)}
                                     THEN ConfidenceFor(level) ELSE @]

ApplyOverrides(drafts) == {Overridden(d) : d \in drafts}

-----------------------------------------------------------------------------
(* Conflicts *)

Conflict(rule, refs, sides) ==
    [Draft(rule, "UNKNOWN", "conflict", refs) EXCEPT !.sides = sides]

Between(rule, a, b) == Conflict(rule, a.refs \cup b.refs, {a.rule, b.rule})

\* The records of two rules, which have at most one each.
Pairs(drafts, first, second) ==
    {p \in drafts \X drafts : p[1].rule = first /\ p[2].rule = second}
Against(rule, pairs) == {Between(rule, p[1], p[2]) : p \in pairs}

\* A capture time after the signing time.
CaptureAfterSigning(drafts, o) ==
    Against("conflict.capture-after-signing",
            {p \in Pairs(drafts, "provenance.valid", "metadata.captured") :
                /\ Parsed(o.metadata.captured) /\ Parsed(o.provenance.signedAt)
                /\ o.metadata.captured - o.provenance.signedAt > Tolerance})

LatestPublication(drafts, o) ==                                             \* mutant
    Against("conflict.published-before-capture",
            {p \in Pairs(drafts, "sources.matches", "metadata.captured") :
                /\ Parsed(o.metadata.captured)
                /\ \E time \in o.search.published : Parsed(time)
                /\ \A time \in o.search.published :
                       Parsed(time) => o.metadata.captured - time > Tolerance})

\* A source published before the capture time: the earliest readable date counts.
PublishedBeforeCapture(drafts, o) ==
    Against("conflict.published-before-capture",
            {p \in Pairs(drafts, "sources.matches", "metadata.captured") :
                /\ Parsed(o.metadata.captured)
                /\ \E time \in o.search.published :
                       Parsed(time) /\ o.metadata.captured - time > Tolerance})

SourceTypeConflict(drafts) ==
    Against("conflict.source-type",
            {p \in Pairs(drafts, "provenance.source-type", "metadata.source-type") :
                p[1].algorithmic # p[2].algorithmic})

ManifestOrderConflict(drafts, o) ==
    LET unordered == {d \in drafts : /\ d.rule \in {"provenance.valid", "provenance.invalid"}
                                     /\ o.provenance.orderConflict}
    IN  {Conflict("conflict.manifest-order", d.refs, {d.rule}) : d \in unordered}

\* A validated manifest against a signal that says otherwise.
OpposingSignals(drafts) ==
    LET strong(pairs) == {p \in pairs : p[2].level \in {"STRONG", "PROBABLE"}}
    IN  Against("conflict.provenance-vs-ai",
                strong(Pairs(drafts, "provenance.valid", "ai.signal")))
        \cup Against("conflict.provenance-vs-forensics",
                     strong(Pairs(drafts, "provenance.valid", "forensics.multiple")))

\* The conflicts are between the records as the overrides have left them.
ConflictRules(drafts, o) ==
    CaptureAfterSigning(drafts, o) \cup PublishedBeforeCapture(drafts, o)
    \cup SourceTypeConflict(drafts) \cup ManifestOrderConflict(drafts, o)
    \cup OpposingSignals(drafts)

-----------------------------------------------------------------------------
(* The whole *)

Drafts(o) ==
    FileRules(o) \cup AiRules(o) \cup SourceRules(o)
    \cup IF o.type = "image"
         THEN ProvenanceRules(o) \cup MetadataRules(o) \cup ImageMatchRules(o)
              \cup ForensicRules(o)
         ELSE TextRules(o) \cup TextMatchRules(o)

ResolvedEvidence(o) ==                                                      \* mutant
    LET leveled == ApplyOverrides(Drafts(o))
        conflicts == ConflictRules(leveled, o)
    IN  {d \in leveled : \A c \in conflicts : d.rule \in c.sides => d.level = "VERIFIED"}
        \cup conflicts

BuildEvidence(o) ==
    LET leveled == ApplyOverrides(Drafts(o))
    IN  leveled \cup ConflictRules(leveled, o)

\* The strongest record's confidence, less a penalty for each conflict.  UNKNOWN
\* records count for nothing.
SynthesisConfidence(drafts) ==
    LET conflicts == {d \in drafts : d.kind = "conflict"}
        numbers == {0} \cup {IF d.confidence = NoNumber
                             THEN ConfidenceFor(d.level) ELSE d.confidence :
                             d \in {e \in drafts \ conflicts : e.level # "UNKNOWN"}}
        best == CHOOSE n \in numbers : \A k \in numbers : k <= n
        left == best - Cardinality(conflicts) * ConflictPenalty
    IN  IF left < 0 THEN 0 ELSE IF left > 100 THEN 100 ELSE left

\* summarise: how many records each level has.
Counts(drafts) == [level \in Levels |-> Cardinality({d \in drafts : d.level = level})]
=============================================================================
