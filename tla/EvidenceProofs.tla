---------------------------- MODULE EvidenceProofs ----------------------------
(***************************************************************************)
(* Theorems about the rules, the conflicts, the synthesis confidence and   *)
(* the timeline, for every content of the rows and every table of          *)
(* overrides that the settings accept.  Nothing here has a state: an       *)
(* observation goes in, records and events come out.                       *)
(***************************************************************************)
EXTENDS Timeline, FiniteSetTheorems, WellFoundedInduction, TLAPS

Fields == {"rule", "level", "kind", "refs", "confidence", "family", "algorithmic", "sides"}
DraftKinds == {"fact", "signal", "unknown"}

\* What every rule drafts: a record of a proper level and kind, no stronger than
\* the ceiling of its rule.
Drafted(d) ==
    /\ DOMAIN d = Fields
    /\ d.level \in Levels
    /\ d.kind \in DraftKinds
    /\ LevelRank[d.level] <= LevelRank[Ceiling(d)]

LEMMA RanksOfLevels ==
    /\ LevelRank["UNKNOWN"] = 0 /\ LevelRank["POSSIBLE"] = 1 /\ LevelRank["PROBABLE"] = 2
    /\ LevelRank["STRONG"] = 3 /\ LevelRank["VERIFIED"] = 4
  BY DEF LevelRank

LEMMA DraftIsARecord ==
    ASSUME NEW rule, NEW level, NEW kind, NEW refs
    PROVE  LET d == Draft(rule, level, kind, refs)
           IN  /\ DOMAIN d = Fields
               /\ d.rule = rule /\ d.level = level /\ d.kind = kind /\ d.refs = refs
  BY DEF Draft, Fields

\* A ceiling is a level, and never UNKNOWN unless the draft was.
LEMMA CeilingIsALevel ==
    ASSUME NEW d, d.level \in Levels
    PROVE  /\ Ceiling(d) \in Levels
           /\ d.level # "UNKNOWN" => Ceiling(d) # "UNKNOWN"
  BY DEF Ceiling, Levels

LEMMA UnknownFits ==
    ASSUME NEW rule, NEW kind \in DraftKinds, NEW refs
    PROVE  Drafted(Draft(rule, "UNKNOWN", kind, refs))
<1> DEFINE d == Draft(rule, "UNKNOWN", kind, refs)
<1>1. DOMAIN d = Fields /\ d.level = "UNKNOWN" /\ d.kind = kind  BY DraftIsARecord
<1> HIDE DEF d
<1>2. Ceiling(d) \in Levels  BY <1>1, CeilingIsALevel DEF Levels
<1>3. Drafted(d)  BY <1>1, <1>2, RanksOfLevels DEF Drafted, Levels
<1>4. QED  BY <1>3 DEF d

LEMMA PossibleFits ==
    ASSUME NEW rule, NEW kind \in DraftKinds, NEW refs
    PROVE  Drafted(Draft(rule, "POSSIBLE", kind, refs))
<1> DEFINE d == Draft(rule, "POSSIBLE", kind, refs)
<1>1. DOMAIN d = Fields /\ d.level = "POSSIBLE" /\ d.kind = kind  BY DraftIsARecord
<1> HIDE DEF d
<1>2. Ceiling(d) \in Levels \ {"UNKNOWN"}  BY <1>1, CeilingIsALevel DEF Levels
<1>3. Drafted(d)  BY <1>1, <1>2, RanksOfLevels DEF Drafted, Levels
<1>4. QED  BY <1>3 DEF d

LEMMA ProbableFits ==
    ASSUME NEW rule \in {"text.language", "ai.signal"}, NEW kind \in DraftKinds, NEW refs
    PROVE  Drafted(Draft(rule, "PROBABLE", kind, refs))
<1> DEFINE d == Draft(rule, "PROBABLE", kind, refs)
<1>1. DOMAIN d = Fields /\ d.rule = rule /\ d.level = "PROBABLE" /\ d.kind = kind
  BY DraftIsARecord
<1> HIDE DEF d
<1>2. Ceiling(d) = "PROBABLE"  BY <1>1 DEF Ceiling
<1>3. Drafted(d)  BY <1>1, <1>2, RanksOfLevels DEF Drafted, Levels
<1>4. QED  BY <1>3 DEF d

LEMMA StrongFits ==
    ASSUME NEW rule \in {"provenance.source-type", "provenance.training-mining",
                         "provenance.identity", "metadata.software", "metadata.generator",
                         "metadata.source-type", "metadata.edit-history",
                         "forensics.multiple"},
           NEW kind \in DraftKinds, NEW refs
    PROVE  Drafted(Draft(rule, "STRONG", kind, refs))
<1> DEFINE d == Draft(rule, "STRONG", kind, refs)
<1>1. DOMAIN d = Fields /\ d.rule = rule /\ d.level = "STRONG" /\ d.kind = kind
  BY DraftIsARecord
<1> HIDE DEF d
<1>2. Ceiling(d) = "STRONG"  BY <1>1 DEF Ceiling
<1>3. Drafted(d)  BY <1>1, <1>2, RanksOfLevels DEF Drafted, Levels
<1>4. QED  BY <1>3 DEF d

LEMMA VerifiedFits ==
    ASSUME NEW rule \in {"file.identity", "provenance.valid", "provenance.trusted",
                         "matches.exact", "matches.text.identical", "text.stats"},
           NEW kind \in DraftKinds, NEW refs
    PROVE  Drafted(Draft(rule, "VERIFIED", kind, refs))
<1> DEFINE d == Draft(rule, "VERIFIED", kind, refs)
<1>1. DOMAIN d = Fields /\ d.rule = rule /\ d.level = "VERIFIED" /\ d.kind = kind
  BY DraftIsARecord
<1> HIDE DEF d
<1>2. Ceiling(d) = "VERIFIED"  BY <1>1 DEF Ceiling
<1>3. Drafted(d)  BY <1>1, <1>2, RanksOfLevels DEF Drafted, Levels
<1>4. QED  BY <1>3 DEF d

\* Confidence, family and origin have no say in it.
LEMMA AmendedFits ==
    ASSUME NEW d, Drafted(d), NEW x, NEW f \in {"confidence", "family", "algorithmic"}
    PROVE  Drafted([d EXCEPT ![f] = x])
<1> DEFINE e == [d EXCEPT ![f] = x]
<1>1. /\ DOMAIN e = Fields
      /\ e.rule = d.rule /\ e.level = d.level /\ e.kind = d.kind
  BY DEF Drafted, Fields
<1> HIDE DEF e
<1>2. Ceiling(e) = Ceiling(d)  BY <1>1 DEF Ceiling
<1>3. Drafted(e)  BY <1>1, <1>2 DEF Drafted
<1>4. QED  BY <1>3 DEF e

LEMMA OriginFits ==
    ASSUME NEW d, Drafted(d), NEW x
    PROVE  Drafted([d EXCEPT !.algorithmic = x])
  BY AmendedFits

LEMMA UnknownDrafts ==
    ASSUME NEW rule, NEW refs
    PROVE  Drafted(Unknown(rule, refs)) /\ Drafted(NoSign(rule, refs))
  BY UnknownFits DEF Unknown, NoSign, DraftKinds

LEMMA PossibleDrafts ==
    ASSUME NEW rule, NEW refs, NEW family
    PROVE  Drafted(Possible(rule, refs)) /\ Drafted(Anomaly(rule, family, refs))
<1>1. Drafted(Possible(rule, refs))  BY PossibleFits DEF Possible, DraftKinds
<1>2. QED  BY <1>1, AmendedFits DEF Anomaly

-----------------------------------------------------------------------------

LEMMA FileRulesDraft == \A o : \A d \in FileRules(o) : Drafted(d)
  BY VerifiedFits DEF FileRules, When, DraftKinds

LEMMA SourceRulesDraft == \A o : \A d \in SourceRules(o) : Drafted(d)
  BY UnknownDrafts, PossibleDrafts DEF SourceRules

LEMMA RemoteReferenceDrafts == \A o : \A d \in RemoteReferenceRule(o) : Drafted(d)
  BY UnknownDrafts DEF RemoteReferenceRule, When

LEMMA MatchRulesDraft == \A o : \A d \in ImageMatchRules(o) \cup TextMatchRules(o) : Drafted(d)
<1>1. \A o : \A d \in ImageMatchRules(o) : Drafted(d)
  BY VerifiedFits, PossibleDrafts DEF ImageMatchRules, When, DraftKinds
<1>2. \A o : \A d \in TextMatchRules(o) : Drafted(d)
  BY VerifiedFits, PossibleDrafts DEF TextMatchRules, When, DraftKinds
<1>3. QED  BY <1>1, <1>2

LEMMA AiRulesDraft == \A o : \A d \in AiRules(o) : Drafted(d)
<1> TAKE o
<1> DEFINE refs == {Step("ai"), Row("ai_detections")} \cup CallRefs(o, "ai")
           level == AiLevel(o.ai.score, o.ai.calibrated)
           rule == IF level = "UNKNOWN" THEN "ai.weak" ELSE "ai.signal"
           draft == Draft(rule, level, "signal", refs)
<1>1. level \in {"UNKNOWN", "POSSIBLE", "PROBABLE"}  BY DEF AiLevel
<1>2. AiRules(o) \subseteq {Unknown("ai.unavailable", {Step("ai")}), Unknown("ai.noscore", refs),
                           [draft EXCEPT !.confidence = o.ai.score]}
  BY DEF AiRules
<1> HIDE DEF level, refs
<1>3. Drafted(draft)
  <2>1. CASE level = "UNKNOWN"  BY <2>1, UnknownFits DEF DraftKinds
  <2>2. CASE level = "POSSIBLE"  BY <2>2, PossibleFits DEF DraftKinds
  <2>3. CASE level = "PROBABLE"  BY <2>3, ProbableFits DEF DraftKinds
  <2>4. QED  BY <1>1, <2>1, <2>2, <2>3
<1> HIDE DEF draft
<1>4. Drafted([draft EXCEPT !.confidence = o.ai.score])  BY <1>3, AmendedFits
<1>5. QED  BY <1>2, <1>4, UnknownDrafts

LEMMA TextRulesDraft == \A o : \A d \in TextRules(o) : Drafted(d)
<1> TAKE o
<1> DEFINE refs == {Step("language"), Row("text_analysis")}
           language(level) == [Draft("text.language", level, "signal", refs)
                               EXCEPT !.confidence = o.text.confidence]
<1>1. Drafted(language("PROBABLE")) /\ Drafted(language("POSSIBLE"))
  BY PossibleFits, ProbableFits, AmendedFits DEF DraftKinds
<1>2. Drafted(Draft("text.stats", "VERIFIED", "fact", {Step("statistics"), Row("text_analysis")}))
  BY VerifiedFits DEF DraftKinds
<1>3. \A d \in TextRules(o) :
        \/ \E rule, where : d = Unknown(rule, where) \/ d = Possible(rule, where)
        \/ d = language("PROBABLE") \/ d = language("POSSIBLE")
        \/ d = Draft("text.stats", "VERIFIED", "fact", {Step("statistics"), Row("text_analysis")})
  BY DEF TextRules, When
<1>4. QED  BY <1>1, <1>2, <1>3, UnknownDrafts, PossibleDrafts

LEMMA MetadataRulesDraft == \A o : \A d \in MetadataRules(o) : Drafted(d)
<1> TAKE o
<1> DEFINE refs == {Step("metadata"), Row("image_metadata")} \cup CallRefs(o, "metadata")
           Strong == {"metadata.software", "metadata.generator", "metadata.source-type",
                      "metadata.edit-history"}
           declared(level, x) ==
               [Draft("metadata.source-type", level, "signal", refs) EXCEPT !.algorithmic = x]
<1>1. \A d \in DeclarationRules(o.metadata, refs) :
        \/ \E rule \in Strong : d = Draft(rule, "STRONG", "signal", refs)
        \/ \E rule : d = Draft(rule, "POSSIBLE", "signal", refs) \/ d = Unknown(rule, refs)
        \/ \E x : d = declared("STRONG", x)
        \/ \E x : d = declared("POSSIBLE", x)
  BY DEF DeclarationRules, When
<1>2. \A d \in MetadataRules(o) :
        \/ \E rule \in Strong : d = Draft(rule, "STRONG", "signal", refs)
        \/ \E rule : d = Draft(rule, "POSSIBLE", "signal", refs)
        \/ \E rule, where : d = Unknown(rule, where)
        \/ d \in DeclarationRules(o.metadata, refs)
  BY DEF MetadataRules, When
<1>3. \A rule \in Strong : Drafted(Draft(rule, "STRONG", "signal", refs))
  BY StrongFits DEF DraftKinds
<1>4. \A rule : Drafted(Draft(rule, "POSSIBLE", "signal", refs))
  BY PossibleFits DEF DraftKinds
<1>5. \A x : Drafted(declared("STRONG", x)) /\ Drafted(declared("POSSIBLE", x))
  BY <1>3, <1>4, OriginFits
<1> HIDE DEF Strong, refs, declared
<1>6. \A d \in DeclarationRules(o.metadata, refs) : Drafted(d)
  BY <1>1, <1>3, <1>4, <1>5, UnknownDrafts
<1>7. QED  BY <1>2, <1>3, <1>4, <1>6, UnknownDrafts

LEMMA ProvenanceDeclarationsDraft ==
    ASSUME NEW p, NEW refs
    PROVE  \A d \in ProvenanceDeclarationRules(p, refs) : Drafted(d)
<1> DEFINE Strong == {"provenance.source-type", "provenance.training-mining",
                      "provenance.identity"}
           signal(rule, level) == Draft(rule, level, "signal", refs)
           declared(level, x) == [signal("provenance.source-type", level) EXCEPT !.algorithmic = x]
<1>1. \A rule \in Strong : Drafted(signal(rule, "STRONG"))
  BY StrongFits DEF DraftKinds
<1>2. \A rule : Drafted(signal(rule, "POSSIBLE"))
  BY PossibleFits DEF DraftKinds
<1>3. \A d \in ProvenanceDeclarationRules(p, refs) :
        \/ \E rule \in Strong : d = signal(rule, "STRONG")
        \/ \E rule : d = signal(rule, "POSSIBLE")
        \/ \E x : d = declared("STRONG", x)
        \/ \E x : d = declared("POSSIBLE", x)
  BY DEF ProvenanceDeclarationRules, When
<1>4. \A x : Drafted(declared("STRONG", x)) /\ Drafted(declared("POSSIBLE", x))
  BY <1>1, <1>2, OriginFits
<1> HIDE DEF Strong, signal, declared
<1>5. QED  BY <1>1, <1>2, <1>3, <1>4

LEMMA ProvenanceRulesDraft == \A o : \A d \in ProvenanceRules(o) : Drafted(d)
<1> TAKE o
<1>1. \A p, refs : \A d \in TrustRules(p, refs) \cup CertificateRules(p, refs) : Drafted(d)
  <2>1. \A p, refs : \A d \in TrustRules(p, refs) : Drafted(d)
    BY VerifiedFits, UnknownDrafts DEF TrustRules, When, DraftKinds
  <2>2. \A p, refs : \A d \in CertificateRules(p, refs) : Drafted(d)
    BY PossibleDrafts DEF CertificateRules, When
  <2>3. QED  BY <2>1, <2>2
<1>2. \A refs : Drafted(Draft("provenance.valid", "VERIFIED", "fact", refs))
  BY VerifiedFits DEF DraftKinds
<1>3. \A d \in ProvenanceRules(o) :
        \/ \E rule, where : d = Unknown(rule, where) \/ d = Possible(rule, where)
        \/ \E where : d = Draft("provenance.valid", "VERIFIED", "fact", where)
        \/ \E p, where : d \in TrustRules(p, where) \cup CertificateRules(p, where)
        \/ \E p, where : d \in ProvenanceDeclarationRules(p, where)
        \/ d \in RemoteReferenceRule(o)
  BY DEF ProvenanceRules, When
<1>4. QED
  BY <1>1, <1>2, <1>3, UnknownDrafts, PossibleDrafts, ProvenanceDeclarationsDraft,
     RemoteReferenceDrafts

LEMMA ForensicRulesDraft == \A o : \A d \in ForensicRules(o) : Drafted(d)
<1> DEFINE Modest(d) == \/ \E rule, refs : d \in {Unknown(rule, refs), NoSign(rule, refs),
                                                      Possible(rule, refs)}
                       \/ \E rule, family, refs : d = Anomaly(rule, family, refs)
<1>1. \A d : Modest(d) => Drafted(d)
  BY UnknownDrafts, PossibleDrafts
<1> HIDE DEF Modest
<1> TAKE o
<1> DEFINE f == o.forensics
<1>2. \A d \in ElaRules(f) \cup CompressionRules(f) \cup ResamplingRules(f) : Modest(d)
  BY DEF ElaRules, CompressionRules, ResamplingRules, Modest
<1>3. \A d \in NoiseRules(f) \cup CopyMoveRules(f) \cup DoubleCompressionRules(f) : Modest(d)
  BY DEF NoiseRules, CopyMoveRules, DoubleCompressionRules, Modest
<1>4. \A d \in ThumbnailRules(f) \cup C2paThumbnailRules(f) : Modest(d)
  BY DEF ThumbnailRules, C2paThumbnailRules, When, Modest
<1>5. Drafted(Draft("forensics.multiple", "STRONG", "signal", {Row("image_forensics")}))
  BY StrongFits DEF DraftKinds
<1>6. QED  BY <1>1, <1>2, <1>3, <1>4, <1>5, UnknownDrafts DEF ForensicRules, When

\* No rule drafts anything stronger than its ceiling, whatever the rows hold.
THEOREM RulesRespectCeilings == \A o : \A d \in Drafts(o) : Drafted(d)
  BY FileRulesDraft, AiRulesDraft, SourceRulesDraft, ProvenanceRulesDraft, MetadataRulesDraft,
     MatchRulesDraft, ForensicRulesDraft, TextRulesDraft DEF Drafts

-----------------------------------------------------------------------------
(* Overrides and conflicts *)

LEMMA OverridesFit ==
    ASSUME NEW d, Drafted(d)
    PROVE  /\ Overridden(d).rule = d.rule
           /\ Overridden(d).kind = d.kind
           /\ Overridden(d).level \in Levels
           /\ LevelRank[Overridden(d).level] <= LevelRank[Ceiling(d)]
<1> DEFINE e == Overridden(d)
           level == Weaker(Overrides[d.rule], Ceiling(d))
<1>1. CASE d.rule \notin DOMAIN Overrides \/ d.kind = "conflict" \/ level = d.level
  BY <1>1 DEF Overridden, Drafted
<1>2. CASE d.rule \in DOMAIN Overrides /\ d.kind # "conflict" /\ level # d.level
  <2>1. level \in Levels /\ LevelRank[level] <= LevelRank[Ceiling(d)]
    <3>1. Overrides[d.rule] \in Levels  BY <1>2, ThresholdsAssumption
    <3>2. Ceiling(d) \in Levels  BY CeilingIsALevel DEF Drafted
    <3>3. QED  BY <3>1, <3>2, RanksOfLevels DEF Weaker, Levels
  <2> HIDE DEF level
  <2>2. e = [d EXCEPT !.level = level,
                      !.confidence = IF @ \in {NoNumber, ConfidenceFor(d.level)}
                                     THEN ConfidenceFor(level) ELSE @]
    BY <1>2 DEF Overridden, level
  <2>3. e.rule = d.rule /\ e.kind = d.kind /\ e.level = level
    BY <2>2 DEF Drafted, Fields
  <2>4. QED  BY <2>1, <2>3
<1>3. QED  BY <1>1, <1>2

LEMMA ConflictsAreUnknown ==
    \A drafts, o : \A c \in ConflictRules(drafts, o) : c.kind = "conflict" /\ c.level = "UNKNOWN"
<1>1. \A rule, refs, sides : /\ Conflict(rule, refs, sides).kind = "conflict"
                            /\ Conflict(rule, refs, sides).level = "UNKNOWN"
  BY DraftIsARecord DEF Conflict, Fields
<1>2. ASSUME NEW rule, NEW pairs, NEW c \in Against(rule, pairs)
      PROVE  c.kind = "conflict" /\ c.level = "UNKNOWN"
  <2>1. PICK p \in pairs : c = Between(rule, p[1], p[2])  BY DEF Against
  <2>2. c = Conflict(rule, p[1].refs \cup p[2].refs, {p[1].rule, p[2].rule})
    BY <2>1 DEF Between
  <2>3. QED  BY <1>1, <2>2
<1> TAKE drafts, o
<1>3. ASSUME NEW c \in ManifestOrderConflict(drafts, o)
      PROVE  c.kind = "conflict" /\ c.level = "UNKNOWN"
  <2>1. \E d : c = Conflict("conflict.manifest-order", d.refs, {d.rule})
    BY DEF ManifestOrderConflict
  <2>2. QED  BY <1>1, <2>1
<1>4. ASSUME NEW c \in ConflictRules(drafts, o), c \notin ManifestOrderConflict(drafts, o)
      PROVE  \E rule, pairs : c \in Against(rule, pairs)
  BY <1>4 DEF ConflictRules, CaptureAfterSigning, PublishedBeforeCapture, SourceTypeConflict,
              OpposingSignals
<1>5. QED  BY <1>2, <1>3, <1>4

\* No record of the evidence, whatever the rows and the overrides, is stronger than
\* the ceiling of its rule.
THEOREM EvidenceRespectsCeilings ==
    ASSUME NEW o, NEW e \in BuildEvidence(o)
    PROVE  /\ e.level \in Levels /\ e.kind \in Kinds
           /\ e.kind # "conflict" =>
                 \E d \in Drafts(o) :
                     d.rule = e.rule /\ LevelRank[e.level] <= LevelRank[Ceiling(d)]
<1>1. CASE e \in ConflictRules(ApplyOverrides(Drafts(o)), o)
  BY <1>1, ConflictsAreUnknown DEF Levels, Kinds
<1>2. CASE e \in ApplyOverrides(Drafts(o))
  <2>1. PICK d \in Drafts(o) : e = Overridden(d)  BY <1>2 DEF ApplyOverrides
  <2>2. Drafted(d)  BY RulesRespectCeilings
  <2>3. QED  BY <2>1, <2>2, OverridesFit DEF Drafted, DraftKinds, Kinds
<1>3. QED  BY <1>1, <1>2 DEF BuildEvidence
-----------------------------------------------------------------------------
(* What a rule group drafts *)

\* A rule has at most one record.
Sole(S) == \A d, e \in S : d.rule = e.rule => d = e

\* The steps after which nothing goes on if they fail.
Vital == {"validate", "hashing", "normalize", "statistics", "fingerprints"}

\* The rows say that a step has observed something.
Speaks(o, s) ==
    LET seen(m) == o.forensics # None /\ o.forensics[m] \notin {"none", "na"}
    IN  \/ s \in Vital
        \/ s = "metadata" /\ o.metadata # None
        \/ s = "provenance" /\ (o.provenance # None \/ seen("c2pa_thumbnail"))
        \/ s = "language" /\ o.text # None /\ o.text.language
        \/ s = "ai" /\ o.ai # None
        \/ s = "search" /\ o.search # None
        \/ /\ s \in {"ela", "compression", "double_compression", "thumbnail",
                     "c2pa_thumbnail", "resampling", "noise", "copy_move"}
           /\ seen(s)

\* Scores and confidences, per cent, where there are any.
Plausible(o) ==
    /\ o.ai # None => o.ai.score \in {NoNumber} \cup 0 .. 100
    /\ o.text # None => o.text.confidence \in {NoNumber} \cup 0 .. 100

\* The rules that flag an anomaly.
Flags == {"forensics.ela.anomaly", "forensics.compression.offset-grid",
          "forensics.double-compression.localized", "forensics.noise.anomaly",
          "forensics.copy-move.detected", "forensics.thumbnail.mismatch",
          "forensics.thumbnail.region", "forensics.thumbnail.geometry",
          "forensics.c2pa-thumbnail.mismatch", "forensics.c2pa-thumbnail.region"}

\* What every draft is, besides Drafted: a rule that no override can raise from
\* UNKNOWN, or backed by the steps it refers to; confident within bounds; and of
\* no family unless it flags an anomaly.
Sound(o, d) ==
    /\ Ceiling(d) # "UNKNOWN" => \A s : Step(s) \in d.refs => Speaks(o, s)
    /\ Plausible(o) => d.confidence \in {NoNumber} \cup 0 .. 100
    /\ d.rule \notin Flags => d.family = ""

\* A group of rules drafts finitely many sound records, one for a rule.
Group(o, S, names) ==
    /\ IsFiniteSet(S) /\ Sole(S)
    /\ RulesOf(S) \subseteq names
    /\ \A d \in S : Sound(o, d)

\* The names of the rules of each group.
FileNames == {"file.identity"}
SourceNames == {"sources.unavailable", "sources.none", "sources.matches"}
AiNames == {"ai.unavailable", "ai.noscore", "ai.weak", "ai.signal"}
ImageMatchNames == {"matches.exact", "matches.near"}
TextMatchNames == {"matches.text.identical", "matches.text.near"}
TextNames ==
    {"text.unprocessed", "text.stats", "text.language", "text.language.unknown",
     "text.hidden", "text.repetition"}
MetadataNames ==
    {"metadata.unavailable", "metadata.software", "metadata.camera", "metadata.captured",
     "metadata.generator", "metadata.source-type", "metadata.edit-history", "metadata.gps",
     "metadata.none"}
ProvenanceNames ==
    {"provenance.uninspected", "provenance.remote", "provenance.absent", "provenance.valid",
     "provenance.invalid", "provenance.trusted", "provenance.untrusted-signer",
     "provenance.certificate.outside-validity", "provenance.source-type",
     "provenance.training-mining", "provenance.identity", "provenance.ingredient.invalid"}
ConflictNames == {"conflict.capture-after-signing", "conflict.published-before-capture",
                  "conflict.source-type", "conflict.manifest-order",
                  "conflict.provenance-vs-ai", "conflict.provenance-vs-forensics"}

ForensicNames ==
    Flags \cup
    {"forensics.unavailable", "forensics.multiple", "forensics.ela.na", "forensics.ela.none",
     "forensics.compression.prior-jpeg", "forensics.compression.encoding",
     "forensics.compression.none", "forensics.resampling.detected",
     "forensics.resampling.none", "forensics.resampling.unmeasured",
     "forensics.noise.consistent", "forensics.noise.unmeasured", "forensics.copy-move.none",
     "forensics.copy-move.unmeasured", "forensics.double-compression.na",
     "forensics.double-compression.global", "forensics.double-compression.none",
     "forensics.thumbnail.na", "forensics.thumbnail.consistent",
     "forensics.c2pa-thumbnail.na", "forensics.c2pa-thumbnail.consistent"}

\* The rules that are only ever UNKNOWN.
Silent == {"provenance.remote", "provenance.untrusted-signer", "provenance.uninspected",
           "provenance.absent", "metadata.none", "metadata.unavailable", "text.unprocessed",
           "text.language.unknown", "ai.unavailable", "ai.noscore", "ai.weak",
           "sources.unavailable", "sources.none", "forensics.unavailable",
           "forensics.ela.na", "forensics.ela.none", "forensics.compression.encoding",
           "forensics.compression.none", "forensics.resampling.none",
           "forensics.resampling.unmeasured", "forensics.noise.consistent",
           "forensics.noise.unmeasured", "forensics.copy-move.none",
           "forensics.copy-move.unmeasured", "forensics.double-compression.na",
           "forensics.double-compression.none", "forensics.thumbnail.na",
           "forensics.thumbnail.consistent", "forensics.c2pa-thumbnail.na",
           "forensics.c2pa-thumbnail.consistent"}

LEMMA ConfidencesOfLevels ==
    \A level \in Levels : ConfidenceFor(level) \in {NoNumber} \cup 0 .. 100
  BY ThresholdsAssumption DEF ConfidenceFor

LEMMA SimpleDrafts ==
    \A rule, refs :
        /\ Unknown(rule, refs) = Draft(rule, "UNKNOWN", "unknown", refs)
        /\ NoSign(rule, refs) = Draft(rule, "UNKNOWN", "signal", refs)
        /\ Possible(rule, refs) = Draft(rule, "POSSIBLE", "signal", refs)
  BY DEF Unknown, NoSign, Possible

LEMMA RulesOfDrafts ==
    /\ \A rule, level, kind, refs : Draft(rule, level, kind, refs).rule = rule
    /\ \A rule, refs : /\ Unknown(rule, refs).rule = rule /\ NoSign(rule, refs).rule = rule
                       /\ Possible(rule, refs).rule = rule
    /\ \A rule, family, refs : Anomaly(rule, family, refs).rule = rule
  BY DEF Draft, Unknown, NoSign, Possible, Anomaly

LEMMA StepsApart ==
    /\ \A s, x : Step(s) = Step(x) => s = x
    /\ \A s, x : Step(s) # Row(x) /\ Step(s) # Call(x)
  BY DEF Step, Row, Call

LEMMA VitalSpeaks == \A o : \A s \in Vital : Speaks(o, s)
  BY DEF Speaks

LEMMA SilentIsSound ==
    ASSUME NEW o, NEW rule \in Silent, NEW refs
    PROVE  Sound(o, Unknown(rule, refs)) /\ Sound(o, NoSign(rule, refs))
<1>1. ASSUME NEW kind PROVE Sound(o, Draft(rule, "UNKNOWN", kind, refs))
  <2> DEFINE d == Draft(rule, "UNKNOWN", kind, refs)
  <2>1. /\ d.rule = rule /\ d.level = "UNKNOWN" /\ d.family = ""
        /\ d.confidence = ConfidenceFor("UNKNOWN")
    BY DEF Draft
  <2> HIDE DEF d
  <2>2. Ceiling(d) = "UNKNOWN"  BY <2>1 DEF Ceiling, Silent
  <2>3. "UNKNOWN" \in Levels  BY DEF Levels
  <2>4. Sound(o, d)  BY <2>1, <2>2, <2>3, ConfidencesOfLevels DEF Sound
  <2>5. QED  BY <2>4 DEF d
<1>2. QED  BY <1>1, SimpleDrafts

\* A draft is sound when every step it refers to has observed something.
LEMMA BackedIsSound ==
    ASSUME NEW o, NEW rule, NEW level \in Levels, NEW kind, NEW refs,
           \A s : Step(s) \in refs => Speaks(o, s)
    PROVE  Sound(o, Draft(rule, level, kind, refs))
<1> DEFINE d == Draft(rule, level, kind, refs)
<1>1. d.refs = refs /\ d.family = "" /\ d.confidence = ConfidenceFor(level)
  BY DEF Draft
<1> HIDE DEF d
<1>2. Sound(o, d)  BY <1>1, ConfidencesOfLevels DEF Sound
<1>3. QED  BY <1>2 DEF d

LEMMA AnomalyIsSound ==
    ASSUME NEW o, NEW rule \in Flags, NEW family, NEW refs,
           \A s : Step(s) \in refs => Speaks(o, s)
    PROVE  Sound(o, Anomaly(rule, family, refs))
<1> DEFINE d == Anomaly(rule, family, refs)
<1>1. d.refs = refs /\ d.rule = rule /\ d.confidence = ConfidenceFor("POSSIBLE")
  BY DEF Anomaly, Possible, Draft
<1> HIDE DEF d
<1>2. "POSSIBLE" \in Levels  BY DEF Levels
<1>3. Sound(o, d)  BY <1>1, <1>2, ConfidencesOfLevels DEF Sound
<1>4. QED  BY <1>3 DEF d

LEMMA GroupsUnite ==
    ASSUME NEW o, NEW S, NEW A, NEW T, NEW B,
           Group(o, S, A), Group(o, T, B), A \cap B = {}
    PROVE  Group(o, S \cup T, A \cup B)
<1>1. IsFiniteSet(S \cup T)  BY FS_Union DEF Group
<1>2. Sole(S \cup T)  BY DEF Group, Sole, RulesOf
<1>3. RulesOf(S \cup T) \subseteq A \cup B  BY DEF Group, RulesOf
<1>4. QED  BY <1>1, <1>2, <1>3 DEF Group

LEMMA WhenIsFinite == \A c, d : IsFiniteSet(When(c, d))
  BY FS_EmptySet, FS_Singleton DEF When

LEMMA SinglesAreFinite == \A d : IsFiniteSet({d})
  BY FS_Singleton

LEMMA UnionsAreFinite == \A S, T : IsFiniteSet(S) /\ IsFiniteSet(T) => IsFiniteSet(S \cup T)
  BY FS_Union

LEMMA PairsAreFinite == \A a, b : IsFiniteSet({a, b})
<1> TAKE a, b
<1>1. {a, b} \subseteq {a} \cup {b}  OBVIOUS
<1>2. QED  BY <1>1, SinglesAreFinite, UnionsAreFinite, FS_Subset

LEMMA FileGroup == \A o : Group(o, FileRules(o), FileNames)
<1> TAKE o
<1> DEFINE refs == IF o.type = "text" THEN {Step("validate"), Row("analysis_files")}
                   ELSE {Step("validate"), Step("hashing"), Row("analysis_files")}
           x == Draft("file.identity", "VERIFIED", "fact", refs)
<1>1. FileRules(o) = When(o.file, x)  BY DEF FileRules
<1>2. x.rule = "file.identity"  BY RulesOfDrafts
<1>3. Sound(o, x)
  <2>1. \A s : Step(s) \in refs => Speaks(o, s)  BY StepsApart DEF Speaks, Vital
  <2>2. QED  BY <2>1, BackedIsSound DEF Levels
<1> HIDE DEF x
<1>4. QED  BY <1>1, <1>2, <1>3, WhenIsFinite DEF Group, FileNames, Sole, RulesOf, When

LEMMA SourceGroup == \A o :
    Group(o, SourceRules(o), SourceNames)
<1> TAKE o
<1> DEFINE refs == {Step("search"), Row("source_search_runs")} \cup CallRefs(o, "search")
           a == Unknown("sources.unavailable", {Step("search")})
           b == Unknown("sources.none", refs)
           c == Possible("sources.matches", refs)
<1>1. SourceRules(o) \in {{a}, {b}, {c}} /\ (o.search = None => SourceRules(o) = {a})
  BY DEF SourceRules
<1>2. a.rule = "sources.unavailable" /\ b.rule = "sources.none" /\ c.rule = "sources.matches"
  BY RulesOfDrafts
<1>3. Sound(o, a) /\ Sound(o, b)  BY SilentIsSound DEF Silent
<1>4. o.search # None => Sound(o, c)
  <2>1. \A s : Step(s) \in refs => s = "search"  BY StepsApart DEF CallRefs
  <2>2. o.search # None => \A s : Step(s) \in refs => Speaks(o, s)  BY <2>1 DEF Speaks
  <2>3. QED  BY <2>2, BackedIsSound, SimpleDrafts DEF Levels
<1> HIDE DEF a, b, c
<1>5. IsFiniteSet(SourceRules(o))  BY <1>1, SinglesAreFinite
<1>6. QED  BY <1>1, <1>2, <1>3, <1>4, <1>5 DEF Group, SourceNames, Sole, RulesOf

LEMMA AiGroup == \A o :
    Group(o, AiRules(o), AiNames)
<1> TAKE o
<1> DEFINE refs == {Step("ai"), Row("ai_detections")} \cup CallRefs(o, "ai")
           level == AiLevel(o.ai.score, o.ai.calibrated)
           a == Unknown("ai.unavailable", {Step("ai")})
           b == Unknown("ai.noscore", refs)
           x == [Draft(IF level = "UNKNOWN" THEN "ai.weak" ELSE "ai.signal", level, "signal", refs)
                 EXCEPT !.confidence = o.ai.score]
<1>1. /\ AiRules(o) \in {{a}, {b}, {x}}
      /\ o.ai = None => AiRules(o) = {a}
  BY DEF AiRules
<1>2. a.rule = "ai.unavailable" /\ b.rule = "ai.noscore"  BY RulesOfDrafts
<1>3. Sound(o, a) /\ Sound(o, b)  BY SilentIsSound DEF Silent
<1>4. /\ x.rule = IF level = "UNKNOWN" THEN "ai.weak" ELSE "ai.signal"
      /\ x.confidence = o.ai.score /\ x.family = "" /\ x.refs = refs /\ x.level = level
  BY DEF Draft
<1> HIDE DEF a, b, x, level
<1>5. o.ai # None => Sound(o, x)
  <2>1. \A s : Step(s) \in refs => s = "ai"  BY StepsApart DEF CallRefs
  <2>2. o.ai # None => \A s : Step(s) \in x.refs => Speaks(o, s)  BY <1>4, <2>1 DEF Speaks
  <2>3. QED  BY <1>4, <2>2 DEF Sound, Plausible
<1>6. IsFiniteSet(AiRules(o))  BY <1>1, SinglesAreFinite
<1>7. QED  BY <1>1, <1>2, <1>3, <1>4, <1>5, <1>6 DEF Group, AiNames, Sole, RulesOf

LEMMA ImageMatchGroup == \A o :
    Group(o, ImageMatchRules(o), ImageMatchNames)
<1> TAKE o
<1> DEFINE refs == {Step("hashing"), Row("image_fingerprints")}
           a == Draft("matches.exact", "VERIFIED", "fact", refs)
           b == Possible("matches.near", refs)
<1>1. ImageMatchRules(o) \subseteq {a, b}  BY DEF ImageMatchRules, When
<1>2. a.rule = "matches.exact" /\ b.rule = "matches.near"  BY RulesOfDrafts
<1>3. Sound(o, a) /\ Sound(o, b)
  <2>1. \A s : Step(s) \in refs => Speaks(o, s)  BY StepsApart DEF Speaks, Vital
  <2>2. QED  BY <2>1, BackedIsSound, SimpleDrafts DEF Levels
<1> HIDE DEF a, b
<1>4. IsFiniteSet(ImageMatchRules(o))
  BY <1>1, PairsAreFinite, FS_Subset
<1>5. QED  BY <1>1, <1>2, <1>3, <1>4 DEF Group, ImageMatchNames, Sole, RulesOf

LEMMA TextMatchGroup == \A o :
    Group(o, TextMatchRules(o), TextMatchNames)
<1> TAKE o
<1> DEFINE refs == {Step("fingerprints"), Row("text_fingerprints")}
           a == Draft("matches.text.identical", "VERIFIED", "fact", refs)
           b == Possible("matches.text.near", refs)
<1>1. TextMatchRules(o) \subseteq {a, b}  BY DEF TextMatchRules, When
<1>2. a.rule = "matches.text.identical" /\ b.rule = "matches.text.near"  BY RulesOfDrafts
<1>3. Sound(o, a) /\ Sound(o, b)
  <2>1. \A s : Step(s) \in refs => Speaks(o, s)  BY StepsApart DEF Speaks, Vital
  <2>2. QED  BY <2>1, BackedIsSound, SimpleDrafts DEF Levels
<1> HIDE DEF a, b
<1>4. IsFiniteSet(TextMatchRules(o))
  BY <1>1, PairsAreFinite, FS_Subset
<1>5. QED  BY <1>1, <1>2, <1>3, <1>4 DEF Group, TextMatchNames, Sole, RulesOf

LEMMA TextGroup == \A o :
    Group(o, TextRules(o), TextNames)
<1> TAKE o
<1> DEFINE refs == {Step("language"), Row("text_analysis")}
           level == IF o.text.confidence >= LanguageProbable THEN "PROBABLE" ELSE "POSSIBLE"
           a == Draft("text.stats", "VERIFIED", "fact", {Step("statistics"), Row("text_analysis")})
           l == [Draft("text.language", level, "signal", refs) EXCEPT !.confidence = o.text.confidence]
           b == IF ~o.text.language THEN Unknown("text.language.unknown", {Step("language")})
                ELSE l
           c == Possible("text.hidden", {Step("normalize"), Row("text_analysis")})
           d == Possible("text.repetition", {Step("statistics"), Row("text_analysis")})
           e == Unknown("text.unprocessed", {Step("normalize"), Step("statistics")})
<1>1. TextRules(o) = {e} \/ (o.text # None /\ TextRules(o) \subseteq {a, b, c, d})
  BY DEF TextRules, When
<1>2. /\ a.rule = "text.stats" /\ c.rule = "text.hidden" /\ d.rule = "text.repetition"
      /\ e.rule = "text.unprocessed"
  BY RulesOfDrafts
<1>3. /\ l.rule = "text.language" /\ l.refs = refs /\ l.family = ""
      /\ l.confidence = o.text.confidence
  BY DEF Draft
<1>4. Sound(o, a) /\ Sound(o, c) /\ Sound(o, d) /\ Sound(o, e)
  <2>1. \A s : \A t \in Vital : Step(s) \in {Step(t), Row("text_analysis")} => Speaks(o, s)
    BY StepsApart, VitalSpeaks
  <2>2. QED  BY <2>1, BackedIsSound, SilentIsSound, SimpleDrafts DEF Levels, Silent, Vital
<1> HIDE DEF l
<1>5. b.rule \in {"text.language.unknown", "text.language"}  BY <1>3, RulesOfDrafts
<1>6. o.text # None => Sound(o, b)
  <2>1. CASE ~o.text.language  BY <2>1, SilentIsSound DEF Silent
  <2>2. CASE o.text.language /\ o.text # None
    <3>1. \A s : Step(s) \in l.refs => Speaks(o, s)  BY <1>3, <2>2, StepsApart DEF Speaks
    <3>2. Sound(o, l)  BY <1>3, <2>2, <3>1 DEF Sound, Plausible
    <3>3. QED  BY <2>2, <3>2
  <2>3. QED  BY <2>1, <2>2
<1> HIDE DEF a, b, c, d, e
<1>7. IsFiniteSet(TextRules(o))
  <2>1. IsFiniteSet({a} \cup {b} \cup {c} \cup {d})  BY SinglesAreFinite, UnionsAreFinite
  <2>2. {a, b, c, d} = {a} \cup {b} \cup {c} \cup {d}  OBVIOUS
  <2>3. QED  BY <1>1, <2>1, <2>2, SinglesAreFinite, FS_Subset
<1>8. QED  BY <1>1, <1>2, <1>4, <1>5, <1>6, <1>7 DEF Group, TextNames, Sole, RulesOf

LEMMA ManyAreFinite == \A a, b, c, d : IsFiniteSet({a, b, c, d})
<1> TAKE a, b, c, d
<1>1. {a, b, c, d} \subseteq {a, b} \cup {c, d}  OBVIOUS
<1>2. QED  BY <1>1, PairsAreFinite, UnionsAreFinite, FS_Subset

LEMMA MetadataGroup == \A o :
    Group(o, MetadataRules(o), MetadataNames)
<1> TAKE o
<1> DEFINE m == o.metadata
           refs == {Step("metadata"), Row("image_metadata")} \cup CallRefs(o, "metadata")
           level == IF m.sourceType = "algorithmic" THEN "STRONG" ELSE "POSSIBLE"
           u == Unknown("metadata.unavailable", {Step("metadata")})
           a == Draft("metadata.software", "STRONG", "signal", refs)
           b == Draft("metadata.camera", "POSSIBLE", "signal", refs)
           c == Draft("metadata.captured", "POSSIBLE", "signal", refs)
           d == Draft("metadata.generator", "STRONG", "signal", refs)
           x == [Draft("metadata.source-type", level, "signal", refs)
                 EXCEPT !.algorithmic = (m.sourceType = "algorithmic")]
           e == Draft("metadata.edit-history", "STRONG", "signal", refs)
           f == Draft("metadata.gps", "POSSIBLE", "signal", refs)
           g == Unknown("metadata.none", refs)
<1>1. \/ MetadataRules(o) = {u}
      \/ m # None /\ MetadataRules(o) \subseteq {a, b, c, d} \cup {x, e, f, g}
  <2>1. DeclarationRules(m, refs) \subseteq {x, e, f, g}  BY DEF DeclarationRules, When
  <2>2. m # None => MetadataRules(o) \subseteq {a, b, c, d} \cup DeclarationRules(m, refs)
    BY DEF MetadataRules, When
  <2>3. m = None => MetadataRules(o) = {u}  BY DEF MetadataRules
  <2>4. QED  BY <2>1, <2>2, <2>3
<1>2. /\ u.rule = "metadata.unavailable" /\ a.rule = "metadata.software"
      /\ b.rule = "metadata.camera" /\ c.rule = "metadata.captured"
      /\ d.rule = "metadata.generator" /\ e.rule = "metadata.edit-history"
      /\ f.rule = "metadata.gps" /\ g.rule = "metadata.none"
  BY RulesOfDrafts
<1>3. /\ x.rule = "metadata.source-type" /\ x.refs = refs /\ x.family = ""
      /\ x.confidence = ConfidenceFor(level)
  BY DEF Draft
<1>4. Sound(o, u) /\ Sound(o, g)  BY SilentIsSound DEF Silent
<1>5. ASSUME m # None
      PROVE  /\ Sound(o, a) /\ Sound(o, b) /\ Sound(o, c) /\ Sound(o, d)
             /\ Sound(o, x) /\ Sound(o, e) /\ Sound(o, f)
  <2>1. \A s : Step(s) \in refs => s = "metadata"  BY StepsApart DEF CallRefs
  <2>2. \A s : Step(s) \in refs => Speaks(o, s)  BY <2>1, <1>5 DEF Speaks
  <2>3. ConfidenceFor(level) \in {NoNumber} \cup 0 .. 100
    BY ConfidencesOfLevels DEF Levels
  <2>4. Sound(o, x)  BY <1>3, <2>2, <2>3 DEF Sound
  <2> HIDE DEF refs
  <2>5. QED  BY <2>2, <2>4, BackedIsSound DEF Levels
<1> HIDE DEF u, a, b, c, d, x, e, f, g, m
<1>6. IsFiniteSet(MetadataRules(o))
  BY <1>1, SinglesAreFinite, ManyAreFinite, UnionsAreFinite, FS_Subset
<1>7. x.rule = "metadata.source-type"  BY <1>3
<1>8. Sole(MetadataRules(o))
  <2>1. Sole({a, b, c, d} \cup {x, e, f, g}) /\ Sole({u})  BY <1>2, <1>7 DEF Sole
  <2>2. QED  BY <2>1, <1>1 DEF Sole
<1>9. \A k \in MetadataRules(o) : Sound(o, k)  BY <1>1, <1>4, <1>5
<1>10. QED  BY <1>1, <1>2, <1>6, <1>7, <1>8, <1>9 DEF Group, MetadataNames, RulesOf

LEMMA ProvenanceGroup == \A o :
    Group(o, ProvenanceRules(o), ProvenanceNames)
<1> TAKE o
<1> DEFINE p == o.provenance
           refs == {Step("provenance")} \cup CallRefs(o, "provenance")
           bound == refs \cup (IF p.location = "sidecar" THEN {Row("analysis_files")} ELSE {})
           declared == IF p.valid THEN "STRONG" ELSE "POSSIBLE"
           level == IF "algorithmic" \in p.sourceTypes THEN declared ELSE "POSSIBLE"
           known == IF IdentityValidated(p) THEN declared ELSE "POSSIBLE"
           both == {Step("metadata"), Row("image_metadata")}
                   \cup IF o.provenance # None /\ o.provenance.remoteHost
                        THEN {Step("provenance"), Row("image_provenance")} ELSE {}
           u == Unknown("provenance.uninspected", {Step("provenance")})
           r == Unknown("provenance.remote", both)
           a == Unknown("provenance.absent", refs)
           v == IF p.valid THEN Draft("provenance.valid", "VERIFIED", "fact", bound)
                ELSE Possible("provenance.invalid", refs)
           t == Draft("provenance.trusted", "VERIFIED", "fact", refs)
           n == Unknown("provenance.untrusted-signer", refs)
           c == Possible("provenance.certificate.outside-validity", refs)
           x == [Draft("provenance.source-type", level, "signal", refs)
                 EXCEPT !.algorithmic = ("algorithmic" \in p.sourceTypes)]
           y == Draft("provenance.training-mining", declared, "signal", refs)
           z == Draft("provenance.identity", known, "signal", refs)
           i == Draft("provenance.ingredient.invalid", "POSSIBLE", "signal", refs)
<1>1. \/ ProvenanceRules(o) \subseteq {u, r, a}
      \/ p # None /\ ProvenanceRules(o) \subseteq {v, t, n, c} \cup {x, y, z, i} \cup {r}
  <2>1. ProvenanceDeclarationRules(p, refs) \subseteq {x, y, z, i}
    BY DEF ProvenanceDeclarationRules, When
  <2>2. TrustRules(p, refs) \cup CertificateRules(p, refs) \subseteq {t, n, c}
    BY DEF TrustRules, CertificateRules, When
  <2>3. RemoteReferenceRule(o) \subseteq {r}  BY DEF RemoteReferenceRule, When
  <2>4. p # None /\ p.hasC2pa =>
          ProvenanceRules(o) = {v} \cup TrustRules(p, refs) \cup CertificateRules(p, refs)
                               \cup ProvenanceDeclarationRules(p, refs) \cup RemoteReferenceRule(o)
    BY DEF ProvenanceRules
  <2>5. ~(p # None /\ p.hasC2pa) => ProvenanceRules(o) \subseteq {u, a} \cup RemoteReferenceRule(o)
    BY DEF ProvenanceRules, When
  <2> HIDE DEF u, r, a, v, t, n, c, x, y, z, i
  <2>6. QED  BY <2>1, <2>2, <2>3, <2>4, <2>5
<1>2. /\ u.rule = "provenance.uninspected" /\ r.rule = "provenance.remote"
      /\ a.rule = "provenance.absent" /\ t.rule = "provenance.trusted"
      /\ n.rule = "provenance.untrusted-signer"
      /\ c.rule = "provenance.certificate.outside-validity"
      /\ y.rule = "provenance.training-mining" /\ z.rule = "provenance.identity"
      /\ i.rule = "provenance.ingredient.invalid"
  BY RulesOfDrafts
<1>3. v.rule \in {"provenance.valid", "provenance.invalid"}  BY RulesOfDrafts
<1>4. /\ x.rule = "provenance.source-type" /\ x.refs = refs /\ x.family = ""
      /\ x.confidence = ConfidenceFor(level)
  BY DEF Draft
<1>5. Sound(o, u) /\ Sound(o, r) /\ Sound(o, a) /\ Sound(o, n)  BY SilentIsSound DEF Silent
<1>6. ASSUME p # None
      PROVE  /\ Sound(o, v) /\ Sound(o, t) /\ Sound(o, c)
             /\ Sound(o, x) /\ Sound(o, y) /\ Sound(o, z) /\ Sound(o, i)
  <2>1. \A s : Step(s) \in refs \cup bound => s = "provenance"  BY StepsApart DEF CallRefs
  <2>2. \A s : Step(s) \in refs \cup bound => Speaks(o, s)  BY <2>1, <1>6 DEF Speaks
  <2>3. level \in Levels /\ declared \in Levels /\ known \in Levels  BY DEF Levels
  <2>4. ConfidenceFor(level) \in {NoNumber} \cup 0 .. 100  BY <2>3, ConfidencesOfLevels
  <2>5. Sound(o, x)  BY <1>4, <2>2, <2>4 DEF Sound
  <2> HIDE DEF refs, bound, level, declared, known
  <2>6. Sound(o, v)  BY <2>2, BackedIsSound, SimpleDrafts DEF Levels
  <2>7. Sound(o, t) /\ Sound(o, c) /\ Sound(o, y) /\ Sound(o, z) /\ Sound(o, i)
    BY <2>2, <2>3, BackedIsSound, SimpleDrafts DEF Levels
  <2>8. QED  BY <2>5, <2>6, <2>7
<1> HIDE DEF u, r, a, v, t, n, c, x, y, z, i, p
<1>7. IsFiniteSet(ProvenanceRules(o))
  <2>1. IsFiniteSet({u, r, a})
    <3>1. {u, r, a} \subseteq {u, r, a, a}  OBVIOUS
    <3>2. QED  BY <3>1, ManyAreFinite, FS_Subset
  <2>2. IsFiniteSet({v, t, n, c} \cup {x, y, z, i} \cup {r})
    BY SinglesAreFinite, ManyAreFinite, UnionsAreFinite
  <2>3. QED  BY <1>1, <2>1, <2>2, FS_Subset
<1>8. x.rule = "provenance.source-type"  BY <1>4
<1>9. Sole(ProvenanceRules(o))
  <2>1. Sole({u, r, a}) /\ Sole({v, t, n, c} \cup {x, y, z, i} \cup {r})
    BY <1>2, <1>3, <1>8 DEF Sole
  <2>2. QED  BY <2>1, <1>1 DEF Sole
<1>10. \A k \in ProvenanceRules(o) : Sound(o, k)  BY <1>1, <1>5, <1>6
<1>11. QED  BY <1>1, <1>2, <1>3, <1>7, <1>8, <1>9, <1>10 DEF Group, ProvenanceNames, RulesOf

LEMMA OneDraftGroups ==
    ASSUME NEW o, NEW S, NEW names, \E x : S \subseteq {x},
           \A d \in S : d.rule \in names /\ Sound(o, d)
    PROVE  Group(o, S, names)
<1>1. PICK x : S \subseteq {x}  OBVIOUS
<1>2. IsFiniteSet(S)  BY <1>1, SinglesAreFinite, FS_Subset
<1>3. Sole(S)  BY <1>1 DEF Sole
<1>4. RulesOf(S) \subseteq names  BY DEF RulesOf
<1>5. QED  BY <1>2, <1>3, <1>4 DEF Group

\* What a method observes, it observes when it has run.
LEMMA ObservedSpeaks ==
    ASSUME NEW o, o.forensics # None,
           NEW m \in {"ela", "compression", "double_compression", "thumbnail",
                      "c2pa_thumbnail", "resampling", "noise", "copy_move"},
           o.forensics[m] \notin {"none", "na"}
    PROVE  \A s : Step(s) \in Observed(m) => Speaks(o, s)
<1>1. \A s : Step(s) \in Observed(m) => s = m  BY StepsApart DEF Observed
<1>2. QED  BY <1>1 DEF Speaks

LEMMA ElaGroup ==
    ASSUME NEW o, o.forensics # None
    PROVE  Group(o, ElaRules(o.forensics),
                 {"forensics.ela.na", "forensics.ela.anomaly", "forensics.ela.none"})
<1> DEFINE f == o.forensics
           refs == Observed("ela")
           x == Unknown("forensics.ela.na", refs)
           y == NoSign("forensics.ela.none", refs)
           z == Anomaly("forensics.ela.anomaly", "error-level/compression", refs)
<1>1. \/ ElaRules(f) \in {{}, {x}, {y}}
      \/ ElaRules(f) = {z} /\ f.ela = "anomaly"
  BY DEF ElaRules
<1>2. /\ x.rule = "forensics.ela.na" /\ y.rule = "forensics.ela.none"
      /\ z.rule = "forensics.ela.anomaly"
  BY RulesOfDrafts
<1>3. Sound(o, x) /\ Sound(o, y)  BY SilentIsSound DEF Silent
<1>4. f.ela = "anomaly" => Sound(o, z)
  <2>1. f.ela = "anomaly" => \A s : Step(s) \in refs => Speaks(o, s)  BY ObservedSpeaks
  <2>2. QED  BY <2>1, AnomalyIsSound DEF Flags
<1> HIDE DEF x, y, z
<1>5. QED  BY <1>1, <1>2, <1>3, <1>4, OneDraftGroups

LEMMA CompressionGroup ==
    ASSUME NEW o, o.forensics # None
    PROVE  Group(o, CompressionRules(o.forensics),
                 {"forensics.compression.offset-grid", "forensics.compression.prior-jpeg",
                  "forensics.compression.encoding", "forensics.compression.none"})
<1> DEFINE f == o.forensics
           refs == Observed("compression")
           v == NoSign("forensics.compression.encoding", refs)
           x == NoSign("forensics.compression.none", refs)
           y == Possible("forensics.compression.prior-jpeg", refs)
           z == Anomaly("forensics.compression.offset-grid", "error-level/compression", refs)
<1>1. \/ CompressionRules(f) \in {{}, {v}, {x}}
      \/ CompressionRules(f) \in {{y}, {z}} /\ f.compression \in {"anomaly", "prior"}
  BY DEF CompressionRules
<1>2. /\ v.rule = "forensics.compression.encoding" /\ x.rule = "forensics.compression.none"
      /\ y.rule = "forensics.compression.prior-jpeg"
      /\ z.rule = "forensics.compression.offset-grid"
  BY RulesOfDrafts
<1>3. Sound(o, v) /\ Sound(o, x)  BY SilentIsSound DEF Silent
<1>4. f.compression \in {"anomaly", "prior"} => Sound(o, y) /\ Sound(o, z)
  <2>1. f.compression \in {"anomaly", "prior"} => \A s : Step(s) \in refs => Speaks(o, s)
    BY ObservedSpeaks
  <2> HIDE DEF refs
  <2>2. QED  BY <2>1, AnomalyIsSound, BackedIsSound, SimpleDrafts DEF Flags, Levels
<1> HIDE DEF v, x, y, z
<1>5. QED  BY <1>1, <1>2, <1>3, <1>4, OneDraftGroups

LEMMA ResamplingGroup ==
    ASSUME NEW o, o.forensics # None
    PROVE  Group(o, ResamplingRules(o.forensics),
                 {"forensics.resampling.detected", "forensics.resampling.none",
                  "forensics.resampling.unmeasured"})
<1> DEFINE f == o.forensics
           refs == Observed("resampling")
           v == NoSign("forensics.resampling.none", refs)
           x == Unknown("forensics.resampling.unmeasured", refs)
           y == Possible("forensics.resampling.detected", refs)
<1>1. \/ ResamplingRules(f) \in {{}, {v}, {x}}
      \/ ResamplingRules(f) = {y} /\ f.resampling = "detected"
  BY DEF ResamplingRules
<1>2. /\ v.rule = "forensics.resampling.none" /\ x.rule = "forensics.resampling.unmeasured"
      /\ y.rule = "forensics.resampling.detected"
  BY RulesOfDrafts
<1>3. Sound(o, v) /\ Sound(o, x)  BY SilentIsSound DEF Silent
<1>4. f.resampling = "detected" => Sound(o, y)
  <2>1. f.resampling = "detected" => \A s : Step(s) \in refs => Speaks(o, s)
    BY ObservedSpeaks
  <2> HIDE DEF refs
  <2>2. QED  BY <2>1, BackedIsSound, SimpleDrafts DEF Levels
<1> HIDE DEF v, x, y
<1>5. QED  BY <1>1, <1>2, <1>3, <1>4, OneDraftGroups

LEMMA NoiseGroup ==
    ASSUME NEW o, o.forensics # None
    PROVE  Group(o, NoiseRules(o.forensics),
                 {"forensics.noise.anomaly", "forensics.noise.consistent",
                  "forensics.noise.unmeasured"})
<1> DEFINE f == o.forensics
           refs == Observed("noise")
           v == NoSign("forensics.noise.consistent", refs)
           x == Unknown("forensics.noise.unmeasured", refs)
           z == Anomaly("forensics.noise.anomaly", "noise", refs)
<1>1. \/ NoiseRules(f) \in {{}, {v}, {x}}
      \/ NoiseRules(f) = {z} /\ f.noise = "anomaly"
  BY DEF NoiseRules
<1>2. /\ v.rule = "forensics.noise.consistent" /\ x.rule = "forensics.noise.unmeasured"
      /\ z.rule = "forensics.noise.anomaly"
  BY RulesOfDrafts
<1>3. Sound(o, v) /\ Sound(o, x)  BY SilentIsSound DEF Silent
<1>4. f.noise = "anomaly" => Sound(o, z)
  <2>1. f.noise = "anomaly" => \A s : Step(s) \in refs => Speaks(o, s)  BY ObservedSpeaks
  <2>2. QED  BY <2>1, AnomalyIsSound DEF Flags
<1> HIDE DEF v, x, z
<1>5. QED  BY <1>1, <1>2, <1>3, <1>4, OneDraftGroups

LEMMA CopyMoveGroup ==
    ASSUME NEW o, o.forensics # None
    PROVE  Group(o, CopyMoveRules(o.forensics),
                 {"forensics.copy-move.detected", "forensics.copy-move.none",
                  "forensics.copy-move.unmeasured"})
<1> DEFINE f == o.forensics
           refs == Observed("copy_move")
           v == NoSign("forensics.copy-move.none", refs)
           x == Unknown("forensics.copy-move.unmeasured", refs)
           z == Anomaly("forensics.copy-move.detected", "copy-move", refs)
<1>1. \/ CopyMoveRules(f) \in {{}, {v}, {x}}
      \/ CopyMoveRules(f) = {z} /\ f.copy_move = "detected"
  BY DEF CopyMoveRules
<1>2. /\ v.rule = "forensics.copy-move.none" /\ x.rule = "forensics.copy-move.unmeasured"
      /\ z.rule = "forensics.copy-move.detected"
  BY RulesOfDrafts
<1>3. Sound(o, v) /\ Sound(o, x)  BY SilentIsSound DEF Silent
<1>4. f.copy_move = "detected" => Sound(o, z)
  <2>1. f.copy_move = "detected" => \A s : Step(s) \in refs => Speaks(o, s)
    BY ObservedSpeaks
  <2>2. QED  BY <2>1, AnomalyIsSound DEF Flags
<1> HIDE DEF v, x, z
<1>5. QED  BY <1>1, <1>2, <1>3, <1>4, OneDraftGroups

LEMMA DoubleCompressionGroup ==
    ASSUME NEW o, o.forensics # None
    PROVE  Group(o, DoubleCompressionRules(o.forensics),
                 {"forensics.double-compression.na", "forensics.double-compression.localized",
                  "forensics.double-compression.global", "forensics.double-compression.none"})
<1> DEFINE f == o.forensics
           refs == Observed("double_compression")
           v == NoSign("forensics.double-compression.none", refs)
           x == Unknown("forensics.double-compression.na", refs)
           y == Possible("forensics.double-compression.global", refs)
           z == Anomaly("forensics.double-compression.localized", "error-level/compression", refs)
<1>1. \/ DoubleCompressionRules(f) \in {{}, {v}, {x}}
      \/ /\ DoubleCompressionRules(f) \in {{y}, {z}}
         /\ f.double_compression \in {"anomaly", "detected"}
  BY DEF DoubleCompressionRules
<1>2. /\ v.rule = "forensics.double-compression.none"
      /\ x.rule = "forensics.double-compression.na"
      /\ y.rule = "forensics.double-compression.global"
      /\ z.rule = "forensics.double-compression.localized"
  BY RulesOfDrafts
<1>3. Sound(o, v) /\ Sound(o, x)  BY SilentIsSound DEF Silent
<1>4. f.double_compression \in {"anomaly", "detected"} => Sound(o, y) /\ Sound(o, z)
  <2>1. f.double_compression \in {"anomaly", "detected"} =>
          \A s : Step(s) \in refs => Speaks(o, s)
    BY ObservedSpeaks
  <2> HIDE DEF refs
  <2>2. QED  BY <2>1, AnomalyIsSound, BackedIsSound, SimpleDrafts DEF Flags, Levels
<1> HIDE DEF v, x, y, z
<1>5. QED  BY <1>1, <1>2, <1>3, <1>4, OneDraftGroups

LEMMA ThumbnailGroup ==
    ASSUME NEW o, o.forensics # None
    PROVE  Group(o, ThumbnailRules(o.forensics),
                 {"forensics.thumbnail.na", "forensics.thumbnail.mismatch",
                  "forensics.thumbnail.region", "forensics.thumbnail.geometry",
                  "forensics.thumbnail.consistent"})
<1> DEFINE f == o.forensics
           refs == Observed("thumbnail")
           u == Unknown("forensics.thumbnail.na", refs)
           v == NoSign("forensics.thumbnail.consistent", refs)
           x == Anomaly("forensics.thumbnail.mismatch", "thumbnail", refs)
           y == Anomaly("forensics.thumbnail.region", "thumbnail", refs)
           z == Anomaly("forensics.thumbnail.geometry", "thumbnail", refs)
<1>1. \/ ThumbnailRules(f) \in {{}, {u}}
      \/ ThumbnailRules(f) \subseteq {v, x, y, z} /\ f.thumbnail \notin {"none", "na"}
  BY DEF ThumbnailRules, When
<1>2. /\ u.rule = "forensics.thumbnail.na" /\ v.rule = "forensics.thumbnail.consistent"
      /\ x.rule = "forensics.thumbnail.mismatch" /\ y.rule = "forensics.thumbnail.region"
      /\ z.rule = "forensics.thumbnail.geometry"
  BY RulesOfDrafts
<1>3. Sound(o, u) /\ Sound(o, v)  BY SilentIsSound DEF Silent
<1>4. f.thumbnail \notin {"none", "na"} => Sound(o, x) /\ Sound(o, y) /\ Sound(o, z)
  <2>1. f.thumbnail \notin {"none", "na"} => \A s : Step(s) \in refs => Speaks(o, s)
    BY ObservedSpeaks
  <2> HIDE DEF refs
  <2>2. QED  BY <2>1, AnomalyIsSound DEF Flags
<1> HIDE DEF u, v, x, y, z
<1>5. IsFiniteSet(ThumbnailRules(f))
  BY <1>1, FS_EmptySet, SinglesAreFinite, ManyAreFinite, FS_Subset
<1>6. Sole(ThumbnailRules(f))
  <2>1. Sole({v, x, y, z}) /\ Sole({u}) /\ Sole({})  BY <1>2 DEF Sole
  <2>2. QED  BY <2>1, <1>1 DEF Sole
<1>7. \A k \in ThumbnailRules(f) : Sound(o, k)  BY <1>1, <1>3, <1>4
<1>8. QED  BY <1>1, <1>2, <1>5, <1>6, <1>7 DEF Group, RulesOf

LEMMA C2paThumbnailGroup ==
    ASSUME NEW o, o.forensics # None
    PROVE  Group(o, C2paThumbnailRules(o.forensics),
                 {"forensics.c2pa-thumbnail.na", "forensics.c2pa-thumbnail.mismatch",
                  "forensics.c2pa-thumbnail.region", "forensics.c2pa-thumbnail.consistent"})
<1> DEFINE f == o.forensics
           refs == Observed("c2pa_thumbnail")
           both == refs \cup {Step("provenance")}
           v == NoSign("forensics.c2pa-thumbnail.consistent", both)
           u == Unknown("forensics.c2pa-thumbnail.na", refs)
           x == Anomaly("forensics.c2pa-thumbnail.mismatch", "thumbnail", both)
           y == Anomaly("forensics.c2pa-thumbnail.region", "thumbnail", both)
<1>1. \/ C2paThumbnailRules(f) \in {{}, {u}, {v}}
      \/ C2paThumbnailRules(f) \in {{x}, {y}} /\ f.c2pa_thumbnail \notin {"none", "na"}
  BY DEF C2paThumbnailRules
<1>2. /\ u.rule = "forensics.c2pa-thumbnail.na"
      /\ v.rule = "forensics.c2pa-thumbnail.consistent"
      /\ x.rule = "forensics.c2pa-thumbnail.mismatch"
      /\ y.rule = "forensics.c2pa-thumbnail.region"
  BY RulesOfDrafts
<1>3. Sound(o, u) /\ Sound(o, v)  BY SilentIsSound DEF Silent
<1>4. f.c2pa_thumbnail \notin {"none", "na"} => Sound(o, x) /\ Sound(o, y)
  <2>1. f.c2pa_thumbnail \notin {"none", "na"} =>
          /\ \A s : Step(s) \in refs => Speaks(o, s)
          /\ Speaks(o, "provenance")
    <3>1. f.c2pa_thumbnail \notin {"none", "na"} => Speaks(o, "provenance")  BY DEF Speaks
    <3>2. QED  BY <3>1, ObservedSpeaks
  <2>2. \A s : Step(s) \in both => Step(s) \in refs \/ s = "provenance"  BY StepsApart
  <2> HIDE DEF refs
  <2>3. f.c2pa_thumbnail \notin {"none", "na"} => \A s : Step(s) \in both => Speaks(o, s)
    BY <2>1, <2>2
  <2> HIDE DEF both
  <2>4. QED  BY <2>3, AnomalyIsSound DEF Flags
<1> HIDE DEF u, v, x, y
<1>5. QED  BY <1>1, <1>2, <1>3, <1>4, OneDraftGroups

LEMMA ForensicGroup == \A o : Group(o, ForensicRules(o), ForensicNames)
<1> TAKE o
<1> DEFINE f == o.forensics
           u == Unknown("forensics.unavailable", {Step("ela")})
           m == Draft("forensics.multiple", "STRONG", "signal", {Row("image_forensics")})
           multiple == When(Cardinality(Families(f)) >= FamiliesForStrong, m)
           e == {"forensics.ela.na", "forensics.ela.anomaly", "forensics.ela.none"}
           c == {"forensics.compression.offset-grid", "forensics.compression.prior-jpeg",
                 "forensics.compression.encoding", "forensics.compression.none"}
           r == {"forensics.resampling.detected", "forensics.resampling.none",
                 "forensics.resampling.unmeasured"}
           n == {"forensics.noise.anomaly", "forensics.noise.consistent",
                 "forensics.noise.unmeasured"}
           k == {"forensics.copy-move.detected", "forensics.copy-move.none",
                 "forensics.copy-move.unmeasured"}
           d == {"forensics.double-compression.na", "forensics.double-compression.localized",
                 "forensics.double-compression.global", "forensics.double-compression.none"}
           t == {"forensics.thumbnail.na", "forensics.thumbnail.mismatch",
                 "forensics.thumbnail.region", "forensics.thumbnail.geometry",
                 "forensics.thumbnail.consistent"}
           g == {"forensics.c2pa-thumbnail.na", "forensics.c2pa-thumbnail.mismatch",
                 "forensics.c2pa-thumbnail.region", "forensics.c2pa-thumbnail.consistent"}
           all == e \cup c \cup r \cup n \cup k \cup d \cup t \cup g \cup {"forensics.multiple"}
<1>1. CASE f = None
  <2>1. ForensicRules(o) \subseteq {u}  BY <1>1 DEF ForensicRules
  <2>2. u.rule = "forensics.unavailable" /\ Sound(o, u)
    BY RulesOfDrafts, SilentIsSound DEF Silent
  <2> HIDE DEF u
  <2>3. Group(o, ForensicRules(o), {"forensics.unavailable"})
    BY <2>1, <2>2, OneDraftGroups
  <2>4. QED  BY <2>3 DEF Group, ForensicNames
<1>2. CASE f # None
  <2>1. ForensicRules(o) = ElaRules(f) \cup CompressionRules(f) \cup ResamplingRules(f)
            \cup NoiseRules(f) \cup CopyMoveRules(f) \cup DoubleCompressionRules(f)
            \cup ThumbnailRules(f) \cup C2paThumbnailRules(f) \cup multiple
    BY <1>2 DEF ForensicRules
  <2>2. Group(o, multiple, {"forensics.multiple"})
    <3>1. multiple \subseteq {m}  BY DEF When
    <3>2. m.rule = "forensics.multiple"  BY RulesOfDrafts
    <3>3. Sound(o, m)
      <4>1. \A s : Step(s) \notin {Row("image_forensics")}  BY StepsApart
      <4>2. QED  BY <4>1, BackedIsSound DEF Levels
    <3> HIDE DEF m, multiple
    <3>4. QED  BY <3>1, <3>2, <3>3, OneDraftGroups
  <2>3. Group(o, ElaRules(f) \cup CompressionRules(f), e \cup c)
    BY <1>2, ElaGroup, CompressionGroup, GroupsUnite
  <2>4. Group(o, ElaRules(f) \cup CompressionRules(f) \cup ResamplingRules(f), e \cup c \cup r)
    BY <1>2, <2>3, ResamplingGroup, GroupsUnite
  <2>5. Group(o, ElaRules(f) \cup CompressionRules(f) \cup ResamplingRules(f) \cup NoiseRules(f),
              e \cup c \cup r \cup n)
    BY <1>2, <2>4, NoiseGroup, GroupsUnite
  <2>6. Group(o, ElaRules(f) \cup CompressionRules(f) \cup ResamplingRules(f) \cup NoiseRules(f)
                 \cup CopyMoveRules(f),
              e \cup c \cup r \cup n \cup k)
    BY <1>2, <2>5, CopyMoveGroup, GroupsUnite
  <2>7. Group(o, ElaRules(f) \cup CompressionRules(f) \cup ResamplingRules(f) \cup NoiseRules(f)
                 \cup CopyMoveRules(f) \cup DoubleCompressionRules(f),
              e \cup c \cup r \cup n \cup k \cup d)
    BY <1>2, <2>6, DoubleCompressionGroup, GroupsUnite
  <2>8. Group(o, ElaRules(f) \cup CompressionRules(f) \cup ResamplingRules(f) \cup NoiseRules(f)
                 \cup CopyMoveRules(f) \cup DoubleCompressionRules(f) \cup ThumbnailRules(f),
              e \cup c \cup r \cup n \cup k \cup d \cup t)
    BY <1>2, <2>7, ThumbnailGroup, GroupsUnite
  <2>9. Group(o, ElaRules(f) \cup CompressionRules(f) \cup ResamplingRules(f) \cup NoiseRules(f)
                 \cup CopyMoveRules(f) \cup DoubleCompressionRules(f) \cup ThumbnailRules(f)
                 \cup C2paThumbnailRules(f),
              e \cup c \cup r \cup n \cup k \cup d \cup t \cup g)
    BY <1>2, <2>8, C2paThumbnailGroup, GroupsUnite
  <2>10. Group(o, ForensicRules(o), all)
    BY <2>1, <2>2, <2>9, GroupsUnite
  <2>11. all \subseteq ForensicNames  BY DEF ForensicNames, Flags
  <2> HIDE DEF all
  <2>12. QED  BY <2>10, <2>11 DEF Group
<1>3. QED  BY <1>1, <1>2

LEMMA NamesApart ==
    /\ FileNames \cap AiNames = {} /\ (FileNames \cup AiNames) \cap SourceNames = {}
    /\ ProvenanceNames \cap MetadataNames = {}
    /\ (ProvenanceNames \cup MetadataNames) \cap ImageMatchNames = {}
    /\ (ProvenanceNames \cup MetadataNames \cup ImageMatchNames) \cap ForensicNames = {}
    /\ TextNames \cap TextMatchNames = {}
    /\ (FileNames \cup AiNames \cup SourceNames)
         \cap (ProvenanceNames \cup MetadataNames \cup ImageMatchNames \cup ForensicNames) = {}
    /\ (FileNames \cup AiNames \cup SourceNames) \cap (TextNames \cup TextMatchNames) = {}
  BY DEF FileNames, AiNames, SourceNames, ProvenanceNames, MetadataNames, ImageMatchNames,
         ForensicNames, TextNames, TextMatchNames, Flags

LEMMA ConflictsHaveNamesOfTheirOwn ==
    (FileNames \cup AiNames \cup SourceNames \cup ProvenanceNames \cup MetadataNames
     \cup ImageMatchNames \cup ForensicNames \cup TextNames \cup TextMatchNames)
        \cap ConflictNames = {}
  BY DEF FileNames, AiNames, SourceNames, ProvenanceNames, MetadataNames, ImageMatchNames,
         ForensicNames, TextNames, TextMatchNames, Flags, ConflictNames

\* Of any rows, the rules draft finitely many records, one for each rule, and none
\* with the name of a conflict.
THEOREM DraftsAreSound ==
    \A o : /\ IsFiniteSet(Drafts(o)) /\ Sole(Drafts(o))
           /\ RulesOf(Drafts(o)) \cap ConflictNames = {}
           /\ \A d \in Drafts(o) : Sound(o, d)
<1> TAKE o
<1> DEFINE base == FileRules(o) \cup AiRules(o) \cup SourceRules(o)
           shared == FileNames \cup AiNames \cup SourceNames
<1>1. Group(o, base, shared)
  <2>1. Group(o, FileRules(o) \cup AiRules(o), FileNames \cup AiNames)
    BY FileGroup, AiGroup, NamesApart, GroupsUnite
  <2>2. QED  BY <2>1, SourceGroup, NamesApart, GroupsUnite
<1>2. CASE o.type = "image"
  <2> DEFINE ours == ProvenanceRules(o) \cup MetadataRules(o) \cup ImageMatchRules(o)
                     \cup ForensicRules(o)
             names == ProvenanceNames \cup MetadataNames \cup ImageMatchNames
                      \cup ForensicNames
  <2>1. Group(o, ProvenanceRules(o) \cup MetadataRules(o), ProvenanceNames \cup MetadataNames)
    BY ProvenanceGroup, MetadataGroup, NamesApart, GroupsUnite
  <2>2. Group(o, ProvenanceRules(o) \cup MetadataRules(o) \cup ImageMatchRules(o),
              ProvenanceNames \cup MetadataNames \cup ImageMatchNames)
    BY <2>1, ImageMatchGroup, NamesApart, GroupsUnite
  <2>3. Group(o, ours, names)  BY <2>2, ForensicGroup, NamesApart, GroupsUnite
  <2>4. shared \cap names = {} /\ (shared \cup names) \cap ConflictNames = {}
    BY NamesApart, ConflictsHaveNamesOfTheirOwn
  <2>5. Drafts(o) = base \cup ours  BY <1>2 DEF Drafts
  <2> HIDE DEF base, ours, names, shared
  <2>6. Group(o, Drafts(o), shared \cup names)  BY <1>1, <2>3, <2>4, <2>5, GroupsUnite
  <2>7. QED  BY <2>4, <2>6 DEF Group
<1>3. CASE o.type # "image"
  <2> DEFINE ours == TextRules(o) \cup TextMatchRules(o)
             names == TextNames \cup TextMatchNames
  <2>1. Group(o, ours, names)  BY TextGroup, TextMatchGroup, NamesApart, GroupsUnite
  <2>2. shared \cap names = {} /\ (shared \cup names) \cap ConflictNames = {}
    BY NamesApart, ConflictsHaveNamesOfTheirOwn
  <2>3. Drafts(o) = base \cup ours  BY <1>3 DEF Drafts
  <2> HIDE DEF base, ours, names, shared
  <2>4. Group(o, Drafts(o), shared \cup names)  BY <1>1, <2>1, <2>2, <2>3, GroupsUnite
  <2>5. QED  BY <2>2, <2>4 DEF Group
<1>4. QED  BY <1>2, <1>3

-----------------------------------------------------------------------------
(* What the overrides and the conflicts make of the drafts *)

Leveled(o) == ApplyOverrides(Drafts(o))

LEMMA OverriddenIsSound ==
    ASSUME NEW o, NEW d \in Drafts(o)
    PROVE  LET e == Overridden(d)
           IN  /\ e.rule = d.rule /\ e.refs = d.refs /\ e.family = d.family
               /\ e.kind = d.kind /\ e.kind # "conflict"
               /\ e.level \in Levels
               /\ e.level # "UNKNOWN" => \A s : Step(s) \in e.refs => Speaks(o, s)
               /\ Plausible(o) => e.confidence \in {NoNumber} \cup 0 .. 100
<1> DEFINE e == Overridden(d)
           level == Weaker(Overrides[d.rule], Ceiling(d))
<1>1. Drafted(d) /\ Sound(o, d)  BY RulesRespectCeilings, DraftsAreSound
<1>2. /\ e.rule = d.rule /\ e.kind = d.kind /\ e.level \in Levels
      /\ LevelRank[e.level] <= LevelRank[Ceiling(d)]
  BY <1>1, OverridesFit
<1>3. e.kind # "conflict"  BY <1>1, <1>2 DEF Drafted, DraftKinds
<1>4. /\ e.refs = d.refs /\ e.family = d.family
      /\ e.confidence = d.confidence \/ e.confidence = ConfidenceFor(e.level)
  BY <1>1 DEF Overridden, Drafted, Fields
<1>5. e.level # "UNKNOWN" => Ceiling(d) # "UNKNOWN"
  BY <1>1, <1>2, RanksOfLevels DEF Levels
<1> HIDE DEF e
<1>6. e.level # "UNKNOWN" => \A s : Step(s) \in e.refs => Speaks(o, s)
  BY <1>1, <1>4, <1>5 DEF Sound
<1>7. Plausible(o) => e.confidence \in {NoNumber} \cup 0 .. 100
  <2>1. Plausible(o) => d.confidence \in {NoNumber} \cup 0 .. 100  BY <1>1 DEF Sound
  <2>2. ConfidenceFor(e.level) \in {NoNumber} \cup 0 .. 100  BY <1>2, ConfidencesOfLevels
  <2>3. QED  BY <1>4, <2>1, <2>2
<1>8. QED  BY <1>2, <1>3, <1>4, <1>6, <1>7 DEF e

LEMMA LeveledIsSole ==
    \A o : /\ IsFiniteSet(Leveled(o)) /\ Sole(Leveled(o))
           /\ RulesOf(Leveled(o)) = RulesOf(Drafts(o))
           /\ \A e \in Leveled(o) : e.kind # "conflict"
<1> TAKE o
<1> DEFINE f == [d \in Drafts(o) |-> Overridden(d)]
<1>1. \A d \in Drafts(o) : Overridden(d).rule = d.rule /\ Overridden(d).kind # "conflict"
  BY OverriddenIsSound
<1>2. f \in Surjection(Drafts(o), Leveled(o))
  BY DEF Surjection, Leveled, ApplyOverrides
<1>3. IsFiniteSet(Leveled(o))  BY <1>2, DraftsAreSound, FS_Surjection
<1>4. Sole(Leveled(o))
  <2>1. Sole(Drafts(o))  BY DraftsAreSound
  <2>2. QED  BY <1>1, <2>1 DEF Sole, Leveled, ApplyOverrides
<1>5. RulesOf(Leveled(o)) = RulesOf(Drafts(o))
  BY <1>1 DEF RulesOf, Leveled, ApplyOverrides
<1>6. QED  BY <1>1, <1>3, <1>4, <1>5 DEF Leveled, ApplyOverrides

\* Which group a record comes from, for the rules that something else is said of.
LEMMA OriginsOfDrafts ==
    ASSUME NEW o, NEW d \in Drafts(o)
    PROVE  /\ d.rule \in ProvenanceNames => d \in ProvenanceRules(o)
           /\ d.rule \in MetadataNames => d \in MetadataRules(o)
           /\ d.rule \in SourceNames => d \in SourceRules(o)
           /\ d.rule \in FileNames => d \in FileRules(o)
           /\ d.rule \in ForensicNames => o.type = "image" /\ d \in ForensicRules(o)
<1>1. /\ \A x \in FileRules(o) : x.rule \in FileNames
      /\ \A x \in AiRules(o) : x.rule \in AiNames
      /\ \A x \in SourceRules(o) : x.rule \in SourceNames
  BY FileGroup, AiGroup, SourceGroup DEF Group, RulesOf
<1>2. /\ \A x \in ProvenanceRules(o) : x.rule \in ProvenanceNames
      /\ \A x \in MetadataRules(o) : x.rule \in MetadataNames
      /\ \A x \in ImageMatchRules(o) : x.rule \in ImageMatchNames
      /\ \A x \in ForensicRules(o) : x.rule \in ForensicNames
  BY ProvenanceGroup, MetadataGroup, ImageMatchGroup, ForensicGroup DEF Group, RulesOf
<1>3. /\ \A x \in TextRules(o) : x.rule \in TextNames
      /\ \A x \in TextMatchRules(o) : x.rule \in TextMatchNames
  BY TextGroup, TextMatchGroup DEF Group, RulesOf
<1>4. (TextNames \cup TextMatchNames) \cap (ProvenanceNames \cup MetadataNames \cup ForensicNames) = {}
  BY DEF ProvenanceNames, MetadataNames, ForensicNames, TextNames, TextMatchNames, Flags
<1>5. \/ o.type = "image" /\ d \in FileRules(o) \cup AiRules(o) \cup SourceRules(o)
             \cup ProvenanceRules(o) \cup MetadataRules(o) \cup ImageMatchRules(o)
             \cup ForensicRules(o)
      \/ d \in FileRules(o) \cup AiRules(o) \cup SourceRules(o) \cup TextRules(o)
             \cup TextMatchRules(o)
  BY DEF Drafts
<1>6. QED  BY <1>1, <1>2, <1>3, <1>4, <1>5, NamesApart

\* The manifest has one verdict, and only if there is a manifest.
LEMMA OneVerdict ==
    ASSUME NEW o, NEW d \in Drafts(o), d.rule \in {"provenance.valid", "provenance.invalid"}
    PROVE  /\ o.provenance # None
           /\ d.rule = "provenance.valid" <=> o.provenance.valid
<1> DEFINE p == o.provenance
           valid(refs) == Draft("provenance.valid", "VERIFIED", "fact", refs)
           invalid(refs) == Possible("provenance.invalid", refs)
           Others == {"provenance.trusted", "provenance.untrusted-signer",
                      "provenance.certificate.outside-validity", "provenance.source-type",
                      "provenance.training-mining", "provenance.identity",
                      "provenance.ingredient.invalid", "provenance.remote",
                      "provenance.absent", "provenance.uninspected"}
<1>1. d \in ProvenanceRules(o)  BY OriginsOfDrafts DEF ProvenanceNames
<1>2. \A refs, x : x \in TrustRules(p, refs) \cup CertificateRules(p, refs)
                      \cup RemoteReferenceRule(o) => x.rule \in Others
  BY RulesOfDrafts DEF TrustRules, CertificateRules, RemoteReferenceRule, When
<1>3. \A refs, x : x \in ProvenanceDeclarationRules(p, refs) => x.rule \in Others
  <2> TAKE refs, x
  <2> DEFINE level == IF "algorithmic" \in p.sourceTypes
                      THEN IF p.valid THEN "STRONG" ELSE "POSSIBLE" ELSE "POSSIBLE"
             y == [Draft("provenance.source-type", level, "signal", refs)
                   EXCEPT !.algorithmic = ("algorithmic" \in p.sourceTypes)]
  <2>1. y.rule = "provenance.source-type"  BY DEF Draft
  <2>2. x \in ProvenanceDeclarationRules(p, refs) =>
          \/ x = y
          \/ \E rule \in Others : \E level_, kind : x = Draft(rule, level_, kind, refs)
    BY DEF ProvenanceDeclarationRules, When
  <2> HIDE DEF y
  <2>3. QED  BY <2>1, <2>2, RulesOfDrafts
<1>4. \/ p # None /\ \E refs : d = valid(refs) /\ p.valid
      \/ p # None /\ \E refs : d = invalid(refs) /\ ~p.valid
      \/ \E rule \in Others : \E refs : d = Unknown(rule, refs)
      \/ d \in RemoteReferenceRule(o)
      \/ \E refs : d \in TrustRules(p, refs) \cup CertificateRules(p, refs)
                         \cup ProvenanceDeclarationRules(p, refs)
  BY <1>1 DEF ProvenanceRules, When
<1>5. QED  BY <1>2, <1>3, <1>4, RulesOfDrafts

\* What a conflict owes the records it is between.
Fair(c, drafts) ==
    /\ c.kind = "conflict" /\ c.level = "UNKNOWN"
    /\ c.sides # {} /\ c.sides \subseteq RulesOf(drafts)
    /\ \A d \in Named(drafts, c.sides) : d.refs \subseteq c.refs

LEMMA ConflictFields ==
    \A rule, refs, sides :
        LET c == Conflict(rule, refs, sides)
        IN  /\ c.rule = rule /\ c.refs = refs /\ c.sides = sides
            /\ c.kind = "conflict" /\ c.level = "UNKNOWN"
  BY DEF Conflict, Draft

LEMMA ConflictFamilies == \A rule, refs, sides : Conflict(rule, refs, sides).family = ""
  BY DEF Conflict, Draft

\* At most one conflict, of one rule.
Lone(S, rule, drafts) ==
    /\ \E x : S \subseteq {x}
    /\ \A c \in S : c.rule = rule /\ c.family = "" /\ Fair(c, drafts)

\* Two rules with a record each make at most one conflict.
LEMMA AgainstIsFair ==
    ASSUME NEW drafts, Sole(drafts), NEW first, NEW second, NEW rule,
           NEW pairs, pairs \subseteq Pairs(drafts, first, second)
    PROVE  Lone(Against(rule, pairs), rule, drafts)
<1>1. \A p \in pairs :
        /\ p[1] \in drafts /\ p[2] \in drafts /\ p = <<p[1], p[2]>>
        /\ p[1].rule = first /\ p[2].rule = second
  BY DEF Pairs
<1>2. \A p, q \in pairs : p = q
  <2> SUFFICES ASSUME NEW p \in pairs, NEW q \in pairs PROVE p = q
    OBVIOUS
  <2>1. p[1] = q[1] /\ p[2] = q[2]  BY <1>1 DEF Sole
  <2>2. QED  BY <1>1, <2>1
<1>3. \E x : Against(rule, pairs) \subseteq {x}
  <2>1. \A c, d \in Against(rule, pairs) : c = d  BY <1>2 DEF Against
  <2> DEFINE x == CHOOSE c \in Against(rule, pairs) : TRUE
  <2>2. Against(rule, pairs) \subseteq {x}  BY <2>1
  <2>3. QED  BY <2>2
<1>4. ASSUME NEW c \in Against(rule, pairs)
      PROVE  c.rule = rule /\ c.family = "" /\ Fair(c, drafts)
  <2>1. PICK p \in pairs : c = Between(rule, p[1], p[2])  BY DEF Against
  <2>2. c = Conflict(rule, p[1].refs \cup p[2].refs, {p[1].rule, p[2].rule})
    BY <2>1 DEF Between
  <2>3. /\ c.rule = rule /\ c.kind = "conflict" /\ c.level = "UNKNOWN"
        /\ c.refs = p[1].refs \cup p[2].refs /\ c.sides = {p[1].rule, p[2].rule}
    BY <2>2, ConflictFields
  <2>4. \A d \in Named(drafts, c.sides) : d = p[1] \/ d = p[2]
    BY <1>1, <2>3 DEF Named, Sole
  <2>5. c.sides \subseteq RulesOf(drafts)  BY <1>1, <2>3 DEF RulesOf
  <2>6. \A d \in Named(drafts, c.sides) : d.refs \subseteq c.refs
    BY <2>3, <2>4
  <2>7. c.sides # {}  BY <2>3
  <2>8. Fair(c, drafts)  BY <2>3, <2>5, <2>6, <2>7 DEF Fair
  <2>9. c.family = ""  BY <2>2, ConflictFamilies
  <2>10. QED  BY <2>3, <2>8, <2>9
<1>5. QED  BY <1>3, <1>4 DEF Lone

LEMMA ManifestOrderIsFair ==
    \A o : Lone(ManifestOrderConflict(Leveled(o), o), "conflict.manifest-order", Leveled(o))
<1> TAKE o
<1> DEFINE L == Leveled(o)
           M == ManifestOrderConflict(L, o)
           verdicts == {"provenance.valid", "provenance.invalid"}
<1>1. \A c \in M : \E d \in L : d.rule \in verdicts
                                /\ c = Conflict("conflict.manifest-order", d.refs, {d.rule})
  BY DEF ManifestOrderConflict
<1>2. \A d, e \in L : d.rule \in verdicts /\ e.rule \in verdicts => d = e
  <2> SUFFICES ASSUME NEW d \in L, NEW e \in L, d.rule \in verdicts, e.rule \in verdicts
               PROVE  d = e
    OBVIOUS
  <2>1. PICK a \in Drafts(o) : d = Overridden(a)  BY DEF Leveled, ApplyOverrides
  <2>2. PICK b \in Drafts(o) : e = Overridden(b)  BY DEF Leveled, ApplyOverrides
  <2>3. a.rule = d.rule /\ b.rule = e.rule  BY <2>1, <2>2, OverriddenIsSound
  <2>4. a.rule = b.rule  BY <2>3, OneVerdict
  <2>5. QED  BY <2>3, <2>4, LeveledIsSole DEF Sole
<1>3. \E x : M \subseteq {x}
  <2>1. \A c, d \in M : c = d  BY <1>1, <1>2
  <2> DEFINE x == CHOOSE c \in M : TRUE
  <2>2. M \subseteq {x}  BY <2>1
  <2>3. QED  BY <2>2
<1>4. ASSUME NEW c \in M
      PROVE  c.rule = "conflict.manifest-order" /\ c.family = "" /\ Fair(c, L)
  <2>1. PICK d \in L : c = Conflict("conflict.manifest-order", d.refs, {d.rule})  BY <1>1
  <2>2. /\ c.rule = "conflict.manifest-order" /\ c.kind = "conflict" /\ c.level = "UNKNOWN"
        /\ c.refs = d.refs /\ c.sides = {d.rule}
    BY <2>1, ConflictFields
  <2>3. \A e \in Named(L, c.sides) : e = d  BY <2>2, LeveledIsSole DEF Named, Sole
  <2>4. c.sides \subseteq RulesOf(L) /\ c.sides # {}  BY <2>2 DEF RulesOf
  <2>5. Fair(c, L)  BY <2>2, <2>3, <2>4 DEF Fair
  <2>6. c.family = ""  BY <2>1, ConflictFamilies
  <2>7. QED  BY <2>2, <2>5, <2>6
<1>5. QED  BY <1>3, <1>4 DEF Lone

\* Every conflict of the evidence is fair, there is at most one of each rule, and
\* all rules have their own names.
LEMMA ConflictsAreFair ==
    \A o : LET C == ConflictRules(Leveled(o), o)
           IN  /\ IsFiniteSet(C) /\ Sole(C)
               /\ \A c \in C : c.rule \in ConflictNames /\ c.family = "" /\ Fair(c, Leveled(o))
<1> TAKE o
<1> DEFINE L == Leveled(o)
           C == ConflictRules(L, o)
           strong(pairs) == {p \in pairs : p[2].level \in {"STRONG", "PROBABLE"}}
           ai == Against("conflict.provenance-vs-ai",
                         strong(Pairs(L, "provenance.valid", "ai.signal")))
           forensics == Against("conflict.provenance-vs-forensics",
                                strong(Pairs(L, "provenance.valid", "forensics.multiple")))
           late == CaptureAfterSigning(L, o)
           early == PublishedBeforeCapture(L, o)
           source == SourceTypeConflict(L)
           order == ManifestOrderConflict(L, o)
<1>1. Sole(L)  BY LeveledIsSole
<1>2. /\ Lone(late, "conflict.capture-after-signing", L)
      /\ Lone(early, "conflict.published-before-capture", L)
      /\ Lone(source, "conflict.source-type", L)
  <2>1. Lone(late, "conflict.capture-after-signing", L)
    BY <1>1, AgainstIsFair DEF CaptureAfterSigning
  <2>2. Lone(early, "conflict.published-before-capture", L)
    BY <1>1, AgainstIsFair DEF PublishedBeforeCapture
  <2>3. Lone(source, "conflict.source-type", L)
    BY <1>1, AgainstIsFair DEF SourceTypeConflict
  <2>4. QED  BY <2>1, <2>2, <2>3
<1>3. Lone(order, "conflict.manifest-order", L)  BY ManifestOrderIsFair
<1>4. /\ Lone(ai, "conflict.provenance-vs-ai", L)
      /\ Lone(forensics, "conflict.provenance-vs-forensics", L)
  BY <1>1, AgainstIsFair
<1>5. C = late \cup early \cup source \cup order \cup ai \cup forensics
  BY DEF ConflictRules, OpposingSignals
<1> HIDE DEF L, C, ai, forensics, late, early, source, order
<1>6. \A c \in C : c.rule \in ConflictNames /\ c.family = "" /\ Fair(c, L)
  BY <1>2, <1>3, <1>4, <1>5 DEF Lone, ConflictNames
<1>7. Sole(C)
  <2> DEFINE groups == {late, early, source, order, ai, forensics}
  <2> DEFINE Only(S, rule) == (\E x : S \subseteq {x}) /\ \A c \in S : c.rule = rule
  <2>0. \A S, rule : Lone(S, rule, L) => Only(S, rule)  BY DEF Lone
  <2>5. /\ Only(late, "conflict.capture-after-signing")
        /\ Only(early, "conflict.published-before-capture")
        /\ Only(source, "conflict.source-type") /\ Only(order, "conflict.manifest-order")
        /\ Only(ai, "conflict.provenance-vs-ai")
        /\ Only(forensics, "conflict.provenance-vs-forensics")
    BY <1>2, <1>3, <1>4, <2>0
  <2>1. \A S \in groups : \E x : S \subseteq {x}  BY <2>5
  <2>2. \A S, T \in groups : \A a \in S, b \in T : a.rule = b.rule => S = T
    BY <2>5
  <2>3. \A c \in C : \E S \in groups : c \in S  BY <1>5
  <2> HIDE DEF groups
  <2>4. \A a, b \in C : a.rule = b.rule => a = b  BY <2>1, <2>2, <2>3
  <2>6. QED  BY <2>4 DEF Sole
<1>8. IsFiniteSet(C)
  <2>1. \A S, rule : Lone(S, rule, L) => IsFiniteSet(S)
    BY SinglesAreFinite, FS_Subset DEF Lone
  <2>2. IsFiniteSet(late \cup early \cup source)  BY <1>2, <2>1, UnionsAreFinite
  <2>3. IsFiniteSet(order \cup ai \cup forensics)  BY <1>3, <1>4, <2>1, UnionsAreFinite
  <2>4. C = (late \cup early \cup source) \cup (order \cup ai \cup forensics)  BY <1>5
  <2>5. QED  BY <2>2, <2>3, <2>4, UnionsAreFinite
<1>9. QED  BY <1>6, <1>7, <1>8 DEF L, C

Conflicting(drafts) == {d \in drafts : d.kind = "conflict"}

\* The evidence is the records as the overrides leave them, and the conflicts
\* between them.
LEMMA EvidenceSplits ==
    \A o : LET E == BuildEvidence(o)
               C == ConflictRules(Leveled(o), o)
           IN  /\ E = Leveled(o) \cup C
               /\ Conflicting(E) = C /\ Conflicting(Leveled(o)) = {}
               /\ E \ C = Leveled(o)
               /\ IsFiniteSet(E) /\ Sole(E)
<1> TAKE o
<1> DEFINE L == Leveled(o)
           C == ConflictRules(L, o)
           E == BuildEvidence(o)
<1>1. E = L \cup C  BY DEF BuildEvidence, Leveled
<1>2. IsFiniteSet(L) /\ Sole(L) /\ \A d \in L : d.kind # "conflict"  BY LeveledIsSole
<1>3. IsFiniteSet(C) /\ Sole(C) /\ \A c \in C : c.kind = "conflict"
  BY ConflictsAreFair DEF Fair
<1>4. \A d \in L, c \in C : d.rule # c.rule
  <2>1. \A c \in C : c.rule \in ConflictNames  BY ConflictsAreFair
  <2>2. \A d \in L : d.rule \in RulesOf(Drafts(o))  BY LeveledIsSole DEF RulesOf
  <2>3. QED  BY <2>1, <2>2, DraftsAreSound
<1> HIDE DEF L, C, E
<1>5. IsFiniteSet(E)  BY <1>1, <1>2, <1>3, UnionsAreFinite
<1>6. Sole(E)  BY <1>1, <1>2, <1>3, <1>4 DEF Sole
<1>7. Conflicting(E) = C /\ Conflicting(L) = {} /\ E \ C = L
  BY <1>1, <1>2, <1>3 DEF Conflicting
<1>8. QED  BY <1>1, <1>5, <1>6, <1>7 DEF L, C, E

LEMMA SolesHaveOneEach ==
    ASSUME NEW S, IsFiniteSet(S), Sole(S)
    PROVE  Cardinality(RulesOf(S)) = Cardinality(S)
<1> DEFINE f == [d \in S |-> d.rule]
<1>1. f \in Surjection(S, RulesOf(S))  BY DEF Surjection, RulesOf
<1>2. f \in Injection(S, RulesOf(S))  BY DEF Injection, IsInjective, RulesOf, Sole
<1>3. QED  BY <1>1, <1>2, FS_Surjection

LEMMA GreatestExists ==
    ASSUME NEW S, S \subseteq 0 .. 100, S # {}
    PROVE  \E m \in S : \A k \in S : k <= m
<1> DEFINE Bounds == {n \in Nat : \A k \in S : k <= n}
<1>1. 100 \in Bounds  OBVIOUS
<1>2. Bounds \subseteq Nat /\ Bounds # {}  BY <1>1
<1> HIDE DEF Bounds
<1>3. PICK m \in Bounds : \A n \in Bounds : ~(<<n, m>> \in OpToRel(<, Nat))
  BY <1>2, NatLessThanWellFounded, WFMin
<1>4. m \in Nat /\ \A k \in S : k <= m  BY <1>3 DEF Bounds
<1>5. \A n \in Bounds : ~(n < m)
  BY <1>2, <1>3, <1>4 DEF OpToRel
<1>6. m \in S
  <2> SUFFICES ASSUME m \notin S PROVE FALSE
    OBVIOUS
  <2>1. \A k \in S : k \in Nat /\ k < m  BY <1>4
  <2>2. PICK k \in S : TRUE  OBVIOUS
  <2>3. m > 0  BY <1>4, <2>1, <2>2
  <2>4. \A x \in S : x <= m - 1  BY <1>4, <2>1
  <2>5. m - 1 \in Nat  BY <1>4, <2>3
  <2>6. m - 1 \in Bounds  BY <2>4, <2>5 DEF Bounds
  <2>7. m - 1 < m  BY <1>4
  <2>8. QED  BY <1>5, <2>6, <2>7
<1>7. QED  BY <1>4, <1>6

\* With a penalty that is not nothing, a conflict leaves less confidence than the
\* same records would have without it, if they had any.
LEMMA ConflictsCostConfidence ==
    ASSUME NEW o, Plausible(o), ConflictPenalty > 0,
           Conflicting(BuildEvidence(o)) # {}, SynthesisConfidence(Leveled(o)) > 0
    PROVE  SynthesisConfidence(BuildEvidence(o)) < SynthesisConfidence(Leveled(o))
<1> DEFINE L == Leveled(o)
           E == BuildEvidence(o)
           Number(d) == IF d.confidence = NoNumber THEN ConfidenceFor(d.level) ELSE d.confidence
           Numbers(S) == {0} \cup {Number(d) : d \in {e \in S : e.level # "UNKNOWN"}}
           Best(S) == CHOOSE n \in S : \A k \in S : k <= n
           Left(best, n) == LET left == best - n * ConflictPenalty
                            IN  IF left < 0 THEN 0 ELSE IF left > 100 THEN 100 ELSE left
<1>1. \A S : SynthesisConfidence(S) =
                 Left(Best(Numbers(S \ Conflicting(S))), Cardinality(Conflicting(S)))
  BY DEF SynthesisConfidence, Conflicting
<1>2. Numbers(L) \subseteq 0 .. 100
  <2>1. ASSUME NEW d \in L, d.level # "UNKNOWN" PROVE Number(d) \in 0 .. 100
    <3>1. d.level \in Levels /\ d.confidence \in {NoNumber} \cup 0 .. 100
      BY OverriddenIsSound DEF Leveled, ApplyOverrides
    <3>2. ConfidenceFor(d.level) \in 0 .. 100
      BY <2>1, <3>1, ThresholdsAssumption DEF ConfidenceFor
    <3>3. QED  BY <3>1, <3>2
  <2>2. QED  BY <2>1
<1>3. /\ E \ Conflicting(E) = L /\ L \ Conflicting(L) = L
      /\ IsFiniteSet(Conflicting(E)) /\ Conflicting(L) = {}
  BY EvidenceSplits, ConflictsAreFair
<1>4. Best(Numbers(L)) \in 0 .. 100
  <2> DEFINE N == Numbers(L)
  <2>1. N \subseteq 0 .. 100 /\ N # {}  BY <1>2
  <2> HIDE DEF N
  <2>2. Best(N) \in N  BY <2>1, GreatestExists
  <2>3. QED  BY <2>1, <2>2 DEF N
<1> DEFINE b == Best(Numbers(L))
           n == Cardinality(Conflicting(E))
<1>5. n \in Nat /\ n # 0  BY <1>3, FS_CardinalityType, FS_EmptySet
<1> HIDE DEF E, L, Left, Best, Numbers
<1>6. SynthesisConfidence(E) = Left(b, n)  BY <1>1, <1>3
<1>7. SynthesisConfidence(L) = Left(b, 0)
  <2>1. Cardinality(Conflicting(L)) = 0  BY <1>3, FS_EmptySet
  <2>2. SynthesisConfidence(L) = Left(Best(Numbers(L \ Conflicting(L))), Cardinality(Conflicting(L)))
    BY <1>1
  <2>3. QED  BY <1>3, <2>1, <2>2
<1> HIDE DEF b, n
<1>8. ConflictPenalty \in 0 .. 100 /\ ConflictPenalty \in Nat
  BY ThresholdsAssumption
<1> USE DEF Left
<1>14. b \in 0 .. 100  BY <1>4 DEF b
<1>9. n * ConflictPenalty >= 1 /\ n * ConflictPenalty \in Nat  BY <1>5, <1>8
<1>10. Left(b, 0) = b  BY <1>8, <1>14
<1>11. b > 0  BY <1>7, <1>10 DEF L
<1>12. Left(b, n) < b  BY <1>8, <1>9, <1>11, <1>14
<1>13. QED  BY <1>6, <1>7, <1>10, <1>12 DEF E, L

-----------------------------------------------------------------------------
(* Families *)

\* The verdicts on the EXIF thumbnail.
ThumbnailVerdicts == {"none", "na", "clean", "global", "region", "geometry",
                      "global+geometry", "region+geometry"}

Readable(o) == o.forensics # None => o.forensics.thumbnail \in ThumbnailVerdicts

LEMMA FamiliesOfDrafts ==
    \A rule, family, refs : Anomaly(rule, family, refs).family = family
  BY DEF Anomaly, Possible, Draft

\* A record that flags an anomaly is of a family that the forensics row flags.
LEMMA FlagsAreOfFamilies ==
    ASSUME NEW f,
           NEW d \in ElaRules(f) \cup CompressionRules(f) \cup NoiseRules(f)
                     \cup CopyMoveRules(f) \cup DoubleCompressionRules(f)
                     \cup ThumbnailRules(f) \cup C2paThumbnailRules(f) \cup ResamplingRules(f),
           d.rule \in Flags
    PROVE  d.family \in Families(f)
<1>1. CASE d \in ElaRules(f)
  <2>1. f.ela = "anomaly" /\ d.family = "error-level/compression"
    BY <1>1, RulesOfDrafts, FamiliesOfDrafts DEF ElaRules, Flags
  <2>2. QED  BY <2>1 DEF Families
<1>2. CASE d \in CompressionRules(f)
  <2>1. f.compression = "anomaly" /\ d.family = "error-level/compression"
    BY <1>2, RulesOfDrafts, FamiliesOfDrafts DEF CompressionRules, Flags
  <2>2. QED  BY <2>1 DEF Families
<1>3. CASE d \in DoubleCompressionRules(f)
  <2>1. f.double_compression = "anomaly" /\ d.family = "error-level/compression"
    BY <1>3, RulesOfDrafts, FamiliesOfDrafts DEF DoubleCompressionRules, Flags
  <2>2. QED  BY <2>1 DEF Families
<1>4. CASE d \in NoiseRules(f)
  <2>1. f.noise = "anomaly" /\ d.family = "noise"
    BY <1>4, RulesOfDrafts, FamiliesOfDrafts DEF NoiseRules, Flags
  <2>2. QED  BY <2>1 DEF Families
<1>5. CASE d \in CopyMoveRules(f)
  <2>1. f.copy_move = "detected" /\ d.family = "copy-move"
    BY <1>5, RulesOfDrafts, FamiliesOfDrafts DEF CopyMoveRules, Flags
  <2>2. QED  BY <2>1 DEF Families
<1>6. CASE d \in ThumbnailRules(f)
  <2>1. f.thumbnail \notin {"none", "na", "clean"} /\ d.family = "thumbnail"
    BY <1>6, RulesOfDrafts, FamiliesOfDrafts DEF ThumbnailRules, Flags, When
  <2>2. QED  BY <2>1 DEF Families
<1>7. CASE d \in C2paThumbnailRules(f)
  <2>1. /\ f.c2pa_thumbnail \in {"global", "region", "global+geometry", "region+geometry"}
        /\ d.family = "thumbnail"
    BY <1>7, RulesOfDrafts, FamiliesOfDrafts DEF C2paThumbnailRules, Flags
  <2>2. QED  BY <2>1 DEF Families
<1>8. CASE d \in ResamplingRules(f)  BY <1>8, RulesOfDrafts DEF ResamplingRules, Flags
<1>9. QED  BY <1>1, <1>2, <1>3, <1>4, <1>5, <1>6, <1>7, <1>8

\* And every family that it flags has such a record.
LEMMA FamiliesHaveFlags ==
    ASSUME NEW f, f.thumbnail \in ThumbnailVerdicts, NEW family \in Families(f)
    PROVE  \E d \in ElaRules(f) \cup CompressionRules(f) \cup NoiseRules(f)
                    \cup CopyMoveRules(f) \cup DoubleCompressionRules(f)
                    \cup ThumbnailRules(f) \cup C2paThumbnailRules(f) :
               d.family = family
<1>1. CASE family = "error-level/compression"
  <2>1. "anomaly" \in {f.ela, f.compression, f.double_compression}  BY <1>1 DEF Families
  <2>2. CASE f.ela = "anomaly"
    BY <1>1, <2>2, FamiliesOfDrafts DEF ElaRules
  <2>3. CASE f.compression = "anomaly"
    BY <1>1, <2>3, FamiliesOfDrafts DEF CompressionRules
  <2>4. CASE f.double_compression = "anomaly"
    BY <1>1, <2>4, FamiliesOfDrafts DEF DoubleCompressionRules
  <2>5. QED  BY <2>1, <2>2, <2>3, <2>4
<1>2. CASE family = "noise"
  <2>1. f.noise = "anomaly"  BY <1>2 DEF Families
  <2>2. QED  BY <1>2, <2>1, FamiliesOfDrafts DEF NoiseRules
<1>3. CASE family = "copy-move"
  <2>1. f.copy_move = "detected"  BY <1>3 DEF Families
  <2>2. QED  BY <1>3, <2>1, FamiliesOfDrafts DEF CopyMoveRules
<1>4. CASE family = "thumbnail"
  <2>1. \/ f.thumbnail \notin {"none", "na", "clean"}
        \/ f.c2pa_thumbnail \in {"global", "region", "global+geometry", "region+geometry"}
    BY <1>4 DEF Families
  <2>2. CASE f.thumbnail \notin {"none", "na", "clean"}
    <3>1. \E rule, refs : Anomaly(rule, "thumbnail", refs) \in ThumbnailRules(f)
      BY <2>2 DEF ThumbnailRules, ThumbnailVerdicts, When
    <3>2. QED  BY <1>4, <3>1, FamiliesOfDrafts
  <2>3. CASE f.c2pa_thumbnail \in {"global", "region", "global+geometry", "region+geometry"}
    <3>1. \E rule, refs : Anomaly(rule, "thumbnail", refs) \in C2paThumbnailRules(f)
      BY <2>3 DEF C2paThumbnailRules
    <3>2. QED  BY <1>4, <3>1, FamiliesOfDrafts
  <2>4. QED  BY <2>1, <2>2, <2>3
<1>5. QED  BY <1>1, <1>2, <1>3, <1>4 DEF Families

\* The families an evidence names are those that the forensics row flags, and
\* nothing else has one.
FlaggedFamilies(o) ==
    IF o.type = "image" /\ o.forensics # None THEN Families(o.forensics) ELSE {}

LEMMA DraftsNameFamilies ==
    ASSUME NEW o, Readable(o)
    PROVE  {d.family : d \in Drafts(o)} \ {""} = FlaggedFamilies(o)
<1> DEFINE f == o.forensics
           single == ElaRules(f) \cup CompressionRules(f) \cup NoiseRules(f)
                     \cup CopyMoveRules(f) \cup DoubleCompressionRules(f)
                     \cup ThumbnailRules(f) \cup C2paThumbnailRules(f)
<1>1. \A d \in Drafts(o) : d.family # "" => d.rule \in Flags
  BY DraftsAreSound DEF Sound
<1>2. \A d \in Drafts(o) : d.rule \in Flags => o.type = "image" /\ d \in ForensicRules(o)
  BY OriginsOfDrafts DEF ForensicNames
<1>3. f = None => \A d \in ForensicRules(o) : d.rule \notin Flags
  BY RulesOfDrafts DEF ForensicRules, Flags
<1>4. f # None => \A d \in ForensicRules(o) : d.rule \in Flags => d.family \in Families(f)
  <2> SUFFICES ASSUME f # None, NEW d \in ForensicRules(o), d.rule \in Flags
               PROVE  d.family \in Families(f)
    OBVIOUS
  <2>1. Draft("forensics.multiple", "STRONG", "signal", {Row("image_forensics")}).rule \notin Flags
    BY RulesOfDrafts DEF Flags
  <2>2. d \in single \cup ResamplingRules(f)
    BY <2>1 DEF ForensicRules, When
  <2>3. QED  BY <2>2, FlagsAreOfFamilies
<1>5. f # None => \A family \in Families(f) : \E d \in ForensicRules(o) : d.family = family
  <2>1. f # None => single \subseteq ForensicRules(o)  BY DEF ForensicRules
  <2>2. QED  BY <2>1, FamiliesHaveFlags DEF Readable
<1>6. o.type = "image" => ForensicRules(o) \subseteq Drafts(o)  BY DEF Drafts
<1>7. "" \notin Families(f)  BY DEF Families
<1>8. QED  BY <1>1, <1>2, <1>3, <1>4, <1>5, <1>6, <1>7 DEF FlaggedFamilies

\* The record of several families is drafted exactly when there are enough.
LEMMA MultipleIsDrafted ==
    ASSUME NEW o
    PROVE  ("forensics.multiple" \in RulesOf(Drafts(o))) <=>
              /\ o.type = "image" /\ o.forensics # None
              /\ Cardinality(Families(o.forensics)) >= FamiliesForStrong
<1> DEFINE f == o.forensics
           enough == Cardinality(Families(f)) >= FamiliesForStrong
           multiple == Draft("forensics.multiple", "STRONG", "signal", {Row("image_forensics")})
           single == ElaRules(f) \cup CompressionRules(f) \cup ResamplingRules(f)
                     \cup NoiseRules(f) \cup CopyMoveRules(f) \cup DoubleCompressionRules(f)
                     \cup ThumbnailRules(f) \cup C2paThumbnailRules(f)
<1>1. multiple.rule = "forensics.multiple"  BY RulesOfDrafts
<1>2. \A d \in single : d.rule # "forensics.multiple"
  <2>1. \A d \in ElaRules(f) \cup CompressionRules(f) \cup ResamplingRules(f) :
          d.rule # "forensics.multiple"
    BY RulesOfDrafts DEF ElaRules, CompressionRules, ResamplingRules
  <2>2. \A d \in NoiseRules(f) \cup CopyMoveRules(f) \cup DoubleCompressionRules(f) :
          d.rule # "forensics.multiple"
    BY RulesOfDrafts DEF NoiseRules, CopyMoveRules, DoubleCompressionRules
  <2>3. \A d \in ThumbnailRules(f) \cup C2paThumbnailRules(f) : d.rule # "forensics.multiple"
    BY RulesOfDrafts DEF ThumbnailRules, C2paThumbnailRules, When
  <2>4. QED  BY <2>1, <2>2, <2>3
<1>3. ForensicRules(o) = IF f = None THEN {Unknown("forensics.unavailable", {Step("ela")})}
                         ELSE single \cup (IF enough THEN {multiple} ELSE {})
  BY DEF ForensicRules, When
<1>4. \A d \in Drafts(o) : d.rule = "forensics.multiple" =>
          o.type = "image" /\ d \in ForensicRules(o)
  BY OriginsOfDrafts DEF ForensicNames
<1>5. o.type = "image" => ForensicRules(o) \subseteq Drafts(o)  BY DEF Drafts
<1>6. Unknown("forensics.unavailable", {Step("ela")}).rule # "forensics.multiple"
  BY RulesOfDrafts
<1> HIDE DEF single, multiple, enough
<1>7. ASSUME "forensics.multiple" \in RulesOf(Drafts(o))
      PROVE  o.type = "image" /\ f # None /\ enough
  <2>1. PICK d \in Drafts(o) : d.rule = "forensics.multiple"  BY <1>7 DEF RulesOf
  <2>2. o.type = "image" /\ d \in ForensicRules(o)  BY <1>4, <2>1
  <2>3. QED  BY <1>2, <1>3, <1>6, <2>1, <2>2
<1>8. ASSUME o.type = "image", f # None, enough
      PROVE  "forensics.multiple" \in RulesOf(Drafts(o))
  <2>1. multiple \in Drafts(o)  BY <1>3, <1>5, <1>8
  <2>2. QED  BY <1>1, <2>1 DEF RulesOf
<1>9. QED  BY <1>7, <1>8 DEF enough

\* Correlated methods count once, however the overrides are set.
LEMMA CorrelatedCountOnce ==
    ASSUME NEW o, Readable(o)
    PROVE  LET E == BuildEvidence(o)
           IN  ("forensics.multiple" \in RulesOf(E)) <=>
                   Cardinality({d.family : d \in E} \ {""}) >= FamiliesForStrong
<1> DEFINE E == BuildEvidence(o)
           L == Leveled(o)
           C == ConflictRules(L, o)
<1>1. E = L \cup C  BY EvidenceSplits
<1>2. \A c \in C : c.family = "" /\ c.rule # "forensics.multiple"
  BY ConflictsAreFair DEF ConflictNames
<1>3. {d.family : d \in L} = {d.family : d \in Drafts(o)}
  BY OverriddenIsSound DEF Leveled, ApplyOverrides
<1>4. RulesOf(L) = RulesOf(Drafts(o))  BY LeveledIsSole
<1> HIDE DEF E, L, C
<1>5. {d.family : d \in E} \ {""} = FlaggedFamilies(o)
  BY <1>1, <1>2, <1>3, DraftsNameFamilies
<1>6. "forensics.multiple" \in RulesOf(E) <=> "forensics.multiple" \in RulesOf(Drafts(o))
  BY <1>1, <1>2, <1>4 DEF RulesOf
<1>7. FamiliesForStrong \in Nat \ {0}  BY ThresholdsAssumption
<1>8. ~(Cardinality({}) >= FamiliesForStrong)  BY <1>7, FS_EmptySet
<1>9. QED  BY <1>5, <1>6, <1>8, MultipleIsDrafted DEF FlaggedFamilies, E

-----------------------------------------------------------------------------
(* The timeline *)

\* An event of the rows: it points at records that are there, and is as certain as
\* they are.
Pointing(x, drafts) ==
    /\ x.rules \subseteq RulesOf(drafts)
    /\ \A d \in Named(drafts, x.rules) : d.level = x.certainty

LEMMA EventFields ==
    \A type, time, certainty, rules :
        LET x == Event(type, time, certainty, rules)
        IN  /\ x.type = type /\ x.time = time
            /\ x.certainty = certainty /\ x.rules = rules
  BY DEF Event

LEMMA EventOfRecordPoints ==
    ASSUME NEW drafts, Sole(drafts), NEW d \in drafts, NEW type, NEW time
    PROVE  Pointing(Event(type, time, d.level, {d.rule}), drafts)
<1> DEFINE x == Event(type, time, d.level, {d.rule})
<1>1. x.certainty = d.level /\ x.rules = {d.rule}  BY EventFields
<1> HIDE DEF x
<1>2. Pointing(x, drafts)  BY <1>1 DEF Pointing, Named, RulesOf, Sole
<1>3. QED  BY <1>2 DEF x

LEMMA LinkedPoints ==
    ASSUME NEW drafts, Sole(drafts), NEW type, NEW time, NEW rule
    PROVE  /\ \E x : x \in Linked(type, time, rule, drafts)
           /\ \A x \in Linked(type, time, rule, drafts) :
                 x.type = type /\ x.time = time /\ Pointing(x, drafts)
<1>1. CASE Named(drafts, {rule}) = {}
  <2> DEFINE x == Event(type, time, "POSSIBLE", {})
  <2>1. Linked(type, time, rule, drafts) = {x}  BY <1>1 DEF Linked
  <2>2. x.type = type /\ x.time = time /\ x.rules = {}  BY EventFields
  <2> HIDE DEF x
  <2>3. Pointing(x, drafts)  BY <2>2 DEF Pointing, Named
  <2>4. QED  BY <2>1, <2>2, <2>3
<1>2. CASE Named(drafts, {rule}) # {}
  <2>1. Linked(type, time, rule, drafts) =
            {Event(type, time, d.level, {rule}) : d \in Named(drafts, {rule})}
    BY <1>2 DEF Linked
  <2>2. \A d \in Named(drafts, {rule}) : d \in drafts /\ d.rule = rule  BY DEF Named
  <2>3. \A d \in Named(drafts, {rule}) : Pointing(Event(type, time, d.level, {rule}), drafts)
    BY <2>2, EventOfRecordPoints
  <2>4. \A x \in Linked(type, time, rule, drafts) :
          \E d \in Named(drafts, {rule}) : x = Event(type, time, d.level, {rule})
    BY <2>1
  <2>5. PICK d \in Named(drafts, {rule}) : TRUE  BY <1>2
  <2>6. Event(type, time, d.level, {rule}) \in Linked(type, time, rule, drafts)  BY <2>1
  <2>7. \E x : x \in Linked(type, time, rule, drafts)  BY <2>6
  <2>8. ASSUME NEW x \in Linked(type, time, rule, drafts)
        PROVE  x.type = type /\ x.time = time /\ Pointing(x, drafts)
    <3>1. PICK e \in Named(drafts, {rule}) : x = Event(type, time, e.level, {rule})
      BY <2>4
    <3>2. x.type = type /\ x.time = time  BY <3>1, EventFields
    <3>3. Pointing(x, drafts)  BY <2>3, <3>1
    <3>4. QED  BY <3>2, <3>3
  <2>9. QED  BY <2>7, <2>8
<1>3. QED  BY <1>1, <1>2

LEMMA ProvenanceEventsPoint ==
    ASSUME NEW o, NEW drafts, Sole(drafts)
    PROVE  \A x \in ProvenanceEvents(o, drafts) : Pointing(x, drafts)
<1>1. \A x \in ProvenanceEvents(o, drafts) :
        \E d \in Named(drafts, {"provenance.valid", "provenance.invalid"}) :
            \E type, time : x = Event(type, time, d.level, {d.rule})
  BY DEF ProvenanceEvents
<1>2. QED  BY <1>1, EventOfRecordPoints DEF Named

LEMMA MetadataEventsPoint ==
    ASSUME NEW o, NEW drafts, Sole(drafts)
    PROVE  \A x \in MetadataEvents(o, drafts) : Pointing(x, drafts)
<1>1. \A x \in MetadataEvents(o, drafts) :
        \E type, time, rule : x \in Linked(type, time, rule, drafts)
  <2> DEFINE m == o.metadata
             recorded == {<<"metadata.captured", m.captured, "metadata.captured">>,
                          <<"metadata.modified", m.modified, "metadata.modified">>,
                          <<"metadata.gps_time", m.gpsTime, "metadata.gps">>}
             dated == {r \in recorded : r[2] # Absent}
             of(e) == Linked(e[1], e[2], e[3], drafts)
             edit(time) == Linked("metadata.edit", time, "metadata.edit-history", drafts)
             linked(x) == \E type, time, rule : x \in Linked(type, time, rule, drafts)
  <2>1. MetadataEvents(o, drafts) =
            (UNION {edit(time) : time \in m.edits}) \cup UNION {of(e) : e \in dated}
    BY DEF MetadataEvents
  <2>2. \A e : \A x \in of(e) : linked(x)  OBVIOUS
  <2>3. \A time : \A x \in edit(time) : linked(x)  OBVIOUS
  <2> HIDE DEF dated, of, edit, linked
  <2>4. \A x \in MetadataEvents(o, drafts) : linked(x)  BY <2>1, <2>2, <2>3
  <2>5. QED  BY <2>4 DEF linked
<1>2. QED  BY <1>1, LinkedPoints

Ours == {"source.published", "source.discovered", "analysis.submitted"}

LEMMA OurEventsPoint ==
    ASSUME NEW o, NEW drafts
    PROVE  \A x \in SourceEvents(o, drafts) \cup SubmittedEvents(o, drafts) :
               x.rules \subseteq RulesOf(drafts) /\ x.type \in Ours
<1>1. \A x \in SourceEvents(o, drafts) :
        /\ Named(drafts, {"sources.matches"}) # {}
        /\ \/ \E time : x = Event("source.published", time, "POSSIBLE", {"sources.matches"})
           \/ x = Event("source.discovered", 0, "VERIFIED", {"sources.matches"})
  BY DEF SourceEvents
<1>2. \A x \in SourceEvents(o, drafts) :
        x.rules \subseteq RulesOf(drafts) /\ x.type \in Ours
  <2>1. Named(drafts, {"sources.matches"}) # {} => {"sources.matches"} \subseteq RulesOf(drafts)
    BY DEF Named, RulesOf
  <2>2. QED  BY <1>1, <2>1, EventFields DEF Ours
<1>3. \A x \in SubmittedEvents(o, drafts) :
        x = Event("analysis.submitted", 0, "VERIFIED", {"file.identity"} \cap RulesOf(drafts))
  BY DEF SubmittedEvents
<1>4. \A x \in SubmittedEvents(o, drafts) :
        x.rules \subseteq RulesOf(drafts) /\ x.type \in Ours
  BY <1>3, EventFields DEF Ours
<1>5. QED  BY <1>2, <1>4

\* A capture time that has a record is on the timeline.
LEMMA CaptureIsDated ==
    ASSUME NEW o, NEW d \in Drafts(o), d.rule = "metadata.captured", NEW drafts, Sole(drafts)
    PROVE  \E x \in BuildTimeline(o, drafts) :
               x.type = "metadata.captured" /\ x.time = o.metadata.captured
<1> DEFINE m == o.metadata
<1>1. d \in MetadataRules(o)  BY OriginsOfDrafts DEF MetadataNames
<1>2. m # None
  BY <1>1, RulesOfDrafts DEF MetadataRules
<1>3. m.captured # Absent
  <2> DEFINE refs == {Step("metadata"), Row("image_metadata")} \cup CallRefs(o, "metadata")
             declared(level, x) ==
                 [Draft("metadata.source-type", level, "signal", refs) EXCEPT !.algorithmic = x]
  <2>1. \A level, x : declared(level, x).rule = "metadata.source-type"  BY DEF Draft
  <2>2. \A e \in DeclarationRules(m, refs) :
          \/ \E rule \in {"metadata.edit-history", "metadata.gps", "metadata.none"} :
                \E level, kind : e = Draft(rule, level, kind, refs) \/ e = Unknown(rule, refs)
          \/ \E level, x : e = declared(level, x)
    BY DEF DeclarationRules, When
  <2> HIDE DEF declared
  <2>3. \A e \in DeclarationRules(m, refs) : e.rule # "metadata.captured"
    BY <2>1, <2>2, RulesOfDrafts
  <2>4. \/ m.captured # Absent
        \/ \E rule \in {"metadata.software", "metadata.camera", "metadata.generator"} :
               \E level : d = Draft(rule, level, "signal", refs)
        \/ d \in DeclarationRules(m, refs)
    BY <1>1, <1>2 DEF MetadataRules, When
  <2>5. QED  BY <2>3, <2>4, RulesOfDrafts
<1>4. Linked("metadata.captured", m.captured, "metadata.captured", drafts)
        \subseteq MetadataEvents(o, drafts)
  <2> DEFINE triple == <<"metadata.captured", m.captured, "metadata.captured">>
             recorded == {triple, <<"metadata.modified", m.modified, "metadata.modified">>,
                          <<"metadata.gps_time", m.gpsTime, "metadata.gps">>}
             dated == {r \in recorded : r[2] # Absent}
             edits == UNION {Linked("metadata.edit", time, "metadata.edit-history", drafts) :
                                time \in m.edits}
  <2>1. MetadataEvents(o, drafts) =
            edits \cup UNION {Linked(e[1], e[2], e[3], drafts) : e \in dated}
    BY DEF MetadataEvents
  <2>2. /\ triple[1] = "metadata.captured" /\ triple[2] = m.captured
        /\ triple[3] = "metadata.captured"
    OBVIOUS
  <2>3. triple \in recorded  OBVIOUS
  <2> HIDE DEF triple, recorded, edits
  <2>4. triple \in dated  BY <1>3, <2>2, <2>3
  <2> HIDE DEF dated
  <2>5. Linked(triple[1], triple[2], triple[3], drafts)
            \subseteq UNION {Linked(e[1], e[2], e[3], drafts) : e \in dated}
    BY <2>4
  <2>6. QED  BY <2>1, <2>2, <2>5
<1>5. MetadataEvents(o, drafts) \subseteq BuildTimeline(o, drafts)
  BY <1>2 DEF BuildTimeline
<1>6. PICK x \in Linked("metadata.captured", m.captured, "metadata.captured", drafts) :
          x.type = "metadata.captured" /\ x.time = m.captured
  BY LinkedPoints
<1>7. QED  BY <1>4, <1>5, <1>6

\* One event is later than another by more than the clocks may differ.
Follows(T, earlier, later) ==
    \E a, b \in T : /\ a.type = earlier /\ b.type = later
                    /\ Parsed(a.time) /\ Parsed(b.time) /\ b.time - a.time > Tolerance

\* A conflict of two times has both of them on the timeline, in conflict.
LEMMA ConflictingTimesAreDated ==
    ASSUME NEW o
    PROVE  LET E == BuildEvidence(o)
               T == BuildTimeline(o, E)
           IN  /\ "conflict.capture-after-signing" \in RulesOf(E) =>
                     /\ {"provenance.valid", "metadata.captured"} \subseteq RulesOf(E)
                     /\ Follows(T, "provenance.signed", "metadata.captured")
               /\ "conflict.published-before-capture" \in RulesOf(E) =>
                     /\ {"sources.matches", "metadata.captured"} \subseteq RulesOf(E)
                     /\ Follows(T, "source.published", "metadata.captured")
<1> DEFINE E == BuildEvidence(o)
           T == BuildTimeline(o, E)
           L == Leveled(o)
           C == ConflictRules(L, o)
           late == "conflict.capture-after-signing"
           early == "conflict.published-before-capture"
           captured == o.metadata.captured
           signed == o.provenance.signedAt
<1>1. E = L \cup C /\ Sole(E)  BY EvidenceSplits
<1>2. \A d \in L : \E a \in Drafts(o) : a.rule = d.rule
  BY OverriddenIsSound DEF Leveled, ApplyOverrides
<1>3. \A d \in L : d.rule \notin ConflictNames
  BY <1>2, DraftsAreSound DEF RulesOf
<1>4. \A rule, pairs : \A c \in Against(rule, pairs) : c.rule = rule /\ \E p : p \in pairs
  <2> TAKE rule, pairs
  <2> TAKE c \in Against(rule, pairs)
  <2>1. PICK p \in pairs : c = Between(rule, p[1], p[2])  BY DEF Against
  <2>2. c.rule = rule  BY <2>1, ConflictFields DEF Between
  <2>3. QED  BY <2>1, <2>2
<1>5. \A c \in ManifestOrderConflict(L, o) : c.rule = "conflict.manifest-order"
  BY ManifestOrderIsFair DEF Lone
<1>6. ASSUME late \in RulesOf(E)
      PROVE  /\ {"provenance.valid", "metadata.captured"} \subseteq RulesOf(E)
             /\ Follows(T, "provenance.signed", "metadata.captured")
  <2>1. PICK c \in C : c.rule = late
    BY <1>1, <1>3, <1>6 DEF RulesOf, ConflictNames
  <2>2. c \in CaptureAfterSigning(L, o)
    BY <1>4, <1>5, <2>1 DEF ConflictRules, PublishedBeforeCapture, SourceTypeConflict,
                            OpposingSignals
  <2>3. PICK p \in Pairs(L, "provenance.valid", "metadata.captured") :
          Parsed(captured) /\ Parsed(signed) /\ captured - signed > Tolerance
    BY <1>4, <2>2 DEF CaptureAfterSigning
  <2>4. p[1] \in L /\ p[1].rule = "provenance.valid" /\ p[2] \in L /\ p[2].rule = "metadata.captured"
    BY <2>3 DEF Pairs
  <2>5. PICK x \in T : x.type = "metadata.captured" /\ x.time = captured
    BY <1>1, <1>2, <2>4, CaptureIsDated
  <2>6. o.provenance # None  BY <1>2, <2>4, OneVerdict
  <2> DEFINE y == Event("provenance.signed", signed, p[1].level, {p[1].rule})
  <2>7. signed # Absent  BY <2>3 DEF Parsed, Absent
  <2>8. p[1] \in Named(E, {"provenance.valid", "provenance.invalid"})
    BY <1>1, <2>4 DEF Named
  <2>9. y \in ProvenanceEvents(o, E)
    <3> DEFINE pair == <<"provenance.signed", signed>>
               recorded == UNION {{pair}, {"provenance.action"} \X o.provenance.actions,
                                  {"provenance.ingredient-signed"} \X o.provenance.chain}
               dated == {r \in recorded : r[2] # Absent}
               heads == Named(E, {"provenance.valid", "provenance.invalid"})
               events(head) == {Event(e[1], e[2], head.level, {head.rule}) : e \in dated}
    <3>1. ProvenanceEvents(o, E) = UNION {events(d) : d \in heads}
      BY DEF ProvenanceEvents
    <3>2. pair[1] = "provenance.signed" /\ pair[2] = signed  OBVIOUS
    <3>3. pair \in recorded  OBVIOUS
    <3> HIDE DEF pair, recorded
    <3>4. pair \in dated  BY <2>7, <3>2, <3>3
    <3> HIDE DEF dated
    <3>5. Event(pair[1], pair[2], p[1].level, {p[1].rule}) \in events(p[1])  BY <3>4
    <3>6. y \in events(p[1])  BY <3>2, <3>5
    <3> HIDE DEF events, heads, y
    <3>7. p[1] \in heads  BY <2>8 DEF heads
    <3>8. QED  BY <3>1, <3>6, <3>7
  <2>10. y \in T  BY <2>6, <2>9 DEF BuildTimeline
  <2>11. y.type = "provenance.signed" /\ y.time = signed  BY EventFields
  <2>12. {"provenance.valid", "metadata.captured"} \subseteq RulesOf(E)
    BY <1>1, <2>4 DEF RulesOf
  <2> HIDE DEF y, T, E
  <2>13. QED  BY <2>3, <2>5, <2>10, <2>11, <2>12 DEF Follows
<1>7. ASSUME early \in RulesOf(E)
      PROVE  /\ {"sources.matches", "metadata.captured"} \subseteq RulesOf(E)
             /\ Follows(T, "source.published", "metadata.captured")
  <2>1. PICK c \in C : c.rule = early
    BY <1>1, <1>3, <1>7 DEF RulesOf, ConflictNames
  <2>2. c \in PublishedBeforeCapture(L, o)
    BY <1>4, <1>5, <2>1 DEF ConflictRules, CaptureAfterSigning, SourceTypeConflict,
                            OpposingSignals
  <2>3. PICK p \in Pairs(L, "sources.matches", "metadata.captured") :
          /\ Parsed(captured)
          /\ \E time \in o.search.published : Parsed(time) /\ captured - time > Tolerance
    BY <1>4, <2>2 DEF PublishedBeforeCapture
  <2>4. PICK time \in o.search.published : Parsed(time) /\ captured - time > Tolerance
    BY <2>3
  <2>5. p[1] \in L /\ p[1].rule = "sources.matches" /\ p[2] \in L /\ p[2].rule = "metadata.captured"
    BY <2>3 DEF Pairs
  <2>6. PICK x \in T : x.type = "metadata.captured" /\ x.time = captured
    BY <1>1, <1>2, <2>5, CaptureIsDated
  <2> DEFINE y == Event("source.published", time, "POSSIBLE", {"sources.matches"})
  <2>7. time # Absent  BY <2>4 DEF Parsed, Absent
  <2>8. Named(E, {"sources.matches"}) # {}  BY <1>1, <2>5 DEF Named
  <2>9. y \in SourceEvents(o, E)  BY <2>4, <2>7, <2>8 DEF SourceEvents
  <2>10. y \in T  BY <2>9 DEF BuildTimeline
  <2>11. y.type = "source.published" /\ y.time = time  BY EventFields
  <2>12. {"sources.matches", "metadata.captured"} \subseteq RulesOf(E)
    BY <1>1, <2>5 DEF RulesOf
  <2> HIDE DEF y, T, E
  <2>13. QED  BY <2>3, <2>4, <2>6, <2>10, <2>11, <2>12 DEF Follows
<1>8. QED  BY <1>6, <1>7

\* Each of the times that can contradict another comes from one place in the rows.
LEMMA EventTimes ==
    ASSUME NEW o, NEW drafts, Sole(drafts), NEW x \in BuildTimeline(o, drafts)
    PROVE  /\ x.type = "provenance.signed" => x.time = o.provenance.signedAt
           /\ x.type = "metadata.captured" => x.time = o.metadata.captured
           /\ x.type = "source.published" => x.time \in o.search.published
<1> DEFINE Placed == /\ x.type = "provenance.signed" => x.time = o.provenance.signedAt
                     /\ x.type = "metadata.captured" => x.time = o.metadata.captured
                     /\ x.type = "source.published" => x.time \in o.search.published
<1>1. CASE x \in ProvenanceEvents(o, drafts)
  <2> DEFINE recorded == UNION {{<<"provenance.signed", o.provenance.signedAt>>},
                                {"provenance.action"} \X o.provenance.actions,
                                {"provenance.ingredient-signed"} \X o.provenance.chain}
             heads == Named(drafts, {"provenance.valid", "provenance.invalid"})
             dated == {e \in recorded : e[2] # Absent}
             events(head) == {Event(e[1], e[2], head.level, {head.rule}) : e \in dated}
  <2>0. ProvenanceEvents(o, drafts) = UNION {events(d) : d \in heads}  BY DEF ProvenanceEvents
  <2>1. PICK e \in recorded : \E level, rules : x = Event(e[1], e[2], level, rules)
    <3> HIDE DEF heads, recorded
    <3>1. PICK d \in heads : x \in events(d)
      <4> HIDE DEF events
      <4>1. QED  BY <1>1, <2>0
    <3>2. QED  BY <3>1
  <2>2. x.type = e[1] /\ x.time = e[2]  BY <2>1, EventFields
  <2>3. \/ e[1] = "provenance.signed" /\ e[2] = o.provenance.signedAt
        \/ e[1] \in {"provenance.action", "provenance.ingredient-signed"}
    BY <2>1
  <2>4. QED  BY <2>2, <2>3
<1>2. CASE x \in MetadataEvents(o, drafts)
  <2> DEFINE m == o.metadata
             recorded == {<<"metadata.captured", m.captured, "metadata.captured">>,
                          <<"metadata.modified", m.modified, "metadata.modified">>,
                          <<"metadata.gps_time", m.gpsTime, "metadata.gps">>}
             dated == {r \in recorded : r[2] # Absent}
             of(e) == Linked(e[1], e[2], e[3], drafts)
             edit(time) == Linked("metadata.edit", time, "metadata.edit-history", drafts)
  <2>1. MetadataEvents(o, drafts) =
            (UNION {edit(time) : time \in m.edits}) \cup UNION {of(e) : e \in dated}
    BY DEF MetadataEvents
  <2>2. \A time : x \in edit(time) => x.type = "metadata.edit"  BY LinkedPoints
  <2>3. \A e : x \in of(e) => x.type = e[1] /\ x.time = e[2]  BY LinkedPoints
  <2>4. \A e \in dated : e[1] = "metadata.captured" => e[2] = m.captured  OBVIOUS
  <2>5. \A e \in dated : e[1] \in {"metadata.captured", "metadata.modified", "metadata.gps_time"}
    OBVIOUS
  <2> HIDE DEF dated, of, edit
  <2>6. \/ x.type = "metadata.edit"
        \/ \E e \in dated : x.type = e[1] /\ x.time = e[2]
    BY <1>2, <2>1, <2>2, <2>3
  <2>7. QED  BY <2>4, <2>5, <2>6
<1>3. CASE x \in SourceEvents(o, drafts)
  <2>1. \/ \E time \in o.search.published :
              x = Event("source.published", time, "POSSIBLE", {"sources.matches"})
        \/ x = Event("source.discovered", 0, "VERIFIED", {"sources.matches"})
    BY <1>3 DEF SourceEvents
  <2>2. QED  BY <2>1, EventFields
<1>4. CASE x \in SubmittedEvents(o, drafts)
  <2>1. x = Event("analysis.submitted", 0, "VERIFIED", {"file.identity"} \cap RulesOf(drafts))
    BY <1>4 DEF SubmittedEvents
  <2>2. x.type = "analysis.submitted"  BY <2>1, EventFields
  <2>3. QED  BY <2>2
<1>5. QED  BY <1>1, <1>2, <1>3, <1>4 DEF BuildTimeline

\* Two times that contradict each other on the timeline are a conflict on record.
LEMMA DatedTimesConflict ==
    ASSUME NEW o
    PROVE  LET E == BuildEvidence(o)
               T == BuildTimeline(o, E)
           IN  /\ {"provenance.valid", "metadata.captured"} \subseteq RulesOf(E) =>
                     (Follows(T, "provenance.signed", "metadata.captured") =>
                        "conflict.capture-after-signing" \in RulesOf(E))
               /\ {"sources.matches", "metadata.captured"} \subseteq RulesOf(E) =>
                     (Follows(T, "source.published", "metadata.captured") =>
                        "conflict.published-before-capture" \in RulesOf(E))
<1> DEFINE E == BuildEvidence(o)
           T == BuildTimeline(o, E)
           L == Leveled(o)
           C == ConflictRules(L, o)
           captured == o.metadata.captured
           signed == o.provenance.signedAt
<1>1. E = L \cup C /\ Sole(E)  BY EvidenceSplits
<1>2. \A c \in C : c.rule \in ConflictNames  BY ConflictsAreFair
<1>3. ASSUME NEW first, NEW second, {first, second} \subseteq RulesOf(E),
             {first, second} \cap ConflictNames = {}
      PROVE  \E p \in Pairs(L, first, second) : TRUE
  <2>1. PICK a \in L : a.rule = first  BY <1>1, <1>2, <1>3 DEF RulesOf
  <2>2. PICK b \in L : b.rule = second  BY <1>1, <1>2, <1>3 DEF RulesOf
  <2>3. <<a, b>> \in Pairs(L, first, second)  BY <2>1, <2>2 DEF Pairs
  <2>4. QED  BY <2>3
<1>4. \A rule, pairs : \A p \in pairs :
          \E c \in Against(rule, pairs) : c.rule = rule
  <2> TAKE rule, pairs
  <2> TAKE p \in pairs
  <2>1. Between(rule, p[1], p[2]) \in Against(rule, pairs)  BY DEF Against
  <2>2. Between(rule, p[1], p[2]).rule = rule  BY ConflictFields DEF Between
  <2>3. QED  BY <2>1, <2>2
<1>5. ASSUME {"provenance.valid", "metadata.captured"} \subseteq RulesOf(E),
             Follows(T, "provenance.signed", "metadata.captured")
      PROVE  "conflict.capture-after-signing" \in RulesOf(E)
  <2>1. Parsed(signed) /\ Parsed(captured) /\ captured - signed > Tolerance
    BY <1>1, <1>5, EventTimes DEF Follows
  <2>2. PICK p \in Pairs(L, "provenance.valid", "metadata.captured") : TRUE
    BY <1>3, <1>5 DEF ConflictNames
  <2>3. PICK c \in CaptureAfterSigning(L, o) : c.rule = "conflict.capture-after-signing"
    BY <1>4, <2>1, <2>2 DEF CaptureAfterSigning
  <2>4. c \in E  BY <1>1, <2>3 DEF ConflictRules
  <2>5. QED  BY <2>3, <2>4 DEF RulesOf
<1>6. ASSUME {"sources.matches", "metadata.captured"} \subseteq RulesOf(E),
             Follows(T, "source.published", "metadata.captured")
      PROVE  "conflict.published-before-capture" \in RulesOf(E)
  <2>1. PICK time \in o.search.published :
          Parsed(time) /\ Parsed(captured) /\ captured - time > Tolerance
    BY <1>1, <1>6, EventTimes DEF Follows
  <2>2. PICK p \in Pairs(L, "sources.matches", "metadata.captured") : TRUE
    BY <1>3, <1>6 DEF ConflictNames
  <2>3. PICK c \in PublishedBeforeCapture(L, o) : c.rule = "conflict.published-before-capture"
    BY <1>4, <2>1, <2>2 DEF PublishedBeforeCapture
  <2>4. c \in E  BY <1>1, <2>3 DEF ConflictRules
  <2>5. QED  BY <2>3, <2>4 DEF RulesOf
<1>7. QED  BY <1>5, <1>6

\* The file, the capture time and the matches have an event when they have a record.
LEMMA RecordsAreDated ==
    ASSUME NEW o
    PROVE  LET E == BuildEvidence(o)
               happens(type) == \E x \in BuildTimeline(o, E) : x.type = type
           IN  /\ "file.identity" \in RulesOf(E) => happens("analysis.submitted")
               /\ "metadata.captured" \in RulesOf(E) => happens("metadata.captured")
               /\ "sources.matches" \in RulesOf(E) => happens("source.discovered")
<1> DEFINE E == BuildEvidence(o)
           T == BuildTimeline(o, E)
           L == Leveled(o)
           C == ConflictRules(L, o)
<1>1. E = L \cup C /\ Sole(E)  BY EvidenceSplits
<1>2. \A c \in C : c.rule \in ConflictNames  BY ConflictsAreFair
<1>3. \A d \in L : \E a \in Drafts(o) : a.rule = d.rule
  BY OverriddenIsSound DEF Leveled, ApplyOverrides
<1>4. \A rule \in RulesOf(E) \ ConflictNames : \E a \in Drafts(o) : a.rule = rule
  BY <1>1, <1>2, <1>3 DEF RulesOf
<1>5. ASSUME "file.identity" \in RulesOf(E)
      PROVE  \E x \in T : x.type = "analysis.submitted"
  <2>1. PICK d \in Drafts(o) : d.rule = "file.identity"  BY <1>4, <1>5 DEF ConflictNames
  <2>2. d \in FileRules(o)  BY <2>1, OriginsOfDrafts DEF FileNames
  <2>3. o.file  BY <2>2 DEF FileRules, When
  <2>4. PICK x \in SubmittedEvents(o, E) : x.type = "analysis.submitted"
    BY <2>3, EventFields DEF SubmittedEvents
  <2>5. QED  BY <2>4 DEF BuildTimeline
<1>6. ASSUME "metadata.captured" \in RulesOf(E)
      PROVE  \E x \in T : x.type = "metadata.captured"
  BY <1>1, <1>4, <1>6, CaptureIsDated DEF ConflictNames
<1>7. ASSUME "sources.matches" \in RulesOf(E)
      PROVE  \E x \in T : x.type = "source.discovered"
  <2>1. Named(E, {"sources.matches"}) # {}  BY <1>7 DEF Named, RulesOf
  <2>2. PICK x \in SourceEvents(o, E) : x.type = "source.discovered"
    BY <2>1, EventFields DEF SourceEvents
  <2>3. QED  BY <2>2 DEF BuildTimeline
<1>8. QED  BY <1>5, <1>6, <1>7

\* Every event of a timeline points at records of its evidence, and those of the
\* rows have their certainty.
LEMMA EventsPoint ==
    ASSUME NEW o
    PROVE  LET E == BuildEvidence(o)
           IN  \A x \in BuildTimeline(o, E) :
                   /\ x.rules \subseteq RulesOf(E)
                   /\ x.type \notin Ours => \A d \in Named(E, x.rules) : d.level = x.certainty
<1> DEFINE E == BuildEvidence(o)
<1>1. Sole(E)  BY EvidenceSplits
<1>2. BuildTimeline(o, E) \subseteq ProvenanceEvents(o, E) \cup MetadataEvents(o, E)
                                    \cup SourceEvents(o, E) \cup SubmittedEvents(o, E)
  BY DEF BuildTimeline
<1> HIDE DEF E
<1>3. \A x \in ProvenanceEvents(o, E) \cup MetadataEvents(o, E) : Pointing(x, E)
  BY <1>1, ProvenanceEventsPoint, MetadataEventsPoint
<1>4. \A x \in SourceEvents(o, E) \cup SubmittedEvents(o, E) :
        x.rules \subseteq RulesOf(E) /\ x.type \in Ours
  BY OurEventsPoint
<1>5. \A x \in BuildTimeline(o, E) :
        /\ x.rules \subseteq RulesOf(E)
        /\ x.type \notin Ours => \A d \in Named(E, x.rules) : d.level = x.certainty
  BY <1>2, <1>3, <1>4 DEF Pointing
<1>6. QED  BY <1>5 DEF E

-----------------------------------------------------------------------------
(* What a finding rests on *)

\* A record above UNKNOWN refers only to steps that have observed something.
LEMMA FindingsSpeak ==
    ASSUME NEW o, NEW d \in BuildEvidence(o), d.level # "UNKNOWN"
    PROVE  \A s : Step(s) \in d.refs => Speaks(o, s)
<1>1. d \in Leveled(o)
  <2>1. \A c \in ConflictRules(Leveled(o), o) : c.level = "UNKNOWN"
    BY ConflictsAreFair DEF Fair
  <2>2. QED  BY <2>1, EvidenceSplits
<1>2. PICK a \in Drafts(o) : d = Overridden(a)  BY <1>1 DEF Leveled, ApplyOverrides
<1>3. QED  BY <1>2, OverriddenIsSound
=============================================================================
