---------------------------- MODULE AnalysisSteps ----------------------------
(***************************************************************************)
(* What the steps of the two pipelines do, in order, to the rows of one    *)
(* analysis: which of them a step writes before it can still fail, what it *)
(* hands on in memory, which provider calls it leaves on record, and what  *)
(* the evidence, the timeline and the synthesis say in the end.  Commits,  *)
(* crashes and deletions between the steps are the module Pipeline's.      *)
(*                                                                         *)
(* A world is what the outside does to one run: what each engine may have  *)
(* found or measured, whether the store takes a file, which steps may      *)
(* crash.                                                                  *)
(***************************************************************************)
EXTENDS Timeline, ForensicMethods, MetadataReading, ProvenanceReading, TextReading

CONSTANTS Worlds    \* a sequence of worlds; every run happens in one of them

\* A detector's score, when it gives one, and those of the languages a text may be in
\* are probabilities.
ASSUME ProbabilitiesAssumption ==
    \A w \in DOMAIN Worlds :
        /\ \A answer \in Worlds[w].ai : answer.outcome \notin {"skipped", "error"} =>
              answer.row.score \in {NoNumber} \cup 0 .. 100
        /\ Worlds[w].type # "image" => Worlds[w].text.candidates \subseteq 0 .. 100

VARIABLES world,      \* index of the world, fixed
          at,         \* the runner's loop position
          records,    \* analysis_steps.status; "unmet" is failed for want of its input
          stopped,    \* the critical step that failed, "" while none has
          published,  \* ctx.artifacts
          rows,       \* the rows of the analysis, as an observation of EvidenceEngine
          evidence,   \* evidence rows
          timeline,   \* timeline_events rows
          synthesis   \* the syntheses row, None when there is none

vars == <<world, at, records, stopped, published, rows, evidence, timeline, synthesis>>
results == <<evidence, timeline, synthesis>>

ImageSteps == <<"validate", "hashing", "metadata", "provenance", "ela", "compression",
                "double_compression", "thumbnail", "c2pa_thumbnail", "resampling", "noise",
                "copy_move", "ai", "search", "evidence", "synthesis">>
TextSteps == <<"normalize", "language", "statistics", "fingerprints", "ai", "search",
               "evidence", "synthesis">>
Methods == {"ela", "compression", "double_compression", "thumbnail", "c2pa_thumbnail",
            "resampling", "noise", "copy_move"}

CriticalHashes == {"hashing", "statistics", "fingerprints"}                    \* mutant
Critical == {"validate", "hashing", "normalize", "statistics", "fingerprints"}

W == Worlds[world]
Order == IF W.type = "image" THEN ImageSteps ELSE TextSteps
Positions == 1 .. Len(Order)

\* What a step takes from ctx.artifacts; evidence and synthesis read the rows.
Input(step) ==
    IF step \in {"validate", "normalize", "evidence", "synthesis"} THEN {}
    ELSE IF W.type = "image" THEN {"image"}
    ELSE IF step \in {"ai", "search"} THEN {"text"}
    ELSE {"text_row"}

NoRows(type, file) ==
    [type |-> type, file |-> file, provenance |-> None, metadata |-> None,
     fingerprints |-> FALSE, similar |-> {}, forensics |-> None, text |-> None,
     ai |-> None, search |-> None, calls |-> {}]
NoColumns == [m \in Methods |-> "none"]

Init ==
    /\ world \in DOMAIN Worlds
    /\ at = 1
    /\ records = [i \in Positions |-> "pending"]
    /\ stopped = ""
    /\ published = {}
    /\ rows = NoRows(W.type, W.file)
    /\ evidence = {}
    /\ timeline = {}
    /\ synthesis = None

-----------------------------------------------------------------------------
(* The runner *)

Turn(step) == at \in Positions /\ Order[at] = step /\ stopped = ""

Settle(status) ==
    /\ records' = [records EXCEPT ![at] = status]
    /\ at' = at + 1
    /\ stopped' = IF stopped = "" /\ status \in {"failed", "unmet"} /\ Order[at] \in Critical
                  THEN Order[at] ELSE stopped

\* A step that finds its input writes its rows, publishes and settles; one that
\* does not fails with NO_VERIFIED_IMAGE or NO_NORMALIZED_TEXT.
Finish(step, status, written, artifacts) ==
    LET supplied == Input(step) \subseteq published
    IN  /\ Turn(step)
        /\ Settle(IF supplied THEN status ELSE "unmet")
        /\ rows' = IF supplied THEN written ELSE rows
        /\ published' = IF supplied THEN published \cup artifacts ELSE published
        /\ UNCHANGED <<world, results>>

SkipPastEnd ==                                                              \* mutant
    /\ stopped # ""
    /\ Settle("skipped")
    /\ UNCHANGED <<world, published, rows, results>>

\* After a critical failure the remaining steps are recorded without running.
SkipRest ==
    /\ at \in Positions
    /\ stopped # ""
    /\ Settle("skipped")
    /\ UNCHANGED <<world, published, rows, results>>

\* An exception nobody expected, before the step has written anything.
StepCrashes ==
    \E step \in W.crashes :
        /\ step \notin {"evidence", "synthesis"}
        /\ Finish(step, "failed", rows, {})

-----------------------------------------------------------------------------
(* Image: file, hashes, metadata, provenance *)

\* The stored object must be there, match its record and pass the upload checks.
Validate ==
    \E intact \in W.intact :
        IF rows.file /\ intact THEN Finish("validate", "completed", rows, {"image"})
        ELSE Finish("validate", "failed", rows, {})

Hash == Finish("hashing", "completed", [rows EXCEPT !.fingerprints = TRUE], {"hashes"})

\* An engine failure is a recorded call and no row.
ExtractMetadata ==
    \E answer \in W.metadata :
        LET failed == answer.outcome = "error"
        IN  Finish("metadata", IF failed THEN "failed" ELSE "completed",
                   [rows EXCEPT !.metadata = IF failed THEN @ ELSE NormalizeMetadata(answer.row),
                                !.calls = @ \cup {Call("metadata")}],
                   IF failed THEN {} ELSE {"metadata"})

\* The claim thumbnail is handed on in memory only.
InspectProvenance ==
    \E answer \in W.provenance :
        LET failed == answer.outcome = "error"
        IN  Finish("provenance", IF failed THEN "failed" ELSE "completed",
                   [rows EXCEPT
                       !.provenance = IF failed THEN @ ELSE NormalizeProvenance(answer.row),
                       !.calls = @ \cup {Call("provenance")}],
                   IF failed THEN {}
                   ELSE {"provenance"} \cup (IF answer.row.present /\ answer.row.thumbnail
                                             THEN {"claim_thumbnail"} ELSE {}))

-----------------------------------------------------------------------------
(* Image: forensics *)

UpsertedAlone(method, verdict) ==                                           \* mutant
    [rows EXCEPT !.forensics = [NoColumns EXCEPT ![method] = verdict]]

Upserted(method, verdict) ==
    LET f == IF rows.forensics = None THEN NoColumns ELSE rows.forensics
    IN  [rows EXCEPT !.forensics = [f EXCEPT ![method] = verdict]]

NotApplicable(method) == Finish(method, "skipped", Upserted(method, "na"), {})
Measured(method, verdict) == Finish(method, "completed", Upserted(method, verdict), {method})

\* What a method says of the file, from what it measures there.
Verdict(method, x) ==
    CASE method = "ela" -> ElaVerdict(x, W.format)
      [] method = "compression" -> CompressionVerdict(x, W.format)
      [] method = "double_compression" -> DoubleCompressionVerdict(x, W.format)
      [] method = "thumbnail" -> ExifThumbnailVerdict(x, W.format)
      [] method = "c2pa_thumbnail" -> ThumbnailVerdict(x)
      [] method = "resampling" -> ResamplingVerdict(x)
      [] method = "noise" -> NoiseVerdict(x)
      [] OTHER -> CopyMoveVerdict(x)

Verdicts(method) == {Verdict(method, x) : x \in W.measures[method]}

\* ELA stores its picture first: without it there is no observation.
Ela ==
    \E verdict \in Verdicts("ela") :
        \/ verdict = "na" /\ NotApplicable("ela")
        \/ verdict # "na" /\ TRUE \in W.stored /\ Measured("ela", verdict)
        \/ verdict # "na" /\ FALSE \in W.stored /\ Finish("ela", "failed", rows, {})

\* Neither has a picture.
Plain(method) == \E verdict \in Verdicts(method) : Measured(method, verdict)

\* Every other method writes its column and then stores its pictures, if it has
\* measured anything: a step that fails there leaves its observation behind.
Pictured(method) ==
    \E verdict \in Verdicts(method) :
        \/ verdict = "na" /\ NotApplicable(method)
        \/ /\ verdict # "na"
           /\ verdict = "unmeasured" \/ TRUE \in W.stored
           /\ Measured(method, verdict)
        \/ /\ verdict \notin {"na", "unmeasured"}
           /\ FALSE \in W.stored
           /\ Finish(method, "failed", Upserted(method, verdict), {})

\* The signed thumbnail: the manifest of this run's provenance step, or nothing.
C2paThumbnail ==
    IF {"provenance", "claim_thumbnail"} \subseteq published
    THEN Pictured("c2pa_thumbnail")
    ELSE NotApplicable("c2pa_thumbnail")

-----------------------------------------------------------------------------
(* Text *)

\* The text row starts with no language and no statistics.
Normalize ==
    \E intact \in W.intact :
        IF rows.file /\ intact
        THEN Finish("normalize", "completed",
                    [rows EXCEPT !.text = [hidden |-> HiddenCharacters(W.text), repeated |-> 0,
                                           language |-> FALSE, confidence |-> 0]],
                    {"text", "text_row"})
        ELSE Finish("normalize", "failed", rows, {})

DetectLanguage ==
    LET guess == LanguageGuess(W.text)
    IN  Finish("language", IF guess.language THEN "completed" ELSE "skipped",
               [rows EXCEPT !.text.language = guess.language,
                            !.text.confidence = guess.confidence],
               {})

Statistics ==
    Finish("statistics", "completed",
           [rows EXCEPT !.text.repeated = RepeatedSentences(W.text)], {"text_statistics"})

Fingerprint ==
    Finish("fingerprints", "completed", [rows EXCEPT !.fingerprints = TRUE],
           {"text_fingerprints"})

-----------------------------------------------------------------------------
(* Providers *)

\* Unconfigured, over the budget or not for this kind of content: nothing is
\* written and nothing is called.
DetectAi ==
    \E answer \in W.ai :
        CASE answer.outcome = "skipped" -> Finish("ai", "skipped", rows, {})
          [] answer.outcome = "error" ->
                 Finish("ai", "failed", [rows EXCEPT !.calls = @ \cup {Call("ai")}], {})
          [] OTHER ->
                 Finish("ai", "completed",
                        [rows EXCEPT !.ai = answer.row, !.calls = @ \cup {Call("ai")}],
                        {"ai_detection"})

\* A text without a distinctive phrase is searched for without a call.
Searched ==
    IF W.type = "text" /\ DistinctivePhrases(W.text) = {} THEN rows
    ELSE [rows EXCEPT !.calls = @ \cup {Call("search")}]

SearchKeepsDiscarded ==                                                     \* mutant
    \E answer \in W.search :
        CASE answer.outcome = "skipped" -> Finish("search", "skipped", rows, {})
          [] answer.outcome = "error" /\ Searched # rows ->
                 Finish("search", "failed", Searched, {})
          [] answer.outcome = "discarded" ->
                 Finish("search", "skipped",
                        [Searched EXCEPT !.search = [published |-> {Absent}]], {})
          [] OTHER -> Finish("search", "completed", Searched, {"source_search"})

\* The budget is looked at after the search: "discarded" is an answer that was
\* thrown away, paid for or not.
SearchSources ==
    \E answer \in W.search :
        CASE answer.outcome = "skipped" -> Finish("search", "skipped", rows, {})
          [] answer.outcome = "error" /\ Searched # rows ->
                 Finish("search", "failed", Searched, {})
          [] answer.outcome = "discarded" -> Finish("search", "skipped", Searched, {})
          [] OTHER ->
                 Finish("search", "completed",
                        [Searched EXCEPT !.search = IF Searched = rows THEN [published |-> {}]
                                                    ELSE answer.row],
                        {"source_search"})

-----------------------------------------------------------------------------
(* Evidence, timeline, synthesis *)

\* Related analyses of the same user, as they are now.
Similar(others) ==
    IF W.type = "image" THEN SimilarImages(others) ELSE SimilarTexts(W.text, others)

\* The evidence is replaced, then the timeline; an exception between the two
\* leaves the first, and the step failed.
Conclude ==
    \E others \in W.others : \E whole \in {TRUE, "timeline" \notin W.crashes} :
        LET seen == [rows EXCEPT !.similar = IF rows.fingerprints THEN Similar(others) ELSE {}]
            drafts == BuildEvidence(seen)
        IN  /\ Turn("evidence")
            /\ rows' = seen
            /\ evidence' = drafts
            /\ timeline' = IF whole THEN BuildTimeline(seen, drafts) ELSE timeline
            /\ Settle(IF whole THEN "completed" ELSE "failed")
            /\ UNCHANGED <<world, published, synthesis>>

\* The step fails before it has replaced anything.
ConcludeFails ==
    /\ Turn("evidence")
    /\ "evidence" \in W.crashes
    /\ Settle("failed")
    /\ UNCHANGED <<world, published, rows, results>>

\* check_grounding.  A section: the rules of the records it cites (or strangers),
\* the levels it names, and whether it is long enough to make statements.  Advice
\* ("improve") needs no citation.
CitesAnything(key, section, records_) ==                                    \* mutant
    section.cites # {} \/ ~section.substantive \/ key = "improve"

Grounded(key, section, records_) ==
    \/ section.cites \cap RulesOf(records_) # {}
    \/ ~section.substantive
    \/ key = "improve"

Grounding(sections, records_) ==
    [grounded |-> \A key \in DOMAIN sections :
                      /\ Grounded(key, sections[key], records_)
                      /\ sections[key].levels \subseteq {d.level : d \in records_},
     cited |-> UNION {sections[key].cites \cap RulesOf(records_) : key \in DOMAIN sections},
     sections |-> sections,
     confidence |-> SynthesisConfidence(records_)]

\* Unconfigured, over the budget, or nothing to explain; a failed call; or prose
\* that is checked against the records that were sent.
Synthesize ==
    /\ Turn("synthesis")
    /\ \E answer \in W.llm :
        LET skipped == answer.outcome = "skipped" \/ evidence = {}
            failed == ~skipped /\ answer.outcome = "error"
        IN  /\ Settle(IF skipped THEN "skipped" ELSE IF failed THEN "failed" ELSE "completed")
            /\ rows' = IF skipped THEN rows
                       ELSE [rows EXCEPT !.calls = @ \cup {Call("llm")}]
            /\ synthesis' = IF skipped \/ failed THEN synthesis
                            ELSE Grounding(answer.sections, evidence)
    /\ UNCHANGED <<world, published, evidence, timeline>>

-----------------------------------------------------------------------------

Next ==
    \/ SkipRest
    \/ StepCrashes
    \/ Validate \/ Hash \/ ExtractMetadata \/ InspectProvenance
    \/ Ela
    \/ \E method \in {"compression", "resampling"} : Plain(method)
    \/ \E method \in {"double_compression", "thumbnail", "noise", "copy_move"} :
           Pictured(method)
    \/ C2paThumbnail
    \/ Normalize \/ DetectLanguage \/ Statistics \/ Fingerprint
    \/ DetectAi \/ SearchSources
    \/ Conclude \/ ConcludeFails
    \/ Synthesize

Spec == Init /\ [][Next]_vars
-----------------------------------------------------------------------------
(* Properties *)

Statuses == {"pending", "completed", "skipped", "failed", "unmet"}

TypeOK ==
    /\ world \in DOMAIN Worlds
    /\ at \in 1 .. Len(Order) + 1
    /\ records \in [Positions -> Statuses]
    /\ stopped \in Critical \cup {""}
    /\ rows.forensics = None \/ DOMAIN rows.forensics = Methods
    /\ \A d \in evidence : d.level \in Levels /\ d.kind \in Kinds

StatusOf(step) ==
    LET places == {i \in Positions : Order[i] = step}
    IN  IF places = {} THEN "pending" ELSE records[CHOOSE i \in places : TRUE]

\* No step ever runs without the artifact it takes from an earlier one: the steps
\* that publish are critical, and everything after a critical failure is skipped
\* (NO_VERIFIED_IMAGE and NO_NORMALIZED_TEXT are errors no analysis can show).
NoStepMissesItsInput == \A i \in Positions : records[i] # "unmet"

\* Methods that write their column before they store their pictures.
ObservedFirst == {"double_compression", "thumbnail", "c2pa_thumbnail", "noise", "copy_move"}

\* A record above UNKNOWN rests on steps that completed, or on a method that
\* measured and then failed to store its picture; what was skipped, or failed
\* before measuring, speaks only as UNKNOWN ("sections whose step did not run
\* show not available").  A language too uncertain to name leaves a skipped step
\* and the statistics.
FindingsRestOnSteps ==
    \A d \in evidence : d.level # "UNKNOWN" =>
        \A i \in Positions : Step(Order[i]) \in d.refs =>
            \/ records[i] = "completed"
            \/ records[i] = "failed" /\ Order[i] \in ObservedFirst

\* Each rule has at most one record, so the names in conflicts_with, in the
\* timeline and in ids_by_rule are unambiguous; every conflict is UNKNOWN, names
\* records that are still there, and leaves less confidence than there would be
\* without it ("never silently discard contradictory evidence"), unless the
\* settings make its penalty nothing.
ConflictsKeepBothSides ==
    LET conflicts == {d \in evidence : d.kind = "conflict"}
        plain == evidence \ conflicts
    IN  /\ Cardinality(RulesOf(evidence)) = Cardinality(evidence)
        /\ \A c \in conflicts :
              /\ c.level = "UNKNOWN"
              /\ c.sides # {} /\ c.sides \subseteq RulesOf(plain)
              /\ \A d \in Named(plain, c.sides) : d.refs \subseteq c.refs
        /\ ConflictPenalty > 0 /\ conflicts # {} /\ SynthesisConfidence(plain) > 0 =>
              SynthesisConfidence(evidence) < SynthesisConfidence(plain)

\* Correlated methods are one family: the STRONG record of several anomalies is
\* there exactly when the single records beside it come from enough families.
CorrelatedSignalsCountOnce ==
    LET families == {d.family : d \in evidence} \ {""}
    IN  ("forensics.multiple" \in RulesOf(evidence)) <=>
            Cardinality(families) >= FamiliesForStrong

\* Whatever the overrides say, no record is written above the ceiling docs/07
\* gives its rule, and a rule without one is never raised: a detector is never
\* STRONG, an absence never more than UNKNOWN.
LevelsWithinCeilings ==
    [][evidence' # evidence =>
          \A e \in evidence' : e.kind # "conflict" =>
              \E d \in Drafts(rows') :
                  d.rule = e.rule /\ LevelRank[e.level] <= LevelRank[Ceiling(d)]]_vars

\* An event of the manifest or of the metadata has the level of the record it
\* points at, and that record exists.  When the step has completed, what has a
\* record has its event, and two times contradict each other on the timeline
\* exactly when the conflict is on record, between the two records they belong to.
TimelineAgreesWithEvidence ==
    LET happens(type) == \E e \in timeline : e.type = type
        follows(earlier, later) ==
            \E a, b \in timeline : /\ a.type = earlier /\ b.type = later
                                   /\ Parsed(a.time) /\ Parsed(b.time)
                                   /\ b.time - a.time > Tolerance
        ours == {"source.published", "source.discovered", "analysis.submitted"}
        ruled == RulesOf(evidence)
    IN  /\ \A e \in timeline :
              /\ e.rules \subseteq ruled
              /\ e.type \notin ours =>
                    \A d \in Named(evidence, e.rules) : d.level = e.certainty
        /\ StatusOf("evidence") = "completed" =>
              /\ "file.identity" \in ruled => happens("analysis.submitted")
              /\ "metadata.captured" \in ruled => happens("metadata.captured")
              /\ "sources.matches" \in ruled => happens("source.discovered")
              /\ "conflict.capture-after-signing" \in ruled <=>
                    /\ {"provenance.valid", "metadata.captured"} \subseteq ruled
                    /\ follows("provenance.signed", "metadata.captured")
              /\ "conflict.published-before-capture" \in ruled <=>
                    /\ {"sources.matches", "metadata.captured"} \subseteq ruled
                    /\ follows("source.published", "metadata.captured")

\* Prose shown as grounded names no level that the stored records do not carry,
\* and every section of it that makes statements, advice apart, cites one of them.
GroundedMeansSupported ==
    synthesis # None =>
        /\ synthesis.cited \subseteq RulesOf(evidence)
        /\ synthesis.grounded =>
              \A key \in DOMAIN synthesis.sections :
                  LET section == synthesis.sections[key]
                  IN  /\ section.levels \subseteq {d.level : d \in evidence}
                      /\ section.substantive /\ key # "improve" =>
                            \E d \in evidence : d.rule \in section.cites

\* Each forensic method owns one column: no later step takes back what an earlier
\* one has measured.
ColumnsAreNotClobbered ==
    [][rows.forensics # None =>
          /\ rows'.forensics # None
          /\ \A m \in Methods : rows.forensics[m] # "none" =>
                 rows'.forensics[m] = rows.forensics[m]]_vars
=============================================================================
