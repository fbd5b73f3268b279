------------------------- MODULE AnalysisStepsProofs -------------------------
(***************************************************************************)
(* Theorems about the steps and what they leave, for every sequence of     *)
(* worlds and every table of overrides that the settings accept.           *)
(*                                                                         *)
(* Every step but the last two observes (Observes), which says all that    *)
(* the invariant needs of it, so the invariant is shown once for all of    *)
(* them.  It relates the loop position to what is published and to the     *)
(* columns still empty; what the rows say to the records of the steps that *)
(* said it; what the evidence refers to to those records; the timeline to  *)
(* the evidence; and the synthesis to both.  What the evidence and the     *)
(* timeline say of any rows is EvidenceProofs'.                            *)
(***************************************************************************)
EXTENDS AnalysisSteps, EvidenceProofs

-----------------------------------------------------------------------------
(* The order of the steps *)

Places == [validate |-> 1, hashing |-> 2, metadata |-> 3, provenance |-> 4, ela |-> 5,
           compression |-> 6, double_compression |-> 7, thumbnail |-> 8,
           c2pa_thumbnail |-> 9, resampling |-> 10, noise |-> 11, copy_move |-> 12, ai |-> 13,
           search |-> 14, evidence |-> 15, synthesis |-> 16]
TextPlaces == [normalize |-> 1, language |-> 2, statistics |-> 3, fingerprints |-> 4, ai |-> 5,
               search |-> 6, evidence |-> 7, synthesis |-> 8]

LEMMA PlacesOfSteps ==
    /\ Len(ImageSteps) = 16 /\ \A i \in 1 .. 16 : Places[ImageSteps[i]] = i
    /\ Len(TextSteps) = 8 /\ \A i \in 1 .. 8 : TextPlaces[TextSteps[i]] = i
  BY DEF ImageSteps, TextSteps, Places, TextPlaces

\* What the first step publishes if it succeeds.
Source == IF W.type = "image" THEN {"image"} ELSE {"text", "text_row"}
First == IF W.type = "image" THEN "validate" ELSE "normalize"

LEMMA OrderOfSteps ==
    /\ Len(Order) \in Nat /\ 1 \in Positions /\ Len(Order) \in Positions
    /\ Order[1] = First /\ First \in Critical /\ Input(First) = {}
    /\ \A i, j \in Positions : Order[i] = Order[j] => i = j
    /\ \A i \in Positions : Order[i] = "synthesis" <=> i = Len(Order)
<1>1. CASE W.type = "image"
  BY <1>1, PlacesOfSteps DEF Order, Positions, First, Critical, Input, ImageSteps
<1>2. CASE W.type # "image"
  BY <1>2, PlacesOfSteps DEF Order, Positions, First, Critical, Input, TextSteps
<1>3. QED  BY <1>1, <1>2

LEMMA LengthOfOrder ==
    /\ Len(Order) \in Nat
    /\ \A i : i \in Positions <=> (i \in Nat /\ 1 <= i /\ i <= Len(Order))
  BY PlacesOfSteps DEF Order, Positions

\* The loop position of a step that has its turn.
LEMMA PlaceOfTurn ==
    ASSUME NEW i, i \in Positions
    PROVE  /\ i + 1 \in 1 .. Len(Order) + 1 /\ i + 1 > 1
           /\ i > 1 <=> i # 1
<1> DEFINE n == Len(Order)
<1>1. i \in Nat /\ n \in Nat /\ 1 <= i /\ i <= n  BY LengthOfOrder
<1> HIDE DEF n
<1>2. i + 1 \in 1 .. n + 1 /\ i + 1 > 1 /\ (i > 1 <=> i # 1)  BY <1>1
<1>3. QED  BY <1>2 DEF n

LEMMA InputsAreSources == \A step : Input(step) \subseteq Source
  BY DEF Input, Source

-----------------------------------------------------------------------------
(* What the steps have in common *)

Column(m) == IF rows.forensics = None THEN "none" ELSE rows.forensics[m]

\* No critical step has failed.
Going == stopped = ""

RunInv ==
    /\ world \in DOMAIN Worlds
    /\ at \in 1 .. Len(Order) + 1
    /\ records \in [Positions -> Statuses \ {"unmet"}]
    /\ stopped \in Critical \cup {""}
    /\ at > 1 /\ Going => Source \subseteq published

\* The rows the rules read, and what DetectLanguage writes to.
Whole(o) ==
    /\ {"provenance", "metadata", "forensics", "text", "ai", "search"} \subseteq DOMAIN o
    /\ o.text = None \/ {"language", "confidence"} \subseteq DOMAIN o.text

RowsInv ==
    /\ Whole(rows)
    /\ rows.forensics = None \/ DOMAIN rows.forensics = Methods
    /\ \A i \in Positions : i >= at /\ Order[i] \in Methods => Column(Order[i]) = "none"

\* The first step of a pipeline succeeds only with its source in hand, a critical
\* one is never skipped, and only the inspection hands on a manifest.
Supplies(step, status, artifacts) ==
    /\ step \notin {"evidence", "synthesis"}
    /\ status \in {"completed", "failed", "skipped"}
    /\ step = First /\ status # "failed" => Source \subseteq artifacts
    /\ step \in Critical => status # "skipped"
    /\ "provenance" \in artifacts => step = "provenance" /\ status = "completed"

Keeps(step, written) ==
    /\ Whole(written)
    /\ \/ written.forensics = rows.forensics
       \/ step \in Methods /\ \E verdict : written = Upserted(step, verdict)

\* The step has observed something, whatever it failed at afterwards.
Backs(step, status) ==
    status = "completed" \/ (status = "failed" /\ step \in ObservedFirst)

\* What the rows say afterwards that they did not say before is what the step has
\* observed, or what the signed thumbnail shows of a manifest that was handed on;
\* and nothing in them is out of range.
Learns(step, status, written) ==
    /\ \A s : Speaks(written, s) =>
           \/ Speaks(rows, s)
           \/ s = step /\ Backs(step, status)
           \/ s = "provenance" /\ "provenance" \in published
    /\ Plausible(rows) => Plausible(written)
    /\ Readable(rows) => Readable(written)

Observes ==
    \E step, status, written, artifacts :
        /\ Finish(step, status, written, artifacts)
        /\ Supplies(step, status, artifacts)
        /\ Keeps(step, written)
        /\ Learns(step, status, written)

\* Rows that say the same.
Same(o, written) ==
    /\ written.forensics = o.forensics /\ written.provenance = o.provenance
    /\ written.metadata = o.metadata /\ written.text = o.text
    /\ written.ai = o.ai /\ written.search = o.search

LEMMA SameSpeaks ==
    ASSUME NEW o, NEW written, Same(o, written)
    PROVE  /\ \A s : Speaks(written, s) <=> Speaks(o, s)
           /\ Plausible(written) <=> Plausible(o)
           /\ Readable(written) <=> Readable(o)
  BY DEF Same, Speaks, Plausible, Readable

LEMMA SameKeeps ==
    ASSUME RowsInv, NEW written, Same(rows, written), DOMAIN rows \subseteq DOMAIN written
    PROVE  \A step, status : Keeps(step, written) /\ Learns(step, status, written)
<1>1. Whole(written)  BY DEF RowsInv, Whole, Same
<1>2. QED  BY <1>1, SameSpeaks DEF Keeps, Learns, Same

\* A step that writes one row, and only when it completes.
LEMMA RowKeeps ==
    ASSUME RowsInv, NEW step, NEW status, NEW written, Whole(written),
           written.forensics = rows.forensics, written.text = rows.text,
           step = "provenance" \/ written.provenance = rows.provenance,
           step = "metadata" \/ written.metadata = rows.metadata,
           step = "ai" \/ written.ai = rows.ai,
           step = "search" \/ written.search = rows.search,
           status = "completed" \/ Same(rows, written),
           written.ai = rows.ai \/ written.ai.score \in {NoNumber} \cup 0 .. 100
    PROVE  Keeps(step, written) /\ Learns(step, status, written)
<1>1. Keeps(step, written)  BY DEF Keeps
<1>2. CASE Same(rows, written)  BY <1>1, <1>2, SameSpeaks DEF Learns
<1>3. CASE status = "completed"
  <2>1. \A s : Speaks(written, s) => Speaks(rows, s) \/ s = step
    BY DEF Speaks
  <2>2. Plausible(rows) => Plausible(written)  BY DEF Plausible
  <2>3. Readable(rows) => Readable(written)  BY DEF Readable
  <2>4. QED  BY <1>1, <1>3, <2>1, <2>2, <2>3 DEF Learns, Backs
<1>4. QED  BY <1>2, <1>3

-----------------------------------------------------------------------------
(* The columns *)

LEMMA NoneIsNoObservation == DOMAIN None # Methods /\ NoColumns # None
<1>1. DOMAIN None = {"none"} /\ DOMAIN NoColumns = Methods  BY DEF None, NoColumns
<1>2. "ela" \in Methods /\ "ela" \notin {"none"}  BY DEF Methods
<1>3. QED  BY <1>1, <1>2

\* Only the step of a method touches a column, and only its own.
LEMMA UpsertedColumns ==
    ASSUME Whole(rows),
           rows.forensics = None \/ DOMAIN rows.forensics = Methods,
           NEW m \in Methods, NEW verdict
    PROVE  LET written == Upserted(m, verdict)
               f == written.forensics
           IN  /\ f # None /\ DOMAIN f = Methods /\ f[m] = verdict
               /\ \A k \in Methods \ {m} : f[k] = Column(k)
               /\ written.provenance = rows.provenance /\ written.metadata = rows.metadata
               /\ written.text = rows.text /\ written.ai = rows.ai
               /\ written.search = rows.search /\ Whole(written)
<1> DEFINE f == IF rows.forensics = None THEN NoColumns ELSE rows.forensics
           g == [f EXCEPT ![m] = verdict]
           written == [rows EXCEPT !.forensics = g]
<1>1. Upserted(m, verdict) = written  BY DEF Upserted
<1>2. DOMAIN f = Methods /\ \A k \in Methods : f[k] = Column(k)  BY DEF NoColumns, Column
<1> HIDE DEF f
<1>3. DOMAIN g = Methods /\ g[m] = verdict /\ \A k \in Methods \ {m} : g[k] = Column(k)
  BY <1>2
<1> HIDE DEF g
<1>4. g # None  BY <1>3, NoneIsNoObservation
<1>5. /\ written.forensics = g
      /\ written.provenance = rows.provenance /\ written.metadata = rows.metadata
      /\ written.text = rows.text /\ written.ai = rows.ai /\ written.search = rows.search
      /\ DOMAIN written = DOMAIN rows
  BY DEF Whole
<1> HIDE DEF written
<1>6. Whole(written)  BY <1>5 DEF Whole
<1>7. QED  BY <1>1, <1>3, <1>4, <1>5, <1>6

LEMMA UpsertedKeeps ==
    ASSUME RowsInv, NEW m \in Methods, NEW status, NEW verdict,
           verdict = "na" \/ Backs(m, status),
           m = "thumbnail" => verdict \in ThumbnailVerdicts,
           m = "c2pa_thumbnail" => verdict = "na" \/ "provenance" \in published
    PROVE  Keeps(m, Upserted(m, verdict)) /\ Learns(m, status, Upserted(m, verdict))
<1> DEFINE written == Upserted(m, verdict)
           f == written.forensics
<1>1. /\ f # None /\ f[m] = verdict
      /\ \A k \in Methods \ {m} : f[k] = Column(k)
      /\ written.provenance = rows.provenance /\ written.metadata = rows.metadata
      /\ written.text = rows.text /\ written.ai = rows.ai
      /\ written.search = rows.search /\ Whole(written)
  BY UpsertedColumns DEF RowsInv
<1>2. Keeps(m, written)  BY <1>1 DEF Keeps
<1> HIDE DEF written
<1>3. ASSUME NEW k \in Methods, f[k] \notin {"none", "na"}
      PROVE  \/ k # m /\ rows.forensics # None /\ rows.forensics[k] \notin {"none", "na"}
             \/ k = m /\ verdict # "na"
  BY <1>1, <1>3 DEF Column
<1>4. ASSUME NEW s, Speaks(written, s)
      PROVE  \/ Speaks(rows, s) \/ (s = m /\ verdict # "na")
             \/ (s = "provenance" /\ m = "c2pa_thumbnail" /\ verdict # "na")
  <2>1. "c2pa_thumbnail" \in Methods /\ Methods = {"ela", "compression", "double_compression",
            "thumbnail", "c2pa_thumbnail", "resampling", "noise", "copy_move"}
    BY DEF Methods
  <2>2. CASE s \in Methods /\ f[s] \notin {"none", "na"}
    BY <1>3, <2>1, <2>2 DEF Speaks
  <2>3. CASE s = "provenance" /\ f["c2pa_thumbnail"] \notin {"none", "na"}
    BY <1>3, <2>1, <2>3 DEF Speaks
  <2>4. CASE s \in Vital \cup {"metadata", "language", "ai", "search"}
             \/ (s = "provenance" /\ written.provenance # None)
    <3>1. ~(s \in Methods)  BY <2>1, <2>4 DEF Vital
    <3>2. QED  BY <1>1, <1>4, <2>1, <2>4, <3>1 DEF Speaks
  <2>5. QED  BY <1>4, <2>1, <2>2, <2>3, <2>4 DEF Speaks
<1>5. Plausible(rows) => Plausible(written)  BY <1>1 DEF Plausible
<1>6. Readable(rows) => Readable(written)
  <2>1. "thumbnail" \in Methods /\ f.thumbnail = f["thumbnail"]  BY DEF Methods
  <2>2. "none" \in ThumbnailVerdicts  BY DEF ThumbnailVerdicts
  <2>3. QED  BY <1>1, <2>1, <2>2 DEF Readable, Column
<1>7. Learns(m, status, written)  BY <1>4, <1>5, <1>6 DEF Learns
<1>8. QED  BY <1>2, <1>7 DEF written

LEMMA ThumbnailsAreJudged == \A v \in Verdicts("thumbnail") : v \in ThumbnailVerdicts
<1>1. \A t : ThumbnailVerdict(t) \in ThumbnailVerdicts
  BY DEF ThumbnailVerdict, ThumbnailVerdicts
<1>2. \A x, format : ExifThumbnailVerdict(x, format) \in ThumbnailVerdicts
  BY <1>1 DEF ExifThumbnailVerdict, ThumbnailVerdicts
<1>3. \A x : Verdict("thumbnail", x) = ExifThumbnailVerdict(x, W.format)
  BY DEF Verdict
<1>4. QED  BY <1>2, <1>3 DEF Verdicts


-----------------------------------------------------------------------------
(* Every step but the last two observes *)

LEMMA CrashObserves == ASSUME RowsInv, StepCrashes PROVE Observes
<1>1. PICK step : step \notin {"evidence", "synthesis"} /\ Finish(step, "failed", rows, {})
  BY DEF StepCrashes
<1>2. Supplies(step, "failed", {})  BY <1>1 DEF Supplies
<1>3. Keeps(step, rows) /\ Learns(step, "failed", rows)  BY SameKeeps DEF Same
<1>4. QED  BY <1>1, <1>2, <1>3 DEF Observes

LEMMA ValidateObserves == ASSUME RowsInv, Validate PROVE Observes
<1>1. \/ Finish("validate", "completed", rows, {"image"})
      \/ Finish("validate", "failed", rows, {})
  BY DEF Validate
<1>2. Supplies("validate", "completed", {"image"}) /\ Supplies("validate", "failed", {})
  BY DEF Supplies, First, Source
<1>3. \A status : Keeps("validate", rows) /\ Learns("validate", status, rows)
  BY SameKeeps DEF Same
<1>4. QED  BY <1>1, <1>2, <1>3 DEF Observes

LEMMA HashObserves == ASSUME RowsInv, Hash \/ Fingerprint PROVE Observes
<1> DEFINE written == [rows EXCEPT !.fingerprints = TRUE]
<1>1. Same(rows, written) /\ DOMAIN written = DOMAIN rows  BY DEF RowsInv, Whole, Same
<1>2. \/ Finish("hashing", "completed", written, {"hashes"})
      \/ Finish("fingerprints", "completed", written, {"text_fingerprints"})
  BY DEF Hash, Fingerprint
<1> HIDE DEF written
<1>3. /\ Supplies("hashing", "completed", {"hashes"})
      /\ Supplies("fingerprints", "completed", {"text_fingerprints"})
  BY DEF Supplies, First
<1>4. \A step, status : Keeps(step, written) /\ Learns(step, status, written)
  BY <1>1, SameKeeps
<1>5. QED  BY <1>2, <1>3, <1>4 DEF Observes

\* A step that writes to the text row names a language only as its own result.
LEMMA TextKeeps ==
    ASSUME RowsInv, NEW step, NEW status, NEW written, DOMAIN written = DOMAIN rows,
           written.forensics = rows.forensics, written.provenance = rows.provenance,
           written.metadata = rows.metadata, written.ai = rows.ai,
           written.search = rows.search,
           written.text = None \/ {"language", "confidence"} \subseteq DOMAIN written.text,
           written.text # None /\ written.text.language =>
               \/ rows.text # None /\ rows.text.language
               \/ step = "language" /\ status = "completed",
           written.text # None =>
               \/ written.text.confidence \in {NoNumber} \cup 0 .. 100
               \/ rows.text # None /\ written.text.confidence = rows.text.confidence
    PROVE  Keeps(step, written) /\ Learns(step, status, written)
<1>1. Whole(written)  BY DEF RowsInv, Whole
<1>2. \A s : Speaks(written, s) => Speaks(rows, s) \/ (s = step /\ Backs(step, status))
  BY DEF Speaks, Backs
<1>3. Plausible(rows) => Plausible(written)  BY DEF Plausible
<1>4. Readable(rows) => Readable(written)  BY DEF Readable
<1>5. Learns(step, status, written)  BY <1>2, <1>3, <1>4 DEF Learns
<1>6. QED  BY <1>1, <1>5 DEF Keeps

LEMMA NormalizeObserves == ASSUME RowsInv, Normalize PROVE Observes
<1> DEFINE text == [hidden |-> HiddenCharacters(W.text), repeated |-> 0,
                    language |-> FALSE, confidence |-> 0]
           written == [rows EXCEPT !.text = text]
<1>1. \/ Finish("normalize", "completed", written, {"text", "text_row"})
      \/ Finish("normalize", "failed", rows, {})
  BY DEF Normalize
<1>2. /\ Supplies("normalize", "completed", {"text", "text_row"})
      /\ Supplies("normalize", "failed", {})
  BY DEF Supplies, First, Source
<1>3. Keeps("normalize", rows) /\ Learns("normalize", "failed", rows)
  BY SameKeeps DEF Same
<1>4. /\ {"language", "confidence"} \subseteq DOMAIN text
      /\ text.confidence = 0 /\ text.language = FALSE
  OBVIOUS
<1> HIDE DEF text
<1>5. /\ DOMAIN written = DOMAIN rows /\ written.text = text
      /\ written.forensics = rows.forensics /\ written.provenance = rows.provenance
      /\ written.metadata = rows.metadata /\ written.ai = rows.ai
      /\ written.search = rows.search
  BY DEF RowsInv, Whole
<1> HIDE DEF written
<1>6. Keeps("normalize", written) /\ Learns("normalize", "completed", written)
  BY <1>4, <1>5, TextKeeps
<1>7. QED  BY <1>1, <1>2, <1>3, <1>6 DEF Observes

\* A field is written only to a text row that is there.
LEMMA NoneHasNoFields ==
    \A value : [None EXCEPT !.repeated = value] = None /\ [None EXCEPT !.language = value] = None
               /\ [None EXCEPT !.confidence = value] = None
  BY DEF None

LEMMA StatisticsObserves == ASSUME RowsInv, Statistics PROVE Observes
<1> DEFINE text == [rows.text EXCEPT !.repeated = RepeatedSentences(W.text)]
           written == [rows EXCEPT !.text.repeated = RepeatedSentences(W.text)]
<1>1. Finish("statistics", "completed", written, {"text_statistics"})  BY DEF Statistics
<1>2. Supplies("statistics", "completed", {"text_statistics"})  BY DEF Supplies, First
<1>3. /\ DOMAIN written = DOMAIN rows /\ written.text = text
      /\ written.forensics = rows.forensics /\ written.provenance = rows.provenance
      /\ written.metadata = rows.metadata /\ written.ai = rows.ai
      /\ written.search = rows.search
  BY DEF RowsInv, Whole
<1>4. rows.text = None => text = None  BY NoneHasNoFields
<1>5. rows.text # None =>
        /\ {"language", "confidence"} \subseteq DOMAIN text
        /\ text.language = rows.text.language /\ text.confidence = rows.text.confidence
  BY DEF RowsInv, Whole
<1> HIDE DEF text, written
<1>6. Keeps("statistics", written) /\ Learns("statistics", "completed", written)
  BY <1>3, <1>4, <1>5, TextKeeps
<1>7. QED  BY <1>1, <1>2, <1>6 DEF Observes

\* The likeliest language is one of the candidates, which have a greatest probability.
LEMMA GuessesAreProbabilities ==
    ASSUME NEW text, text.candidates \subseteq 0 .. 100
    PROVE  LanguageGuess(text).confidence \in 0 .. 100
<1> DEFINE all == text.candidates
<1>1. all # {} => \E m \in all : \A k \in all : k <= m  BY GreatestExists
<1>2. all # {} => Sets!Max(all) \in all  BY <1>1 DEF Sets!Max
<1> HIDE DEF all
<1>3. \/ LanguageGuess(text).confidence = 0
      \/ all # {} /\ LanguageGuess(text).confidence = Sets!Max(all)
  BY DEF LanguageGuess, all
<1>4. QED  BY <1>2, <1>3 DEF all

LEMMA LanguageObserves == ASSUME RunInv, RowsInv, DetectLanguage PROVE Observes
<1> DEFINE guess == LanguageGuess(W.text)
           status == IF guess.language THEN "completed" ELSE "skipped"
           named == [rows.text EXCEPT !.language = guess.language]
           text == [named EXCEPT !.confidence = guess.confidence]
           written == [rows EXCEPT !.text.language = guess.language,
                                   !.text.confidence = guess.confidence]
<1>1. Finish("language", status, written, {})  BY DEF DetectLanguage
<1>2. guess.confidence \in 0 .. 100
  <2>1. \A i \in 1 .. 16 : ImageSteps[i] # "language"  BY DEF ImageSteps
  <2>2. at \in Positions /\ Order[at] = "language"  BY <1>1 DEF Finish, Turn
  <2>3. W.type # "image"  BY <2>1, <2>2, PlacesOfSteps DEF Order, Positions
  <2>4. QED  BY <2>3, GuessesAreProbabilities, ProbabilitiesAssumption DEF RunInv, W
<1>3. Supplies("language", status, {})
  <2>1. status \in {"completed", "failed", "skipped"}  OBVIOUS
  <2> HIDE DEF status
  <2>2. QED  BY <2>1 DEF Supplies, First, Critical
<1>4. guess.language => status = "completed"  OBVIOUS
<1> HIDE DEF guess, status
<1>5. /\ DOMAIN written = DOMAIN rows /\ written.text = text
      /\ written.forensics = rows.forensics /\ written.provenance = rows.provenance
      /\ written.metadata = rows.metadata /\ written.ai = rows.ai
      /\ written.search = rows.search
  BY DEF RowsInv, Whole
<1>6. rows.text = None => text = None
  <2>1. rows.text = None => named = None  BY NoneHasNoFields
  <2> HIDE DEF named
  <2>2. QED  BY <2>1, NoneHasNoFields
<1>7. rows.text # None =>
        /\ {"language", "confidence"} \subseteq DOMAIN text
        /\ text.language = guess.language /\ text.confidence = guess.confidence
  BY DEF RowsInv, Whole
<1> HIDE DEF text, written
<1>8. Keeps("language", written) /\ Learns("language", status, written)
  BY <1>2, <1>4, <1>5, <1>6, <1>7, TextKeeps
<1>9. QED  BY <1>1, <1>3, <1>8 DEF Observes

\* A step that writes one row and its calls, and the row only when it completes.
LEMMA RowObserves ==
    ASSUME RowsInv, NEW step \in {"metadata", "provenance", "ai", "search"},
           NEW status \in {"completed", "failed", "skipped"}, NEW written, NEW artifacts,
           Finish(step, status, written, artifacts),
           "provenance" \in artifacts => step = "provenance" /\ status = "completed",
           DOMAIN written = DOMAIN rows,
           written.forensics = rows.forensics, written.text = rows.text,
           step = "provenance" \/ written.provenance = rows.provenance,
           step = "metadata" \/ written.metadata = rows.metadata,
           step = "ai" \/ written.ai = rows.ai,
           step = "search" \/ written.search = rows.search,
           status = "completed" \/ Same(rows, written),
           written.ai = rows.ai \/ written.ai.score \in {NoNumber} \cup 0 .. 100
    PROVE  Observes
<1>1. Supplies(step, status, artifacts)  BY DEF Supplies, First, Critical
<1>2. Whole(written)  BY DEF RowsInv, Whole
<1>3. Keeps(step, written) /\ Learns(step, status, written)  BY <1>2, RowKeeps
<1>4. QED  BY <1>1, <1>3 DEF Observes

LEMMA MetadataObserves == ASSUME RowsInv, ExtractMetadata PROVE Observes
<1>1. PICK answer \in W.metadata :
        LET failed == answer.outcome = "error"
        IN  Finish("metadata", IF failed THEN "failed" ELSE "completed",
                   [rows EXCEPT !.metadata = IF failed THEN @ ELSE NormalizeMetadata(answer.row),
                                !.calls = @ \cup {Call("metadata")}],
                   IF failed THEN {} ELSE {"metadata"})
  BY DEF ExtractMetadata
<1> DEFINE failed == answer.outcome = "error"
           status == IF failed THEN "failed" ELSE "completed"
           row == IF failed THEN rows.metadata ELSE NormalizeMetadata(answer.row)
           written == [rows EXCEPT !.metadata = row, !.calls = @ \cup {Call("metadata")}]
           artifacts == IF failed THEN {} ELSE {"metadata"}
<1>2. Finish("metadata", status, written, artifacts)  BY <1>1
<1>3. status \in {"completed", "failed", "skipped"} /\ "provenance" \notin artifacts
  OBVIOUS
<1>4. status = "completed" \/ row = rows.metadata  OBVIOUS
<1> HIDE DEF status, row, artifacts
<1>5. /\ DOMAIN written = DOMAIN rows /\ written.metadata = row
      /\ written.forensics = rows.forensics /\ written.provenance = rows.provenance
      /\ written.text = rows.text /\ written.ai = rows.ai /\ written.search = rows.search
  BY DEF RowsInv, Whole
<1> HIDE DEF written
<1>6. status = "completed" \/ Same(rows, written)  BY <1>4, <1>5 DEF Same
<1>7. QED  BY <1>2, <1>3, <1>5, <1>6, RowObserves

LEMMA ProvenanceObserves == ASSUME RowsInv, InspectProvenance PROVE Observes
<1>1. PICK answer \in W.provenance :
        LET failed == answer.outcome = "error"
        IN  Finish("provenance", IF failed THEN "failed" ELSE "completed",
                   [rows EXCEPT
                       !.provenance = IF failed THEN @ ELSE NormalizeProvenance(answer.row),
                       !.calls = @ \cup {Call("provenance")}],
                   IF failed THEN {}
                   ELSE {"provenance"} \cup (IF answer.row.present /\ answer.row.thumbnail
                                             THEN {"claim_thumbnail"} ELSE {}))
  BY DEF InspectProvenance
<1> DEFINE failed == answer.outcome = "error"
           status == IF failed THEN "failed" ELSE "completed"
           row == IF failed THEN rows.provenance ELSE NormalizeProvenance(answer.row)
           written == [rows EXCEPT !.provenance = row, !.calls = @ \cup {Call("provenance")}]
           artifacts == IF failed THEN {}
                        ELSE {"provenance"} \cup (IF answer.row.present /\ answer.row.thumbnail
                                                  THEN {"claim_thumbnail"} ELSE {})
<1>2. Finish("provenance", status, written, artifacts)  BY <1>1
<1>3. /\ status \in {"completed", "failed", "skipped"}
      /\ "provenance" \in artifacts => status = "completed"
  OBVIOUS
<1>4. status = "completed" \/ row = rows.provenance  OBVIOUS
<1> HIDE DEF status, row, artifacts
<1>5. /\ DOMAIN written = DOMAIN rows /\ written.provenance = row
      /\ written.forensics = rows.forensics /\ written.metadata = rows.metadata
      /\ written.text = rows.text /\ written.ai = rows.ai /\ written.search = rows.search
  BY DEF RowsInv, Whole
<1> HIDE DEF written
<1>6. status = "completed" \/ Same(rows, written)  BY <1>4, <1>5 DEF Same
<1>7. QED  BY <1>2, <1>3, <1>5, <1>6, RowObserves

\* A step that only records its call.
LEMMA CalledIsSame ==
    ASSUME RowsInv, NEW calls
    PROVE  LET written == [rows EXCEPT !.calls = calls]
           IN  Same(rows, written) /\ DOMAIN written = DOMAIN rows
  BY DEF RowsInv, Whole, Same

LEMMA AiObserves == ASSUME RunInv, RowsInv, DetectAi PROVE Observes
<1> DEFINE calls == rows.calls \cup {Call("ai")}
           called == [rows EXCEPT !.calls = @ \cup {Call("ai")}]
<1>1. PICK answer \in W.ai :
        CASE answer.outcome = "skipped" -> Finish("ai", "skipped", rows, {})
          [] answer.outcome = "error" -> Finish("ai", "failed", called, {})
          [] OTHER ->
                 Finish("ai", "completed",
                        [rows EXCEPT !.ai = answer.row, !.calls = @ \cup {Call("ai")}],
                        {"ai_detection"})
  BY DEF DetectAi
<1>2. CASE answer.outcome = "skipped"
  <2>1. Finish("ai", "skipped", rows, {}) /\ Same(rows, rows)  BY <1>1, <1>2 DEF Same
  <2>2. QED  BY <2>1, RowObserves DEF Same
<1>3. CASE answer.outcome = "error"
  <2>1. Finish("ai", "failed", called, {})  BY <1>1, <1>3
  <2>2. Same(rows, called) /\ DOMAIN called = DOMAIN rows  BY CalledIsSame
  <2> HIDE DEF called
  <2>3. QED  BY <2>1, <2>2, RowObserves DEF Same
<1>4. CASE answer.outcome \notin {"skipped", "error"}
  <2> DEFINE row == answer.row
             written == [rows EXCEPT !.ai = row, !.calls = @ \cup {Call("ai")}]
  <2>1. Finish("ai", "completed", written, {"ai_detection"})  BY <1>1, <1>4
  <2>2. row.score \in {NoNumber} \cup 0 .. 100
    BY <1>4, ProbabilitiesAssumption DEF RunInv, W
  <2> HIDE DEF row
  <2>3. /\ DOMAIN written = DOMAIN rows /\ written.ai = row
        /\ written.forensics = rows.forensics /\ written.provenance = rows.provenance
        /\ written.metadata = rows.metadata /\ written.text = rows.text
        /\ written.search = rows.search
    BY DEF RowsInv, Whole
  <2> HIDE DEF written
  <2>4. QED  BY <2>1, <2>2, <2>3, RowObserves
<1>5. QED  BY <1>2, <1>3, <1>4

LEMMA SearchObserves == ASSUME RowsInv, SearchSources PROVE Observes
<1> DEFINE found(x) == [Searched EXCEPT !.search = x]
<1>1. Same(rows, Searched) /\ DOMAIN Searched = DOMAIN rows
  BY CalledIsSame DEF Searched, Same
<1>2. \A x : /\ DOMAIN found(x) = DOMAIN rows /\ found(x).forensics = rows.forensics
             /\ found(x).provenance = rows.provenance /\ found(x).metadata = rows.metadata
             /\ found(x).text = rows.text /\ found(x).ai = rows.ai
  BY <1>1 DEF RowsInv, Whole, Same
<1>3. \/ Finish("search", "skipped", rows, {})
      \/ Finish("search", "failed", Searched, {})
      \/ Finish("search", "skipped", Searched, {})
      \/ \E x : Finish("search", "completed", found(x), {"source_search"})
  BY DEF SearchSources
<1> HIDE DEF found
<1>4. CASE Finish("search", "skipped", rows, {})  BY <1>4, RowObserves DEF Same
<1>5. CASE Finish("search", "failed", Searched, {}) \/ Finish("search", "skipped", Searched, {})
  BY <1>1, <1>5, RowObserves DEF Same
<1>6. CASE \E x : Finish("search", "completed", found(x), {"source_search"})
  BY <1>2, <1>6, RowObserves
<1>7. QED  BY <1>3, <1>4, <1>5, <1>6

\* A forensic step writes its own column or nothing: what it has observed, or that
\* it does not apply.
Writes(m, status, verdict, artifacts) ==
    /\ status \in {"completed", "failed", "skipped"} /\ artifacts \subseteq {m}
    /\ Finish(m, status, Upserted(m, verdict), artifacts)
    /\ verdict = "na" \/ Backs(m, status)
    /\ m = "thumbnail" => verdict \in ThumbnailVerdicts
    /\ m = "c2pa_thumbnail" => verdict = "na" \/ "provenance" \in published

LEMMA WritesObserves ==
    ASSUME RowsInv, NEW m \in Methods, NEW status, NEW verdict, NEW artifacts,
           Writes(m, status, verdict, artifacts)
    PROVE  Observes
<1>1. Supplies(m, status, artifacts)
  BY DEF Writes, Supplies, First, Methods, Critical
<1>2. Keeps(m, Upserted(m, verdict)) /\ Learns(m, status, Upserted(m, verdict))
  BY UpsertedKeeps DEF Writes
<1>3. QED  BY <1>1, <1>2 DEF Observes, Writes

LEMMA NotApplicableObserves ==
    ASSUME RowsInv, NEW m \in Methods, NotApplicable(m) PROVE Observes
<1>1. "na" \in ThumbnailVerdicts  BY DEF ThumbnailVerdicts
<1>2. Writes(m, "skipped", "na", {})  BY <1>1 DEF Writes, NotApplicable
<1>3. QED  BY <1>2, WritesObserves

LEMMA MeasuredObserves ==
    ASSUME RowsInv, NEW m \in Methods, NEW verdict \in Verdicts(m),
           m = "c2pa_thumbnail" => "provenance" \in published,
           Measured(m, verdict)
    PROVE  Observes
<1>1. Writes(m, "completed", verdict, {m})
  BY ThumbnailsAreJudged DEF Writes, Measured, Backs
<1>2. QED  BY <1>1, WritesObserves

LEMMA ElaObserves == ASSUME RowsInv, Ela PROVE Observes
<1>1. PICK verdict \in Verdicts("ela") :
        \/ NotApplicable("ela")
        \/ Measured("ela", verdict)
        \/ Finish("ela", "failed", rows, {})
  BY DEF Ela
<1>2. "ela" \in Methods  BY DEF Methods
<1>3. CASE NotApplicable("ela")  BY <1>2, <1>3, NotApplicableObserves
<1>4. CASE Measured("ela", verdict)  BY <1>2, <1>4, MeasuredObserves
<1>5. CASE Finish("ela", "failed", rows, {})
  <2>1. Supplies("ela", "failed", {})  BY DEF Supplies, First
  <2>2. Keeps("ela", rows) /\ Learns("ela", "failed", rows)  BY SameKeeps DEF Same
  <2>3. QED  BY <1>5, <2>1, <2>2 DEF Observes
<1>6. QED  BY <1>1, <1>3, <1>4, <1>5

LEMMA PlainObserves ==
    ASSUME RowsInv, NEW m \in {"compression", "resampling"}, Plain(m)
    PROVE  Observes
<1>1. m \in Methods /\ m # "c2pa_thumbnail"  BY DEF Methods
<1>2. PICK verdict \in Verdicts(m) : Measured(m, verdict)  BY DEF Plain
<1>3. QED  BY <1>1, <1>2, MeasuredObserves

LEMMA PicturedObserves ==
    ASSUME RowsInv, NEW m \in ObservedFirst, Pictured(m),
           m = "c2pa_thumbnail" => "provenance" \in published
    PROVE  Observes
<1>1. m \in Methods  BY DEF Methods, ObservedFirst
<1>2. PICK verdict \in Verdicts(m) :
        \/ NotApplicable(m)
        \/ Measured(m, verdict)
        \/ Finish(m, "failed", Upserted(m, verdict), {})
  BY DEF Pictured
<1>3. CASE NotApplicable(m)  BY <1>1, <1>3, NotApplicableObserves
<1>4. CASE Measured(m, verdict)  BY <1>1, <1>4, MeasuredObserves
<1>5. CASE Finish(m, "failed", Upserted(m, verdict), {})
  <2>1. Writes(m, "failed", verdict, {})
    BY <1>5, ThumbnailsAreJudged DEF Writes, Backs
  <2>2. QED  BY <1>1, <2>1, WritesObserves
<1>6. QED  BY <1>2, <1>3, <1>4, <1>5

LEMMA C2paThumbnailObserves == ASSUME RowsInv, C2paThumbnail PROVE Observes
<1>1. "c2pa_thumbnail" \in Methods /\ "c2pa_thumbnail" \in ObservedFirst
  BY DEF Methods, ObservedFirst
<1>2. \/ "provenance" \in published /\ Pictured("c2pa_thumbnail")
      \/ NotApplicable("c2pa_thumbnail")
  BY DEF C2paThumbnail
<1>3. QED  BY <1>1, <1>2, PicturedObserves, NotApplicableObserves

LEMMA StepsObserve ==
    ASSUME RunInv, RowsInv, Next
    PROVE  Observes \/ SkipRest \/ Conclude \/ ConcludeFails \/ Synthesize
<1>1. CASE \E m \in {"compression", "resampling"} : Plain(m)
  BY <1>1, PlainObserves
<1>2. CASE \E m \in {"double_compression", "thumbnail", "noise", "copy_move"} : Pictured(m)
  <2>1. PICK m \in {"double_compression", "thumbnail", "noise", "copy_move"} : Pictured(m)
    BY <1>2
  <2>2. m \in ObservedFirst /\ m # "c2pa_thumbnail"  BY DEF ObservedFirst
  <2>3. QED  BY <2>1, <2>2, PicturedObserves
<1>3. QED
  BY <1>1, <1>2, CrashObserves, ValidateObserves, HashObserves, NormalizeObserves,
     StatisticsObserves, LanguageObserves, MetadataObserves, ProvenanceObserves, AiObserves,
     SearchObserves, ElaObserves, C2paThumbnailObserves DEF Next

-----------------------------------------------------------------------------
(* The runner *)

\* Settling the step at the loop position, with any status that a step may have.
LEMMA SettleKeeps ==
    ASSUME RunInv, at \in Positions, world' = world,
           NEW status \in Statuses \ {"unmet"}, Settle(status),
           Going /\ (at > 1 \/ status # "failed") => Source \subseteq published'
    PROVE  RunInv'
<1>1. at' = at + 1 /\ records' = [records EXCEPT ![at] = status]
  BY DEF Settle
<1>2. Len(Order)' = Len(Order) /\ Positions' = Positions /\ Source' = Source
  BY DEF Order, Positions, W, Source
<1>3. at' \in 1 .. Len(Order)' + 1  BY <1>1, <1>2, PlaceOfTurn
<1>4. stopped' \in Critical \cup {""}
  BY DEF Settle, RunInv
<1>5. Going' => Source \subseteq published'
  <2>1. CASE ~Going  BY <2>1 DEF Settle, Going
  <2>2. CASE Source \subseteq published'  BY <2>2
  <2>3. CASE Going /\ ~(at > 1) /\ status = "failed"
    <3>1. Order[at] \in Critical
      <4>1. at = 1  BY <2>3, PlaceOfTurn
      <4>2. QED  BY <4>1, OrderOfSteps
    <3>2. stopped' = Order[at] /\ "" \notin Critical
      BY <2>3, <3>1 DEF Settle, Critical, Going
    <3>3. QED  BY <3>1, <3>2 DEF Going
  <2>4. QED  BY <2>1, <2>2, <2>3
<1>6. records' \in [Positions -> Statuses \ {"unmet"}]  BY <1>1 DEF RunInv
<1>7. world' \in DOMAIN Worlds  BY DEF RunInv
<1>8. QED  BY <1>2, <1>3, <1>4, <1>5, <1>6, <1>7 DEF RunInv

\* A step that observes finds its input, so what it writes is what the rows become.
LEMMA ObservesSettles ==
    ASSUME RunInv, Observes
    PROVE  \E step, status, artifacts :
               /\ at \in Positions /\ Order[at] = step /\ Going /\ world' = world
               /\ Settle(status) /\ published' = published \cup artifacts
               /\ Supplies(step, status, artifacts)
               /\ Keeps(step, rows') /\ Learns(step, status, rows')
<1>1. PICK step, status, written, artifacts :
        /\ Finish(step, status, written, artifacts)
        /\ Supplies(step, status, artifacts)
        /\ Keeps(step, written) /\ Learns(step, status, written)
  BY DEF Observes
<1>2. at \in Positions /\ Order[at] = step /\ Going /\ world' = world
  BY <1>1 DEF Finish, Turn, Going
<1>3. Input(step) \subseteq published
  <2>1. CASE at = 1  BY <2>1, <1>2, OrderOfSteps
  <2>2. CASE at > 1
    <3>1. Source \subseteq published  BY <2>2, <1>2 DEF RunInv
    <3>2. QED  BY <3>1, InputsAreSources
  <2>3. QED  BY <2>1, <2>2, <1>2, PlaceOfTurn
<1>4. Settle(status) /\ published' = published \cup artifacts /\ rows' = written
  BY <1>1, <1>3 DEF Finish
<1>5. QED  BY <1>1, <1>2, <1>4

LEMMA ObservesKeepsRun == ASSUME RunInv, Observes PROVE RunInv'
<1>1. PICK step, status, artifacts :
        /\ at \in Positions /\ Order[at] = step /\ Going /\ world' = world
        /\ Settle(status) /\ published' = published \cup artifacts
        /\ Supplies(step, status, artifacts)
  BY ObservesSettles
<1>2. status \in Statuses \ {"unmet"}  BY <1>1 DEF Supplies, Statuses
<1>3. at > 1 \/ status # "failed" => Source \subseteq published'
  <2>1. CASE at = 1
    <3>1. step = First  BY <2>1, <1>1, OrderOfSteps
    <3>2. ~(at > 1)  BY <2>1, <1>1, PlaceOfTurn
    <3>3. QED  BY <3>1, <3>2, <1>1 DEF Supplies
  <2>2. CASE at > 1  BY <2>2, <1>1 DEF RunInv
  <2>3. QED  BY <2>1, <2>2, <1>1, PlaceOfTurn
<1>4. QED  BY <1>1, <1>2, <1>3, SettleKeeps

LEMMA OthersKeepRun ==
    ASSUME RunInv, SkipRest \/ Conclude \/ ConcludeFails \/ Synthesize
    PROVE  RunInv'
<1>1. CASE SkipRest
  <2>1. /\ at \in Positions /\ ~Going /\ world' = world /\ Settle("skipped")
        /\ "skipped" \in Statuses \ {"unmet"}
    BY <1>1 DEF SkipRest, Going, Statuses
  <2>2. QED  BY <2>1, SettleKeeps
<1>2. CASE Conclude \/ ConcludeFails \/ Synthesize
  <2>1. /\ at \in Positions /\ Going /\ world' = world /\ published' = published
        /\ Order[at] \in {"evidence", "synthesis"}
        /\ \E status \in {"completed", "failed", "skipped"} : Settle(status)
    BY <1>2 DEF Conclude, ConcludeFails, Synthesize, Turn, Going
  <2>2. at > 1
    <3>1. at # 1  BY <2>1, OrderOfSteps DEF First
    <3>2. QED  BY <2>1, <3>1, PlaceOfTurn
  <2>3. Source \subseteq published'  BY <2>1, <2>2 DEF RunInv
  <2>4. QED  BY <2>1, <2>3, SettleKeeps DEF Statuses
<1>3. QED  BY <1>1, <1>2

-----------------------------------------------------------------------------
(* The rows *)

\* The last two steps, and the runner, change nothing that the rules read.
LEMMA OthersSayTheSame ==
    ASSUME RowsInv, SkipRest \/ Conclude \/ ConcludeFails \/ Synthesize
    PROVE  /\ at \in Positions /\ at' = at + 1 /\ world' = world
           /\ published' = published
           /\ Same(rows, rows') /\ DOMAIN rows' = DOMAIN rows
<1>1. CASE SkipRest \/ ConcludeFails
  BY <1>1 DEF SkipRest, ConcludeFails, Turn, Settle, results, Same
<1>2. CASE Conclude
  <2> DEFINE seen(x) == [rows EXCEPT !.similar = x]
  <2>1. \A x : Same(rows, seen(x)) /\ DOMAIN seen(x) = DOMAIN rows
    BY DEF RowsInv, Whole, Same
  <2>2. /\ at \in Positions /\ at' = at + 1 /\ world' = world /\ published' = published
        /\ \E x : rows' = seen(x)
    BY <1>2 DEF Conclude, Turn, Settle
  <2> HIDE DEF seen
  <2>3. QED  BY <2>1, <2>2
<1>3. CASE Synthesize
  <2> DEFINE called(x) == [rows EXCEPT !.calls = x]
  <2>1. \A x : Same(rows, called(x)) /\ DOMAIN called(x) = DOMAIN rows
    BY CalledIsSame
  <2>2. /\ at \in Positions /\ at' = at + 1 /\ world' = world /\ published' = published
        /\ (rows' = rows \/ \E x : rows' = called(x))
    BY <1>3 DEF Synthesize, Turn, Settle
  <2> HIDE DEF called
  <2>3. QED  BY <2>1, <2>2 DEF Same
<1>4. QED  BY <1>1, <1>2, <1>3

\* What a step leaves in the columns: those of before, or one more.
LEMMA StepsKeepRows ==
    ASSUME RunInv, RowsInv, Next
    PROVE  /\ at \in Positions /\ at' = at + 1 /\ world' = world
           /\ Whole(rows')
           /\ \/ rows'.forensics = rows.forensics
              \/ /\ Order[at] \in Methods
                 /\ \E verdict : rows'.forensics = Upserted(Order[at], verdict).forensics
<1>1. CASE Observes
  <2>1. PICK step, status, written, artifacts :
          Finish(step, status, written, artifacts) /\ Keeps(step, written)
    BY <1>1 DEF Observes
  <2>2. /\ at \in Positions /\ Order[at] = step /\ at' = at + 1 /\ world' = world
        /\ rows' = written \/ rows' = rows
    BY <2>1 DEF Finish, Turn, Settle
  <2>3. QED  BY <2>1, <2>2 DEF Keeps, RowsInv
<1>2. CASE SkipRest \/ Conclude \/ ConcludeFails \/ Synthesize
  BY <1>2, OthersSayTheSame DEF RowsInv, Whole, Same
<1>3. QED  BY <1>1, <1>2, StepsObserve

\* The column of a step that is still to come is empty, so a step never finds one
\* that another has filled.
LEMMA StepsKeepColumns ==
    ASSUME RunInv, RowsInv, Next
    PROVE  /\ RowsInv'
           /\ rows.forensics # None =>
                 /\ rows'.forensics # None
                 /\ \A m \in Methods : rows.forensics[m] # "none" =>
                        rows'.forensics[m] = rows.forensics[m]
<1>1. at \in Positions /\ at' = at + 1 /\ Order' = Order /\ Positions' = Positions
  BY StepsKeepRows DEF Order, Positions, W
<1>2. Whole(rows')  BY StepsKeepRows
<1>3. \A i \in Positions : i >= at' => i >= at /\ i # at
  BY <1>1, LengthOfOrder
<1>4. CASE rows'.forensics = rows.forensics
  <2>1. \A i \in Positions : i >= at' /\ Order[i] \in Methods => Column(Order[i])' = "none"
    BY <1>1, <1>3, <1>4 DEF RowsInv, Column
  <2>2. RowsInv'  BY <1>1, <1>2, <1>4, <2>1 DEF RowsInv
  <2>3. QED  BY <1>4, <2>2
<1>5. CASE /\ Order[at] \in Methods
           /\ \E verdict : rows'.forensics = Upserted(Order[at], verdict).forensics
  <2> DEFINE own == Order[at]
  <2>1. /\ rows'.forensics # None /\ DOMAIN rows'.forensics = Methods
        /\ \A k \in Methods \ {own} : rows'.forensics[k] = Column(k)
    BY <1>5, UpsertedColumns DEF RowsInv
  <2>2. \A k \in Methods \ {own} : Column(k)' = Column(k)  BY <2>1 DEF Column
  <2>3. \A i \in Positions : i # at => Order[i] # own  BY <1>1, OrderOfSteps
  <2>4. Column(own) = "none"
    <3>1. at >= at  BY <1>1, LengthOfOrder
    <3>2. QED  BY <1>1, <1>5, <3>1 DEF RowsInv
  <2> HIDE DEF own
  <2>5. \A i \in Positions : i >= at' /\ Order[i] \in Methods => Column(Order[i])' = "none"
    <3>1. ASSUME NEW i \in Positions, i >= at', Order[i] \in Methods
          PROVE  Column(Order[i]) = "none" /\ Order[i] # own
      BY <3>1, <1>3, <2>3 DEF RowsInv
    <3>2. QED  BY <1>1, <2>1, <3>1 DEF Column
  <2>6. RowsInv'  BY <1>1, <1>2, <2>1, <2>5 DEF RowsInv
  <2>7. QED  BY <2>1, <2>4, <2>6 DEF Column
<1>6. QED  BY <1>4, <1>5, StepsKeepRows

-----------------------------------------------------------------------------
(* What the rows say *)

\* Settling a step at the loop position leaves the earlier records alone.
LEMMA SettleRecords ==
    ASSUME RunInv, at \in Positions, world' = world, NEW status, Settle(status)
    PROVE  /\ Order' = Order /\ Positions' = Positions /\ at' = at + 1
           /\ \A i \in Positions : /\ i < at' <=> (i < at \/ i = at)
                                   /\ i < at => records'[i] = records[i] /\ i # at
           /\ records'[at] = status /\ ~(at < at)
           /\ Going' => Going /\ ~(status = "failed" /\ Order[at] \in Critical)
<1>1. /\ Order' = Order /\ Positions' = Positions /\ at' = at + 1
      /\ records' = [records EXCEPT ![at] = status]
  BY DEF Order, Positions, W, Settle
<1>2. \A i \in Positions : /\ i < at' <=> (i < at \/ i = at)
                           /\ i < at => i # at
  BY <1>1, LengthOfOrder
<1>3. records'[at] = status /\ \A i \in Positions : i # at => records'[i] = records[i]
  BY <1>1 DEF RunInv
<1>4. Going' => Going /\ ~(status = "failed" /\ Order[at] \in Critical)
  <2>1. "" \notin Critical  BY DEF Critical
  <2>2. QED  BY <2>1 DEF Settle, Going
<1>5. QED  BY <1>1, <1>2, <1>3, <1>4

\* The step has observed something, whatever it failed at afterwards.
Supported(i) ==
    records[i] = "completed" \/ (records[i] = "failed" /\ Order[i] \in ObservedFirst)

\* What the rows say of a step, it has observed; a manifest that was handed on comes
\* from an inspection that completed; and while the run goes on, no critical step
\* has done less than complete.
SpokenInv ==
    /\ \A i \in Positions :
           Order[i] \notin Critical /\ Speaks(rows, Order[i]) => i < at /\ Supported(i)
    /\ "provenance" \in published =>
           \A i \in Positions : Order[i] = "provenance" => i < at /\ records[i] = "completed"
    /\ Going => \A i \in Positions : i < at /\ Order[i] \in Critical => records[i] = "completed"

\* What the rows hold is within its range.
CredibleInv == Plausible(rows) /\ Readable(rows)

LEMMA ObservesKeepsSpoken ==
    ASSUME RunInv, SpokenInv, CredibleInv, Observes
    PROVE  SpokenInv' /\ CredibleInv'
<1>1. PICK step, status, artifacts :
        /\ at \in Positions /\ Order[at] = step /\ Going /\ world' = world
        /\ Settle(status) /\ published' = published \cup artifacts
        /\ Supplies(step, status, artifacts) /\ Learns(step, status, rows')
  BY ObservesSettles
<1>2. /\ Order' = Order /\ Positions' = Positions /\ records'[at] = status
      /\ \A i \in Positions : /\ i < at' <=> (i < at \/ i = at)
                              /\ i < at => records'[i] = records[i] /\ i # at
      /\ Going' => Going /\ ~(status = "failed" /\ Order[at] \in Critical)
  BY <1>1, SettleRecords
<1>3. \A i \in Positions : Order[i] = step => i = at  BY <1>1, OrderOfSteps
<1>4. \A i \in Positions : i < at /\ Supported(i) => Supported(i)'
  BY <1>2 DEF Supported
<1>5. ASSUME NEW i \in Positions, Order[i] \notin Critical, Speaks(rows', Order[i])
      PROVE  i < at' /\ Supported(i)'
  <2>1. CASE Speaks(rows, Order[i])  BY <2>1, <1>2, <1>4, <1>5 DEF SpokenInv
  <2>2. CASE Order[i] = step /\ Backs(step, status)
    BY <2>2, <1>1, <1>2, <1>3 DEF Supported, Backs
  <2>3. CASE Order[i] = "provenance" /\ "provenance" \in published
    BY <2>3, <1>2, <1>4 DEF SpokenInv, Supported
  <2>4. QED  BY <2>1, <2>2, <2>3, <1>1, <1>5 DEF Learns
<1>6. ASSUME "provenance" \in published', NEW i \in Positions, Order[i] = "provenance"
      PROVE  i < at' /\ records'[i] = "completed"
  <2>1. CASE "provenance" \in published  BY <2>1, <1>2, <1>6 DEF SpokenInv
  <2>2. CASE "provenance" \in artifacts
    <3>1. step = "provenance" /\ status = "completed"  BY <2>2, <1>1 DEF Supplies
    <3>2. i = at  BY <3>1, <1>3, <1>6
    <3>3. QED  BY <3>1, <3>2, <1>2
  <2>3. QED  BY <2>1, <2>2, <1>1, <1>6
<1>7. ASSUME Going', NEW i \in Positions, i < at', Order[i] \in Critical
      PROVE  records'[i] = "completed"
  <2>1. CASE i < at  BY <2>1, <1>2, <1>7 DEF SpokenInv
  <2>2. CASE i = at
    <3>1. status # "failed" /\ status # "skipped"  BY <2>2, <1>1, <1>2, <1>7 DEF Supplies
    <3>2. status = "completed"  BY <3>1, <1>1 DEF Supplies
    <3>3. QED  BY <3>2, <2>2, <1>2
  <2>3. QED  BY <2>1, <2>2, <1>2, <1>7
<1>8. SpokenInv'  BY <1>2, <1>5, <1>6, <1>7 DEF SpokenInv
<1>9. CredibleInv'  BY <1>1 DEF Learns, CredibleInv
<1>10. QED  BY <1>8, <1>9

LEMMA OthersSettle ==
    ASSUME SkipRest \/ Conclude \/ ConcludeFails \/ Synthesize
    PROVE  \E status : Settle(status) /\ (Going => Order[at] \in {"evidence", "synthesis"})
<1>1. CASE SkipRest  BY <1>1 DEF SkipRest, Going
<1>2. CASE Conclude \/ ConcludeFails \/ Synthesize
  BY <1>2 DEF Conclude, ConcludeFails, Synthesize, Turn
<1>3. QED  BY <1>1, <1>2

LEMMA OthersKeepSpoken ==
    ASSUME RunInv, RowsInv, SpokenInv, CredibleInv,
           SkipRest \/ Conclude \/ ConcludeFails \/ Synthesize
    PROVE  SpokenInv' /\ CredibleInv'
<1>1. at \in Positions /\ world' = world /\ published' = published /\ Same(rows, rows')
  BY OthersSayTheSame
<1>2. PICK status : Settle(status) /\ (Going => Order[at] \in {"evidence", "synthesis"})
  BY OthersSettle
<1>3. /\ Order' = Order /\ Positions' = Positions
      /\ \A i \in Positions : /\ i < at' <=> (i < at \/ i = at)
                              /\ i < at => records'[i] = records[i] /\ i # at
      /\ Going' => Going
  BY <1>1, <1>2, SettleRecords
<1>4. \A s : Speaks(rows', s) <=> Speaks(rows, s)  BY <1>1, SameSpeaks
<1>5. ASSUME NEW i \in Positions, Order[i] \notin Critical, Speaks(rows', Order[i])
      PROVE  i < at' /\ Supported(i)'
  BY <1>3, <1>4, <1>5 DEF SpokenInv, Supported
<1>6. ASSUME "provenance" \in published', NEW i \in Positions, Order[i] = "provenance"
      PROVE  i < at' /\ records'[i] = "completed"
  BY <1>1, <1>3, <1>6 DEF SpokenInv
<1>7. ASSUME Going', NEW i \in Positions, i < at', Order[i] \in Critical
      PROVE  records'[i] = "completed"
  <2>1. i # at  BY <1>2, <1>3, <1>7 DEF Critical
  <2>2. QED  BY <2>1, <1>3, <1>7 DEF SpokenInv
<1>8. SpokenInv'  BY <1>3, <1>5, <1>6, <1>7 DEF SpokenInv
<1>9. CredibleInv'  BY <1>1, SameSpeaks DEF CredibleInv
<1>10. QED  BY <1>8, <1>9

-----------------------------------------------------------------------------
(* What is concluded *)

EvidenceInv == \A d \in evidence : d.level \in Levels /\ d.kind \in Kinds

\* The evidence is only ever what the rules make of the rows of the same moment.
LEMMA EvidenceOfRows ==
    ASSUME RunInv, RowsInv, Next
    PROVE  evidence' = evidence \/ (Conclude /\ evidence' = BuildEvidence(rows'))
<1>1. CASE Observes  BY <1>1 DEF Observes, Finish, results
<1>2. CASE SkipRest \/ ConcludeFails \/ Synthesize
  BY <1>2 DEF SkipRest, ConcludeFails, Synthesize, results
<1>3. CASE Conclude  BY <1>3 DEF Conclude
<1>4. QED  BY <1>1, <1>2, <1>3, StepsObserve

LEMMA EvidenceKeepsLevels == ASSUME RunInv, RowsInv, EvidenceInv, Next PROVE EvidenceInv'
<1>1. CASE evidence' = evidence  BY <1>1 DEF EvidenceInv
<1>2. CASE evidence' = BuildEvidence(rows')  BY <1>2, EvidenceRespectsCeilings DEF EvidenceInv
<1>3. QED  BY <1>1, <1>2, EvidenceOfRows

LEMMA StepsSettle ==
    ASSUME RunInv, RowsInv, Next
    PROVE  at \in Positions /\ world' = world /\ \E status : Settle(status)
<1>1. CASE Observes  BY <1>1, ObservesSettles
<1>2. CASE SkipRest \/ Conclude \/ ConcludeFails \/ Synthesize
  BY <1>2, OthersSayTheSame, OthersSettle
<1>3. QED  BY <1>1, <1>2, StepsObserve

\* The critical steps of either pipeline come before its evidence.
LEMMA CriticalComesFirst ==
    \A i, j \in Positions : Order[i] \in Critical /\ Order[j] = "evidence" => i < j
<1>1. \A i \in 1 .. 16 : ImageSteps[i] \notin {"normalize", "statistics", "fingerprints"}
  BY DEF ImageSteps
<1>2. \A i \in 1 .. 8 : TextSteps[i] \notin {"validate", "hashing"}
  BY DEF TextSteps
<1>3. /\ Places["validate"] = 1 /\ Places["hashing"] = 2 /\ Places["evidence"] = 15
      /\ TextPlaces["normalize"] = 1 /\ TextPlaces["statistics"] = 3
      /\ TextPlaces["fingerprints"] = 4 /\ TextPlaces["evidence"] = 7
  BY DEF Places, TextPlaces
<1>4. \A i, j \in 1 .. 16 : ImageSteps[i] \in Critical /\ ImageSteps[j] = "evidence" => i < j
  BY <1>1, <1>3, PlacesOfSteps DEF Critical
<1>5. \A i, j \in 1 .. 8 : TextSteps[i] \in Critical /\ TextSteps[j] = "evidence" => i < j
  BY <1>2, <1>3, PlacesOfSteps DEF Critical
<1>6. QED  BY <1>4, <1>5, PlacesOfSteps DEF Order, Positions

\* What a record above UNKNOWN refers to has observed something.
SupportInv ==
    \A d \in evidence : d.level # "UNKNOWN" =>
        \A i \in Positions : Step(Order[i]) \in d.refs => i < at /\ Supported(i)

LEMMA StepsKeepSupport ==
    ASSUME RunInv, RowsInv, SpokenInv, SpokenInv', SupportInv, Next
    PROVE  SupportInv'
<1>1. PICK status : Settle(status)  BY StepsSettle
<1>2. /\ Order' = Order /\ Positions' = Positions
      /\ \A i \in Positions : /\ i < at' <=> (i < at \/ i = at)
                              /\ i < at => records'[i] = records[i] /\ i # at
  BY <1>1, StepsSettle, SettleRecords
<1>3. \A i \in Positions : i < at /\ Supported(i) => i < at' /\ Supported(i)'
  BY <1>2 DEF Supported
<1>4. CASE evidence' = evidence  BY <1>2, <1>3, <1>4 DEF SupportInv
<1>5. CASE Conclude /\ evidence' = BuildEvidence(rows')
  <2>1. Going /\ Order[at] = "evidence" /\ at \in Positions
    BY <1>5 DEF Conclude, Turn, Going
  <2>2. ASSUME NEW d \in evidence', d.level # "UNKNOWN",
               NEW i \in Positions, Step(Order[i]) \in d.refs
        PROVE  i < at' /\ Supported(i)'
    <3>1. Speaks(rows', Order[i])  BY <1>5, <2>2, FindingsSpeak
    <3>2. CASE Order[i] \notin Critical  BY <3>1, <3>2, <1>2 DEF SpokenInv
    <3>3. CASE Order[i] \in Critical
      <4>1. i < at  BY <3>3, <2>1, <2>2, CriticalComesFirst
      <4>2. records[i] = "completed"  BY <4>1, <3>3, <2>1 DEF SpokenInv
      <4>3. QED  BY <4>1, <4>2, <1>3 DEF Supported
    <3>4. QED  BY <3>2, <3>3
  <2>3. QED  BY <2>2, <1>2 DEF SupportInv
<1>6. QED  BY <1>4, <1>5, EvidenceOfRows

Done == \E i \in Positions : Order[i] = "evidence" /\ records[i] = "completed"

\* Nothing is concluded yet.
Bare == evidence = {} /\ timeline = {} /\ ~Done

\* The evidence is what the rules made of credible rows, once; and the timeline is
\* made of the same rows and of that evidence, unless the step failed between them.
BuiltInv ==
    /\ (\E i \in Positions : Order[i] = "evidence" /\ ~(i < at)) => Bare
    /\ \/ Bare
       \/ \E o : /\ Plausible(o) /\ Readable(o)
                 /\ evidence = BuildEvidence(o)
                 /\ \/ timeline = BuildTimeline(o, evidence)
                    \/ timeline = {} /\ ~Done

LEMMA StepsKeepBuilt ==
    ASSUME RunInv, RowsInv, CredibleInv', BuiltInv, Next
    PROVE  BuiltInv'
<1>1. at \in Positions /\ world' = world  BY StepsSettle
<1>2. ASSUME NEW status, Settle(status), evidence' = evidence, timeline' = timeline,
             status # "completed" \/ Order[at] # "evidence"
      PROVE  BuiltInv'
  <2>1. /\ Order' = Order /\ Positions' = Positions /\ records'[at] = status
        /\ \A i \in Positions : i < at' <=> (i < at \/ i = at)
    BY <1>1, <1>2, SettleRecords
  <2>2. \A i \in Positions : i # at => records'[i] = records[i]
    BY <1>2 DEF Settle, RunInv
  <2>3. Done' => Done  BY <2>1, <2>2, <1>2 DEF Done
  <2>4. Bare => Bare'  BY <2>3, <1>2 DEF Bare
  <2>5. (\E i \in Positions' : Order'[i] = "evidence" /\ ~(i < at')) => Bare'
    BY <2>1, <2>4 DEF BuiltInv
  <2>6. QED  BY <2>3, <2>4, <2>5, <1>2 DEF BuiltInv
<1>3. CASE Observes
  <2>1. PICK step, status, artifacts :
          Order[at] = step /\ Settle(status) /\ Supplies(step, status, artifacts)
    BY <1>3, ObservesSettles
  <2>2. Order[at] # "evidence"  BY <2>1 DEF Supplies
  <2>3. evidence' = evidence /\ timeline' = timeline  BY <1>3 DEF Observes, Finish, results
  <2>4. QED  BY <2>1, <2>2, <2>3, <1>2
<1>4. CASE SkipRest \/ ConcludeFails
  <2>1. /\ evidence' = evidence /\ timeline' = timeline
        /\ Settle("skipped") \/ Settle("failed")
    BY <1>4 DEF SkipRest, ConcludeFails, results
  <2>2. QED  BY <2>1, <1>2
<1>5. CASE Synthesize
  <2>1. /\ evidence' = evidence /\ timeline' = timeline /\ Order[at] = "synthesis"
        /\ \E status : Settle(status)
    BY <1>5 DEF Synthesize, Turn
  <2>2. QED  BY <2>1, <1>2
<1>6. CASE Conclude
  <2>1. PICK whole \in BOOLEAN :
          /\ Order[at] = "evidence"
          /\ evidence' = BuildEvidence(rows')
          /\ timeline' = IF whole THEN BuildTimeline(rows', evidence') ELSE timeline
          /\ Settle(IF whole THEN "completed" ELSE "failed")
    BY <1>6 DEF Conclude, Turn
  <2> DEFINE status == IF whole THEN "completed" ELSE "failed"
  <2>2. /\ Order' = Order /\ Positions' = Positions /\ records'[at] = status
        /\ \A i \in Positions : i < at' <=> (i < at \/ i = at)
        /\ ~(at < at)
    BY <1>1, <2>1, SettleRecords
  <2>3. \A i \in Positions : Order[i] = "evidence" => i = at  BY <1>1, <2>1, OrderOfSteps
  <2>4. ~(\E i \in Positions' : Order'[i] = "evidence" /\ ~(i < at'))
    BY <2>2, <2>3
  <2>5. Bare  BY <1>1, <2>1, <2>2 DEF BuiltInv
  <2>6. whole \/ (timeline' = {} /\ ~Done')
    BY <2>1, <2>2, <2>3, <2>5 DEF Done, Bare
  <2>7. Plausible(rows') /\ Readable(rows')  BY DEF CredibleInv
  <2>8. timeline' = BuildTimeline(rows', evidence') \/ (timeline' = {} /\ ~Done')
    BY <2>1, <2>6
  <2>9. QED  BY <2>1, <2>4, <2>7, <2>8 DEF BuiltInv
<1>7. QED  BY <1>3, <1>4, <1>5, <1>6, StepsObserve

\* Prose is checked against the records it is stored beside: the synthesis is the
\* last step, so no step replaces the evidence after it.
SynthesisInv ==
    /\ synthesis # None => at \notin Positions
    /\ GroundedMeansSupported

LEMMA GroundingSupports ==
    ASSUME NEW sections, NEW drafts
    PROVE  LET s == Grounding(sections, drafts)
           IN  /\ s.cited \subseteq RulesOf(drafts)
               /\ s.grounded =>
                     \A key \in DOMAIN s.sections :
                         /\ s.sections[key].levels \subseteq {d.level : d \in drafts}
                         /\ s.sections[key].substantive /\ key # "improve" =>
                               \E d \in drafts : d.rule \in s.sections[key].cites
<1>1. \A section : section.cites \cap RulesOf(drafts) # {} =>
                       \E d \in drafts : d.rule \in section.cites
  BY DEF RulesOf
<1>2. QED  BY <1>1 DEF Grounding, Grounded

LEMMA StepsKeepSynthesis == ASSUME RunInv, RowsInv, SynthesisInv, Next PROVE SynthesisInv'
<1>1. at \in Positions /\ synthesis = None  BY StepsKeepRows DEF SynthesisInv
<1>2. CASE synthesis' = None  BY <1>2 DEF SynthesisInv, GroundedMeansSupported
<1>3. CASE synthesis' # None
  <2>1. Synthesize
    BY <1>1, <1>3, StepsObserve
       DEF Observes, Finish, SkipRest, Conclude, ConcludeFails, results
  <2>2. \E sections : synthesis' = Grounding(sections, evidence)
    BY <1>1, <1>3, <2>1 DEF Synthesize
  <2>3. evidence' = evidence /\ Order[at] = "synthesis"  BY <2>1 DEF Synthesize, Turn
  <2>4. GroundedMeansSupported'
    BY <2>2, <2>3, GroundingSupports DEF GroundedMeansSupported
  <2>5. at' \notin Positions'
    <3>1. at = Len(Order)  BY <1>1, <2>3, OrderOfSteps
    <3>2. at' = at + 1 /\ Positions' = Positions
      BY StepsKeepRows DEF Order, Positions, W
    <3>3. QED  BY <3>1, <3>2, LengthOfOrder
  <2>6. QED  BY <2>4, <2>5 DEF SynthesisInv
<1>4. QED  BY <1>2, <1>3

-----------------------------------------------------------------------------
(* The invariant *)

IInv ==
    /\ RunInv /\ RowsInv /\ SpokenInv /\ CredibleInv
    /\ EvidenceInv /\ SupportInv /\ BuiltInv /\ SynthesisInv

LEMMA InitialRun == Init => IInv
<1> SUFFICES ASSUME Init PROVE IInv
  OBVIOUS
<1>1. RunInv
  <2>1. at \in 1 .. Len(Order) + 1 /\ ~(at > 1)
    <3> DEFINE n == Len(Order)
    <3>1. at = 1 /\ n \in Nat  BY LengthOfOrder DEF Init
    <3> HIDE DEF n
    <3>2. at \in 1 .. n + 1 /\ ~(at > 1)  BY <3>1
    <3>3. QED  BY <3>2 DEF n
  <2>2. records \in [Positions -> Statuses \ {"unmet"}]  BY DEF Init, Statuses
  <2>3. QED  BY <2>1, <2>2 DEF Init, RunInv
<1>2. RowsInv
  <2>1. rows.forensics = None /\ Whole(rows)  BY DEF Init, NoRows, Whole
  <2>2. QED  BY <2>1 DEF RowsInv, Column
<1>3. SpokenInv /\ CredibleInv
  <2>1. /\ rows.forensics = None /\ rows.provenance = None /\ rows.metadata = None
        /\ rows.text = None /\ rows.ai = None /\ rows.search = None
    BY DEF Init, NoRows
  <2>2. \A s : Speaks(rows, s) => s \in Critical  BY <2>1 DEF Speaks, Vital, Critical
  <2>3. \A i \in Positions : ~(i < at)
    <3>1. at = 1  BY DEF Init
    <3>2. QED  BY <3>1, LengthOfOrder
  <2>4. SpokenInv  BY <2>2, <2>3 DEF Init, SpokenInv
  <2>5. CredibleInv  BY <2>1 DEF CredibleInv, Plausible, Readable
  <2>6. QED  BY <2>4, <2>5
<1>4. EvidenceInv /\ SupportInv  BY DEF Init, EvidenceInv, SupportInv
<1>5. BuiltInv  BY DEF Init, BuiltInv, Bare, Done
<1>6. SynthesisInv  BY DEF Init, SynthesisInv, GroundedMeansSupported
<1>7. QED  BY <1>1, <1>2, <1>3, <1>4, <1>5, <1>6 DEF IInv

LEMMA StepsKeepIInv == IInv /\ [Next]_vars => IInv'
<1> SUFFICES ASSUME IInv, [Next]_vars PROVE IInv'
  OBVIOUS
<1>1. CASE Next
  <2>1. RunInv'  BY <1>1, StepsObserve, ObservesKeepsRun, OthersKeepRun DEF IInv
  <2>2. RowsInv'  BY <1>1, StepsKeepColumns DEF IInv
  <2>3. SpokenInv' /\ CredibleInv'
    BY <1>1, StepsObserve, ObservesKeepsSpoken, OthersKeepSpoken DEF IInv
  <2>4. EvidenceInv'  BY <1>1, EvidenceKeepsLevels DEF IInv
  <2>5. SupportInv'  BY <1>1, <2>3, StepsKeepSupport DEF IInv
  <2>6. BuiltInv'  BY <1>1, <2>3, StepsKeepBuilt DEF IInv
  <2>7. SynthesisInv'  BY <1>1, StepsKeepSynthesis DEF IInv
  <2>8. QED  BY <2>1, <2>2, <2>3, <2>4, <2>5, <2>6, <2>7 DEF IInv
<1>2. CASE UNCHANGED vars
  <2>1. Order' = Order /\ Positions' = Positions /\ Source' = Source
    BY <1>2 DEF vars, Order, Positions, Source, W
  <2>2. RunInv'  BY <1>2, <2>1 DEF IInv, RunInv, vars, Going
  <2>3. RowsInv'  BY <1>2, <2>1 DEF IInv, RowsInv, vars, Column
  <2>4. EvidenceInv' /\ SynthesisInv'
    BY <1>2, <2>1
       DEF IInv, EvidenceInv, SynthesisInv, GroundedMeansSupported, vars, results
  <2>5. SpokenInv'  BY <1>2, <2>1 DEF IInv, SpokenInv, Supported, vars, Going
  <2>6. CredibleInv'  BY <1>2 DEF IInv, CredibleInv, vars
  <2>7. SupportInv'  BY <1>2, <2>1 DEF IInv, SupportInv, Supported, vars, results
  <2>8. BuiltInv'  BY <1>2, <2>1 DEF IInv, BuiltInv, Bare, Done, vars, results
  <2>9. QED  BY <2>2, <2>3, <2>4, <2>5, <2>6, <2>7, <2>8 DEF IInv
<1>3. QED  BY <1>1, <1>2

LEMMA RunsKeepIInv == Spec => []IInv
  BY InitialRun, StepsKeepIInv, PTL DEF Spec

\* The rows, the records and the evidence have the types the model gives them, in
\* every run of every world.
THEOREM TypeCorrect == Spec => []TypeOK
<1>1. IInv => TypeOK
  BY DEF IInv, RunInv, RowsInv, EvidenceInv, TypeOK
<1>2. QED  BY <1>1, RunsKeepIInv, PTL

\* Whatever the engines answer and whichever step crashes, no step of either
\* pipeline is ever run without what it takes from an earlier one.
THEOREM NoStepEverMissesItsInput == Spec => []NoStepMissesItsInput
<1>1. IInv => NoStepMissesItsInput
  BY DEF IInv, RunInv, NoStepMissesItsInput
<1>2. QED  BY <1>1, RunsKeepIInv, PTL

\* Prose stored as grounded cites records that are stored beside it and names only
\* their levels, whatever the language model wrote.
THEOREM GroundedProseIsSupported == Spec => []GroundedMeansSupported
<1>1. IInv => GroundedMeansSupported  BY DEF IInv, SynthesisInv
<1>2. QED  BY <1>1, RunsKeepIInv, PTL

\* No forensic step takes back what an earlier one has measured.
THEOREM ColumnsSurvive == Spec => ColumnsAreNotClobbered
<1>1. IInv /\ [Next]_vars =>
        [rows.forensics # None =>
          /\ rows'.forensics # None
          /\ \A m \in Methods : rows.forensics[m] # "none" =>
                 rows'.forensics[m] = rows.forensics[m]]_vars
  BY StepsKeepColumns DEF IInv
<1>2. QED  BY <1>1, RunsKeepIInv, PTL DEF Spec, ColumnsAreNotClobbered

\* Whatever the rows hold and however the overrides are set, no run ever writes a
\* record above the ceiling of its rule.
THEOREM CeilingsHold == Spec => LevelsWithinCeilings
<1>1. IInv /\ [Next]_vars =>
        [evidence' # evidence =>
          \A e \in evidence' : e.kind # "conflict" =>
              \E d \in Drafts(rows') :
                  d.rule = e.rule /\ LevelRank[e.level] <= LevelRank[Ceiling(d)]]_vars
  BY EvidenceOfRows, EvidenceRespectsCeilings DEF IInv
<1>2. QED  BY <1>1, RunsKeepIInv, PTL DEF Spec, LevelsWithinCeilings

\* No record above UNKNOWN refers to a step that was skipped, has not run, or failed
\* without an observation: what the rows say is what their own steps observed, and
\* every rule speaks only of rows that are there.
THEOREM FindingsRest == Spec => []FindingsRestOnSteps
<1>1. IInv => FindingsRestOnSteps
  BY DEF IInv, SupportInv, Supported, FindingsRestOnSteps
<1>2. QED  BY <1>1, RunsKeepIInv, PTL

LEMMA BuiltKeepsBothSides ==
    ASSUME NEW o, Plausible(o), evidence = BuildEvidence(o)
    PROVE  ConflictsKeepBothSides
<1> DEFINE conflicts == {d \in evidence : d.kind = "conflict"}
           plain == evidence \ conflicts
<1>1. conflicts = Conflicting(evidence)  BY DEF Conflicting
<1>2. /\ conflicts = ConflictRules(Leveled(o), o) /\ plain = Leveled(o)
      /\ IsFiniteSet(evidence) /\ Sole(evidence)
  BY <1>1, EvidenceSplits
<1> HIDE DEF conflicts, plain
<1>3. Cardinality(RulesOf(evidence)) = Cardinality(evidence)  BY <1>2, SolesHaveOneEach
<1>4. \A c \in conflicts :
        /\ c.level = "UNKNOWN"
        /\ c.sides # {} /\ c.sides \subseteq RulesOf(plain)
        /\ \A d \in Named(plain, c.sides) : d.refs \subseteq c.refs
  BY <1>2, ConflictsAreFair DEF Fair
<1>5. ConflictPenalty > 0 /\ conflicts # {} /\ SynthesisConfidence(plain) > 0 =>
        SynthesisConfidence(evidence) < SynthesisConfidence(plain)
  BY <1>1, <1>2, ConflictsCostConfidence
<1>6. QED  BY <1>3, <1>4, <1>5 DEF ConflictsKeepBothSides, conflicts, plain

\* However the overrides are set and whatever the rows hold, no rule has two records,
\* and a conflict stands beside the records it is between, cites all they cite and
\* lowers the confidence.
THEOREM BothSidesAreKept == Spec => []ConflictsKeepBothSides
<1>1. IInv => ConflictsKeepBothSides
  <2> SUFFICES ASSUME IInv PROVE ConflictsKeepBothSides
    OBVIOUS
  <2>1. CASE evidence = {}
    <3>1. RulesOf(evidence) = {}  BY <2>1 DEF RulesOf
    <3>2. QED  BY <2>1, <3>1 DEF ConflictsKeepBothSides
  <2>2. CASE evidence # {}
    <3>1. PICK o : Plausible(o) /\ evidence = BuildEvidence(o)
      BY <2>2 DEF IInv, BuiltInv, Bare
    <3>2. QED  BY <3>1, BuiltKeepsBothSides
  <2>3. QED  BY <2>1, <2>2
<1>2. QED  BY <1>1, RunsKeepIInv, PTL

\* The record of several anomalies is there exactly when enough families flag one.
THEOREM CorrelatedSignalsAreOneFamily == Spec => []CorrelatedSignalsCountOnce
<1>1. IInv => CorrelatedSignalsCountOnce
  <2> SUFFICES ASSUME IInv PROVE CorrelatedSignalsCountOnce
    OBVIOUS
  <2>1. CASE evidence = {}
    <3>1. "forensics.multiple" \notin RulesOf(evidence)  BY <2>1 DEF RulesOf
    <3>2. {d.family : d \in evidence} \ {""} = {}  BY <2>1
    <3>3. FamiliesForStrong \in Nat \ {0}  BY ThresholdsAssumption
    <3>4. ~(Cardinality({}) >= FamiliesForStrong)  BY <3>3, FS_EmptySet
    <3>5. QED  BY <3>1, <3>2, <3>4 DEF CorrelatedSignalsCountOnce
  <2>2. CASE evidence # {}
    <3>1. PICK o : Readable(o) /\ evidence = BuildEvidence(o)
      BY <2>2 DEF IInv, BuiltInv, Bare
    <3>2. QED  BY <3>1, CorrelatedCountOnce DEF CorrelatedSignalsCountOnce
  <2>3. QED  BY <2>1, <2>2
<1>2. QED  BY <1>1, RunsKeepIInv, PTL

LEMMA CompletedIsDone == StatusOf("evidence") = "completed" => Done
<1> DEFINE places == {i \in Positions : Order[i] = "evidence"}
<1>1. CASE places = {}  BY <1>1 DEF StatusOf
<1>2. CASE places # {}
  <2>1. (CHOOSE i \in places : TRUE) \in places  BY <1>2
  <2>2. QED  BY <1>2, <2>1 DEF StatusOf, Done
<1>3. QED  BY <1>1, <1>2

LEMMA BuiltAgrees ==
    ASSUME NEW o, evidence = BuildEvidence(o),
           timeline = BuildTimeline(o, evidence) \/ (timeline = {} /\ ~Done)
    PROVE  TimelineAgreesWithEvidence
<1>1. CASE timeline = {} /\ ~Done
  BY <1>1, CompletedIsDone DEF TimelineAgreesWithEvidence
<1>2. CASE timeline = BuildTimeline(o, evidence)
  <2>1. \A e \in timeline :
          /\ e.rules \subseteq RulesOf(evidence)
          /\ e.type \notin Ours => \A d \in Named(evidence, e.rules) : d.level = e.certainty
    BY <1>2, EventsPoint
  <2>2. /\ "conflict.capture-after-signing" \in RulesOf(evidence) =>
              /\ {"provenance.valid", "metadata.captured"} \subseteq RulesOf(evidence)
              /\ Follows(timeline, "provenance.signed", "metadata.captured")
        /\ "conflict.published-before-capture" \in RulesOf(evidence) =>
              /\ {"sources.matches", "metadata.captured"} \subseteq RulesOf(evidence)
              /\ Follows(timeline, "source.published", "metadata.captured")
    BY <1>2, ConflictingTimesAreDated
  <2>3. /\ {"provenance.valid", "metadata.captured"} \subseteq RulesOf(evidence) =>
              (Follows(timeline, "provenance.signed", "metadata.captured") =>
                  "conflict.capture-after-signing" \in RulesOf(evidence))
        /\ {"sources.matches", "metadata.captured"} \subseteq RulesOf(evidence) =>
              (Follows(timeline, "source.published", "metadata.captured") =>
                  "conflict.published-before-capture" \in RulesOf(evidence))
    BY <1>2, DatedTimesConflict
  <2>4. LET happens(type) == \E x \in timeline : x.type = type
        IN  /\ "file.identity" \in RulesOf(evidence) => happens("analysis.submitted")
            /\ "metadata.captured" \in RulesOf(evidence) => happens("metadata.captured")
            /\ "sources.matches" \in RulesOf(evidence) => happens("source.discovered")
    BY <1>2, RecordsAreDated
  <2>5. QED  BY <2>1, <2>2, <2>3, <2>4 DEF TimelineAgreesWithEvidence, Ours, Follows
<1>3. QED  BY <1>1, <1>2

\* An event points at records that are there and has their level; unless the step
\* failed, two times contradict each other on the timeline exactly when the conflict
\* of their records is there.
THEOREM TimelineAgrees == Spec => []TimelineAgreesWithEvidence
<1>1. IInv => TimelineAgreesWithEvidence
  <2> SUFFICES ASSUME IInv PROVE TimelineAgreesWithEvidence
    OBVIOUS
  <2>1. CASE Bare  BY <2>1, CompletedIsDone DEF Bare, TimelineAgreesWithEvidence
  <2>2. CASE ~Bare
    <3>1. PICK o : /\ evidence = BuildEvidence(o)
                   /\ timeline = BuildTimeline(o, evidence) \/ (timeline = {} /\ ~Done)
      BY <2>2 DEF IInv, BuiltInv
    <3>2. QED  BY <3>1, BuiltAgrees
  <2>3. QED  BY <2>1, <2>2
<1>2. QED  BY <1>1, RunsKeepIInv, PTL
=============================================================================
