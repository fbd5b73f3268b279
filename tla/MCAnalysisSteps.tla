--------------------------- MODULE MCAnalysisSteps ---------------------------
(***************************************************************************)
(* Runs of AnalysisSteps in eleven worlds, each rich in the answers of one *)
(* subsystem and plain in the others.                                      *)
(***************************************************************************)
EXTENDS AnalysisSteps, TLC

Confidences == [VERIFIED |-> 100, STRONG |-> 80, PROBABLE |-> 60, POSSIBLE |-> 40]

\* Lower levels, two overrides clamped by their ceilings, one of them on a rule
\* that has none, and no level above what the rule would draft.
Lowering == [r \in {"file.identity", "metadata.captured", "metadata.software",
                    "provenance.training-mining", "forensics.ela.anomaly",
                    "ai.unavailable"} |->
                CASE r = "file.identity" -> "STRONG"
                  [] r = "metadata.captured" -> "UNKNOWN"
                  [] r = "forensics.ela.anomaly" -> "STRONG"
                  [] r = "ai.unavailable" -> "VERIFIED"
                  [] OTHER -> "POSSIBLE"]

\* config.py's defaults: fractions per mille, sigmas and ratios in tenths.
Defaults == [sigma |-> 25, elaMin |-> 5, elaMax |-> 200, gridStrength |-> 80,
             peakRatio |-> 50, noiseK |-> 3, noiseBlock |-> 32, noiseMin |-> 5,
             noiseMax |-> 250, minMatches |-> 200, ghostDepth |-> 120, ghostMin |-> 10,
             ghostMax |-> 600, periodicity |-> 50, correlation |-> 900, thumbMin |-> 10,
             thumbMax |-> 300, aspect |-> 50]

Error == [outcome |-> "error"]
Read(row) == [outcome |-> "read", row |-> row]

\* ---- what the C2PA engine prints --------------------------------------------
Ingredient(label) == [label |-> label, failure |-> {}, status |-> {}]
Manifest(signedAt, ingredients) ==
    [signedAt |-> signedAt, ingredients |-> ingredients, sourceTypes |-> {},
     declares |-> {}, actions |-> {}]

Signed == [present |-> TRUE, thumbnail |-> TRUE, remote |-> FALSE, results |-> None,
           status |-> {"claimSignature.validated"},
           trust |-> [state |-> "Trusted", status |-> {}, results |-> None],
           leaf |-> [from |-> 5, until |-> 15], sidecar |-> FALSE,
           active |-> "m", store |-> "m" :> Manifest(10, <<>>)]
Bare == [Signed EXCEPT !.present = FALSE, !.thumbnail = FALSE, !.status = {}, !.trust = None,
                       !.leaf = None, !.store = "m" :> Manifest(Absent, <<>>)]
Remote == [Bare EXCEPT !.remote = TRUE]
Declaring ==
    [Signed EXCEPT
        !.sidecar = TRUE, !.thumbnail = FALSE, !.status = {}, !.trust = None,
        !.results = [success |-> {"claimSignature.validated", "cawg.identity.validated"},
                     informational |-> {}, failure |-> {"signingCredential.untrusted"}],
        !.store = "m" :> [Manifest(10, <<>>) EXCEPT
                              !.sourceTypes = {"algorithmic", "capture"},
                              !.declares = {"training", "identity"},
                              !.actions = {9, Unreadable}]]
Broken ==
    [Declaring EXCEPT
        !.sidecar = FALSE, !.results = None,
        !.status = {"claimSignature.validated", "assertion.dataHash.mismatch"},
        !.trust = [state |-> "Valid", status |-> {MirroredTrust, "signingCredential.untrusted"},
                   results |-> None],
        !.leaf = [from |-> 0, until |-> 9],
        !.store = "m" :> Manifest(10, <<[Ingredient("a") EXCEPT !.status = {MirroredTrust}]>>)]
\* A source manifest signed after the one that uses it, shared by two ingredients,
\* in a store that refers to itself.
Chained ==
    [Signed EXCEPT
        !.store = "m" :> [Manifest(10, <<Ingredient("a"), Ingredient("b")>>) EXCEPT
                              !.sourceTypes = {"capture"}, !.declares = {"identity"}]
               @@ "a" :> Manifest(Absent, <<Ingredient("b"), Ingredient("m")>>)
               @@ "b" :> Manifest(12, <<Ingredient("gone")>>)]

\* ---- what the extractor prints ----------------------------------------------
NoTags == [t \in {} |-> 0]
Camera == (<<"EXIF", "Make">> :> "make") @@ (<<"EXIF", "DateTimeOriginal">> :> 8)
Edited == (<<"EXIF", "Software">> :> "software") @@ (<<"XMP", "DateTimeOriginal">> :> 13)
          @@ (<<"EXIF", "ModifyDate">> :> 14) @@ (<<"XMP", "History">> :> {13, Absent})
          @@ (<<"EXIF", "GPSDateStamp">> :> 8) @@ (<<"EXIF", "GPSTimeStamp">> :> 8)
Generated == (<<"PNG", "parameters">> :> "prompt") @@ (<<"XMP", "DerivedFrom">> :> "source")
             @@ (<<"XMP", "DigitalSourceType">> :> "algorithmic")
             @@ (<<"EXIF", "DateTimeOriginal">> :> Unreadable) @@ (<<"XMP", "provenance">> :> "url")

\* ---- what the methods measure -----------------------------------------------
Corner == {<<1, 1>>, <<1, 2>>}
Apart == {<<1, 1>>, <<3, 3>>}
Blocks(w, h) == (1 .. w) \X (1 .. h)
Marked(blocks, marks, high, low) == [c \in blocks |-> IF c \in marks THEN high ELSE low]

Levelled(marks) == [levels |-> Marked(Blocks(4, 4), marks, 60, 2)]
Gridded(side, aligned, offset) ==
    LET profile == [k \in 0 .. 7 |-> IF k = 0 THEN aligned ELSE IF k = 3 THEN offset ELSE 0]
    IN  [side |-> side, x |-> profile, y |-> profile]
Peaks(side, ratios) == [side |-> side, ratios |-> ratios]
Noisy(side, marks) == [side |-> side, sigma |-> Marked(Blocks(4, 4), marks, 60, 20),
                       baseline |-> 20, spread |-> 2]
Moved(side, groups) == [side |-> side, groups |-> groups]
Group(pairs, density) == [pairs |-> pairs, density |-> density]
Ghost == <<300, 300, 100, 300, 300, 200, 100, 0>>
Smooth == <<300, 300, 300, 300, 300, 200, 100, 0>>
Saved(marks, last, periodicity) ==
    [curves |-> Marked(Blocks(3, 4), marks, Ghost, Smooth), last |-> last,
     periodicity |-> periodicity]
Thumb(plain, turned, rest, aspect, marks) ==
    [present |-> TRUE, bytes |-> 8, readable |-> TRUE, side |-> 160, plain |-> plain,
     turned |-> turned, rest |-> rest, aspect |-> aspect,
     levels |-> Marked(Blocks(4, 4), marks, 90, 5)]
Faithful == Thumb(980, 300, 980, 0, {})
Regional == Thumb(850, 300, 970, 0, Corner)
Different == Thumb(400, 300, 400, 0, {})

Quiet == [m \in Methods |->
    CASE m = "ela" -> {Levelled({})}
      [] m = "compression" -> {Gridded(640, 500, 0)}
      [] m = "double_compression" -> {Saved({}, 8, 0)}
      [] m \in {"thumbnail", "c2pa_thumbnail"} -> {Faithful}
      [] m = "resampling" -> {Peaks(640, {30})}
      [] m = "noise" -> {Noisy(640, {})}
      [] OTHER -> {Moved(640, <<>>)}]

\* ---- texts, libraries, providers --------------------------------------------
Prose == [zeroWidth |-> 1, bidi |-> 0, control |-> 0, characters |-> 400,
          candidates |-> {95, 5},
          sentences |-> <<[words |-> "s1", count |-> 9, boilerplate |-> FALSE],
                          [words |-> "s2", count |-> 4, boilerplate |-> FALSE],
                          [words |-> "s1", count |-> 9, boilerplate |-> FALSE]>>,
          sha256 |-> "p", normalized |-> "p", canonical |-> "p", shingles |-> 1 .. 6]
Doubtful == [Prose EXCEPT !.candidates = {40}, !.zeroWidth = 0]
Scrap == [Prose EXCEPT !.characters = 12, !.candidates = {}, !.zeroWidth = 0,
                       !.sentences = <<[words |-> "s3", count |-> 3, boilerplate |-> TRUE]>>]
Copy == [sha256 |-> "p", normalized |-> "p", canonical |-> "p", shingles |-> 1 .. 6]
Recased == [Copy EXCEPT !.sha256 = "q", !.normalized = "q"]
Reworked == [sha256 |-> "r", normalized |-> "r", canonical |-> "r", shingles |-> 2 .. 7]
Stranger == [sha256 |-> "z", normalized |-> "z", canonical |-> "z", shingles |-> 7 .. 9]
Twin == [same |-> TRUE, phash |-> 0, dhash |-> 0]
Resized == [same |-> FALSE, phash |-> 12, dhash |-> 10]
Unlike == [same |-> FALSE, phash |-> 11, dhash |-> 30]

Skipped == [outcome |-> "skipped"]
Discarded == [outcome |-> "discarded"]
Score(score, calibrated) ==
    [outcome |-> "answer", row |-> [score |-> score, calibrated |-> calibrated]]
Found(times) == [outcome |-> "answer", row |-> [published |-> times]]

Section(cites, levels) == [cites |-> cites, levels |-> levels, substantive |-> TRUE]
Brief == [cites |-> {}, levels |-> {}, substantive |-> FALSE]
Story(direct, improve) ==
    [outcome |-> "answer", sections |-> [direct |-> direct, improve |-> improve]]
Told == Story(Section({"file.identity", "invented"}, {"UNKNOWN"}), Brief)

\* ---- worlds ---------------------------------------------------------------
Plain_ == [type |-> "image", format |-> "JPEG", file |-> TRUE, intact |-> {TRUE},
           crashes |-> {}, stored |-> {TRUE}, metadata |-> {Read(Camera)},
           provenance |-> {Read(Signed)}, measures |-> Quiet, text |-> Prose,
           others |-> {{}}, ai |-> {Score(90, TRUE)}, search |-> {Found({})}, llm |-> {Told}]

\* Declared, signed and recorded histories against each other.
Histories == [Plain_ EXCEPT
    !.provenance = {Error} \cup
        {Read(raw) : raw \in {Bare, Remote, Signed, Declaring, Broken, Chained}},
    !.metadata = {Error} \cup {Read(raw) : raw \in {NoTags, Camera, Edited, Generated}},
    !.ai = {Score(90, TRUE), Score(90, FALSE)},
    !.search = {Found({7, 12, Absent}), Found({Unreadable}), Found({})},
    !.others = {{}, {Twin, Resized}, {Unlike}}]

\* Forensic methods that agree and disagree.
Anomalies == [Plain_ EXCEPT
    !.measures = [m \in Methods |->
        CASE m = "ela" -> {Levelled(Corner), Levelled(Apart)}
          [] m = "compression" -> {Gridded(640, 500, 400), Gridded(640, 500, 240)}
          [] m = "double_compression" ->
                 {Saved(Corner \cup {<<2, 1>>}, 8, 0), Saved(Blocks(3, 4), 0, 0),
                  Saved({}, 8, 60)}
          [] m = "thumbnail" ->
                 {Thumb(950, 300, 950, 80, {}), Regional, Different}
          [] m = "c2pa_thumbnail" ->
                 {Thumb(500, 960, 500, 0, {}), Regional, [Faithful EXCEPT !.readable = FALSE]}
          [] m = "resampling" -> {Peaks(640, {60, 20})}
          [] m = "copy_move" -> {Moved(640, <<Group(900, 100), Group(250, 400)>>),
                                 Moved(640, <<Group(900, 100), Group(150, 400)>>),
                                 Moved(64, <<>>)}
          [] OTHER -> {Noisy(640, Corner), Noisy(640, Apart), Noisy(640, {})}],
    !.search = {Skipped}, !.ai = {Skipped}, !.llm = {Skipped}]

\* A format most methods do not apply to, and a small image.
Foreign == [Plain_ EXCEPT
    !.format = "PNG",
    !.measures = [m \in Methods |->
        CASE m = "compression" -> {Gridded(48, 500, 0), Gridded(640, 500, 0)}
          [] m = "resampling" -> {Peaks(100, {60}), Peaks(640, {30})}
          [] m = "noise" -> {Noisy(63, Corner), Noisy(640, {<<1, 1>>})}
          [] m = "copy_move" -> {Moved(95, <<Group(900, 900)>>)}
          [] OTHER -> Quiet[m]],
    !.provenance = {Error, Read(Signed)}, !.ai = {Score(NoNumber, FALSE), Score(50, TRUE)}]

\* The store refuses pictures.
Unstored == [Plain_ EXCEPT !.stored = {TRUE, FALSE},
    !.measures = [Quiet EXCEPT !["noise"] = {Noisy(640, Corner)},
                               !["ela"] = {Levelled(Corner)},
                               !["c2pa_thumbnail"] = {Different}]]

\* Engines and providers that fail, and steps that crash.
Faulty == [Plain_ EXCEPT
    !.intact = {TRUE, FALSE}, !.metadata = {Error, Read(Camera)},
    !.provenance = {Error, Read(Signed)},
    !.crashes = {"hashing", "ela", "compression", "noise", "c2pa_thumbnail", "copy_move",
                 "evidence", "timeline"},
    !.ai = {Skipped, Error}, !.search = {Skipped, Error, Discarded},
    !.llm = {Skipped, Error, Told}]

NoFile == [Plain_ EXCEPT !.file = FALSE]

\* Explanations that cite strangers, name absent levels or say nothing.
Explained == [Plain_ EXCEPT
    !.llm = {Skipped, Error} \cup
        {Story(Section(cites, levels), improve) :
            cites \in {{}, {"file.identity"}, {"invented"}},
            levels \in {{}, {"UNKNOWN"}, {"VERIFIED"}, {"PROBABLE"}},
            improve \in {Brief, Section({}, {}), Section({"invented"}, {"STRONG"})}},
    !.ai = {Score(90, TRUE), Skipped}, !.provenance = {Read(Signed), Error}]

Texts(x) == [Plain_ EXCEPT
    !.type = "text", !.text = x, !.intact = {TRUE, FALSE},
    !.ai = {Skipped, Error, Score(90, TRUE), Score(60, FALSE), Score(10, TRUE)},
    !.search = {Skipped, Error, Found({3}), Discarded},
    !.others = {{}, {Copy, Stranger}, {Recased, Reworked}},
    !.crashes = {"language", "statistics", "fingerprints"}]

AllWorlds == <<Histories, Anomalies, Foreign, Unstored, Faulty, NoFile, Explained,
               Texts(Prose), Texts(Doubtful), Texts(Scrap),
               [Texts(Prose) EXCEPT !.file = FALSE, !.intact = {TRUE}, !.crashes = {}]>>
=============================================================================
