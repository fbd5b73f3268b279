----------------------------- MODULE TextReading -----------------------------
(***************************************************************************)
(* What services/text measures in a text, and how stored fingerprints are  *)
(* compared (services/analysis/similar.py, services/image/similarity.py).  *)
(*                                                                         *)
(* A text is the number of characters of each kind that normalisation      *)
(* removes, the length and the language candidates of what is left, its    *)
(* sentences, and its identities: of the bytes, of the normalised text, of *)
(* the case-folded words, and the set of its shingles.                     *)
(***************************************************************************)
EXTENDS Integers, FiniteSets
Sets == INSTANCE FiniteSetsExt

CONSTANTS NearImage,   \* fingerprint_near_threshold, in bits
          NearText     \* text_near_threshold, in per cent

\* Invisible, direction-changing and control characters are removed and counted;
\* replaced spaces and line endings are not hidden.
HiddenCharacters(x) == x.zeroWidth + x.bidi + x.control

MinimumCharacters == 20

\* The likeliest candidate; a short text is not asked about.
LanguageGuess(x) ==
    IF x.characters < MinimumCharacters \/ x.candidates = {}
    THEN [language |-> FALSE, confidence |-> 0]
    ELSE [language |-> TRUE, confidence |-> Sets!Max(x.candidates)]

\* Every further occurrence of a sentence, whatever its case.
RepeatedSentences(x) ==
    Cardinality(DOMAIN x.sentences)
        - Cardinality({x.sentences[i].words : i \in DOMAIN x.sentences})

\* The sentences worth quoting to a search provider.  A score orders them and a
\* limit cuts the list: what the pipeline asks is whether there is any.
DistinctivePhrases(x) ==
    {x.sentences[i].words : i \in
        {j \in DOMAIN x.sentences : x.sentences[j].count >= 6 /\ ~x.sentences[j].boilerplate}}

\* The share of equal min-hashes estimates this; texts without shingles share none.
Jaccard(a, b) ==
    IF a = {} \/ b = {} THEN 0 ELSE (100 * Cardinality(a \cap b)) \div Cardinality(a \cup b)

\* The strongest relation of a text to another of the user's, or "".
TextRelation(x, other) ==
    IF x.sha256 = other.sha256 THEN "exact"
    ELSE IF x.normalized = other.normalized THEN "normalized"
    ELSE IF x.canonical = other.canonical THEN "canonical"
    ELSE IF Jaccard(x.shingles, other.shingles) >= NearText THEN "near" ELSE ""

\* An image's stored fingerprint as seen from another: the same bytes, or the
\* distances of two perceptual hashes, of which one has to be small.
ImageRelation(other) ==
    IF other.same THEN "exact"
    ELSE IF Sets!Min({other.phash, other.dhash}) <= NearImage THEN "near" ELSE ""

SimilarTexts(x, others) == {TextRelation(x, other) : other \in others} \ {""}
SimilarImages(others) == {ImageRelation(other) : other \in others} \ {""}
=============================================================================
