-------------------------- MODULE ProvenanceReading --------------------------
(***************************************************************************)
(* From what the C2PA engine printed to the row the evidence engine reads: *)
(* services/image/provenance.py, provenance_depth.py and                   *)
(* services/provenance/certificates.py.                                    *)
(*                                                                         *)
(* A raw inspection says whether there is a manifest, which validation     *)
(* codes it got, what the separate trust run said, which certificate       *)
(* signed it, and its manifest store: labels to manifests, each with its   *)
(* signing time and a sequence of ingredients.  Titles, names, caps on the *)
(* length of lists and everything that is only quoted are left out.        *)
(***************************************************************************)
EXTENDS Recorded, Sequences

NoBlock == [success |-> {}, informational |-> {}, failure |-> {}]
CodesOf(block) == block.success \cup block.informational \cup block.failure

TrustCodes == {"signingCredential.trusted", "signingCredential.untrusted",
               "signingCredential.expired", "timeStamp.mismatch"}
SuccessCodes == {"claimSignature.validated", "assertion.dataHash.match"}   \* of _SUCCESS_CODES
IdentityCodes == {"cawg.identity.validated", "cawg.identity.mismatch"}
IntegrityCodes == {"assertion.dataHash.mismatch", "ingredient.manifest.mismatch"}

\* An older engine reports an untrusted certificate as a general error as well.
MirroredTrust == "general.error (untrusted)"

ClassifyByWording(code, explained) ==                                       \* mutant
    IF code \in IntegrityCodes \cup {MirroredTrust, "signingCredential.untrusted"}
    THEN "integrity"
    ELSE IF code \in IdentityCodes THEN "identity" ELSE "info"

\* Which question a code answers.  Trust and identity codes come first, whatever
\* their wording; an unknown code is a failure when it is worded like one, and a
\* general error is of the family its explanation speaks of, where it is read.
ClassifyCode(code, explained) ==
    IF code \in TrustCodes \/ (explained /\ code = MirroredTrust) THEN "trust"
    ELSE IF code \in IdentityCodes THEN "identity"
    ELSE IF code \in IntegrityCodes \cup {MirroredTrust} THEN "integrity" ELSE "info"

Family(codes, family) == {code \in codes : ClassifyCode(code, TRUE) = family}
FamilyUnexplained(codes, family) == {code \in codes : ClassifyCode(code, FALSE) = family}

-----------------------------------------------------------------------------
(* Validation and trust *)

\* The engine files an unlisted signer under failure; only integrity stays there.
CodesFromResultsBlock(block) ==
    LET all == CodesOf(block)
    IN  [failure |-> Family(block.failure, "integrity"),
         trust |-> Family(all, "trust"),
         identity |-> Family(all, "identity"),
         success |-> {c \in block.success : ClassifyCode(c, TRUE) \in {"integrity", "info"}},
         informational |-> {c \in block.informational : ClassifyCode(c, TRUE) \in {"integrity", "info"}}
                           \cup Family(block.failure, "info")]

\* The structured results of newer engines, or the flat list sorted the same way.
StructuredValidation(raw) ==
    IF raw.results # None THEN CodesFromResultsBlock(raw.results)
    ELSE [failure |-> Family(raw.status, "integrity"), trust |-> Family(raw.status, "trust"),
          identity |-> Family(raw.status, "identity"),
          success |-> raw.status \cap SuccessCodes,
          informational |-> Family(raw.status, "info") \ SuccessCodes]

\* True needs an explicit trusted signal, False an explicit refusal; otherwise
\* nothing is established.  "off": the trust run was not evaluated.
TrustView(raw) ==
    LET block == IF raw.trust = None THEN NoBlock
                 ELSE IF raw.trust.results = None THEN NoBlock ELSE raw.trust.results
        codes == FamilyUnexplained(
                     (IF raw.trust = None THEN {} ELSE raw.trust.status) \cup CodesOf(block),
                     "trust")
    IN  IF raw.trust = None THEN "off"
        ELSE IF raw.trust.state = "Trusted" \/ "signingCredential.trusted" \in codes
        THEN "trusted"
        ELSE IF \/ codes \cap {"signingCredential.untrusted", "signingCredential.expired"} # {}
                \/ raw.trust.state = "Invalid"
        THEN "untrusted" ELSE "unknown"

\* Whether the leaf certificate was valid when the manifest was signed.
CertificateView(leaf, signedAt) ==
    IF leaf = None \/ ~Parsed(signedAt) THEN "unknown"
    ELSE IF leaf.from <= signedAt /\ signedAt <= leaf.until THEN "inside" ELSE "outside"

-----------------------------------------------------------------------------
(* Depth: ingredients and the chain of manifests *)

MaxIngredientDepth == 8

\* An ingredient fails for an integrity code, and for any code the engine has
\* filed under failure.
Failing(ingredient) ==
    \/ ingredient.failure # {}
    \/ FamilyUnexplained(ingredient.status, "integrity") # {}

Ingredients(store, label) == IF label \in DOMAIN store THEN store[label].ingredients ELSE <<>>

\* The ingredients at each depth of the tree under the active manifest; the depth
\* is limited, which also ends a store that refers to itself.
IngredientsWithin(store, active) ==
    LET members(label) == {Ingredients(store, label)[i] : i \in DOMAIN Ingredients(store, label)}
        level[d \in 1 .. MaxIngredientDepth] ==
            IF d = 1 THEN members(active)
            ELSE LET above == level[d - 1] IN UNION {members(i.label) : i \in above}
    IN  UNION {level[d] : d \in 1 .. MaxIngredientDepth}

\* Breadth first from the active manifest.  A manifest is entered once, under the
\* parent that reaches it first; "" is the parent of the active one.
ManifestChain(store, active) ==
    LET enqueued(label) == [i \in DOMAIN Ingredients(store, label) |->
                               <<Ingredients(store, label)[i].label, label>>]
        entered(w) == Head(w.queue)[1] \in DOMAIN store \ DOMAIN w.parent
        step(w) ==
            IF entered(w)
            THEN [queue |-> Tail(w.queue) \o enqueued(Head(w.queue)[1]),
                  parent |-> [l \in DOMAIN w.parent \cup {Head(w.queue)[1]} |->
                                 IF l \in DOMAIN w.parent THEN w.parent[l] ELSE Head(w.queue)[2]]]
            ELSE [w EXCEPT !.queue = Tail(@)]
        edges == UNION {{l} \X DOMAIN store[l].ingredients : l \in DOMAIN store}
        walk[n \in 0 .. Cardinality(edges) + 1] ==
            IF n = 0 THEN [queue |-> <<<<active, "">>>>, parent |-> [l \in {} |-> ""]]
            ELSE LET w == walk[n - 1] IN IF w.queue = <<>> THEN w ELSE step(w)
    IN  walk[Cardinality(edges) + 1].parent

\* An ingredient signed more than a minute after the manifest it was reached from.
SignedAfterParent(store, chain) ==
    \E l \in DOMAIN chain :
        /\ chain[l] \in DOMAIN chain
        /\ Parsed(store[l].signedAt) /\ Parsed(store[chain[l]].signedAt)
        /\ store[l].signedAt - store[chain[l]].signedAt > 1

-----------------------------------------------------------------------------
(* The row *)

\* Without a manifest only a remote reference is known, and not fetched.
WithoutManifest(raw) ==
    [hasC2pa |-> FALSE, valid |-> FALSE, location |-> IF raw.remote THEN "remote" ELSE "none",
     remoteHost |-> raw.remote, trust |-> "off", certificate |-> "unknown",
     sourceTypes |-> {}, training |-> FALSE, identity |-> FALSE, codes |-> {},
     ingredientFailures |-> FALSE, signedAt |-> Absent, orderConflict |-> FALSE,
     actions |-> {}, chain |-> {}]

\* The signature is valid when the engine says so and no integrity code, flat or
\* structured, says otherwise.
NormalizeProvenance(raw) ==
    LET validation == StructuredValidation(raw)
        codes == raw.status \cup UNION {validation[family] : family \in DOMAIN validation}
        failures == Family(raw.status, "integrity") \cup validation.failure
        active == raw.store[raw.active]
        chain == ManifestChain(raw.store, raw.active)
    IN  IF ~raw.present THEN WithoutManifest(raw)
        ELSE [hasC2pa |-> TRUE,
              valid |-> "claimSignature.validated" \in codes /\ failures = {},
              location |-> IF raw.sidecar THEN "sidecar" ELSE "embedded",
              remoteHost |-> FALSE,
              trust |-> TrustView(raw),
              certificate |-> CertificateView(raw.leaf, active.signedAt),
              sourceTypes |-> active.sourceTypes,
              training |-> "training" \in active.declares,
              identity |-> "identity" \in active.declares,
              codes |-> codes,
              ingredientFailures |->
                  \E i \in IngredientsWithin(raw.store, raw.active) : Failing(i),
              signedAt |-> active.signedAt,
              orderConflict |-> SignedAfterParent(raw.store, chain),
              actions |-> active.actions,
              chain |-> {raw.store[l].signedAt : l \in DOMAIN chain \ {raw.active}} \ {Absent}]
=============================================================================
