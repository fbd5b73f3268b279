------------------------- MODULE C2paInspectionProofs -------------------------
(***************************************************************************)
(* What the inspections leave on disk and what they write of a file, for   *)
(* any number of them, any files, any engine and any number of stops.  An  *)
(* output directory may outlive its command only with an inspection that   *)
(* was cancelled under it, so the first invariant (IInv) also says that    *)
(* none that still runs has an outcome.  The second (RowInv) follows what  *)
(* an inspection has heard from command to command, to the row it makes.   *)
(***************************************************************************)
EXTENDS C2paInspection, TLAPS

Unfinished == {"idle", "look up"} \cup Commands
Holding == {"look up", "remove", "dead"} \cup Commands

\* What is allowed of one entry.
Kept(entry) ==
    /\ entry \in Inspections \X {"asset", "sidecar", "output"}
    /\ entry[2] = "output" => at[entry[1]] \in {"--output", "dead"} \/ outcome[entry[1]] = Cancelled
    /\ entry[2] # "output" => at[entry[1]] \in Holding

IInv ==
    /\ DOMAIN at = Inspections /\ DOMAIN outcome = Inspections
    /\ \A i \in Inspections : at[i] \in Unfinished => outcome[i] = None
    /\ \A entry \in temp : Kept(entry)

LEMMA CommandsOfRuns ==
    /\ \A k \in DOMAIN AssetRuns : AssetRuns[k] \in Commands
    /\ {"--version", "--help", "summary", "-d", "--info", "--tree", "--certs", "--output", "trust"}
         = Commands
<1>1. \A k \in DOMAIN AssetRuns : AssetRuns[k] \in Commands  BY DEF Commands
<1>2. /\ \A k \in 1 .. 7 : AssetRuns[k] \in {"summary", "-d", "--info", "--tree",
                                            "--certs", "--output", "trust"}
      /\ DOMAIN AssetRuns = 1 .. 7
      /\ AssetRuns[1] = "summary" /\ AssetRuns[2] = "-d" /\ AssetRuns[3] = "--info"
      /\ AssetRuns[4] = "--tree" /\ AssetRuns[5] = "--certs" /\ AssetRuns[6] = "--output"
      /\ AssetRuns[7] = "trust"
  BY DEF AssetRuns
<1>3. QED  BY <1>2, <1>1 DEF Commands

LEMMA NoneIsNoOutcome == None # Cancelled
<1>1. DOMAIN None = {"none"} /\ DOMAIN Cancelled = {"outcome"}  BY DEF None, Cancelled
<1>2. QED  BY <1>1

\* An inspection goes on, or on to removing its files.
LEMMA GoesKeeps ==
    ASSUME IInv, NEW i \in Inspections, at[i] \in Unfinished,
           NEW next \in {"remove"} \cup Commands, Goes(i, next),
           DOMAIN outcome' = Inspections,
           \A j \in Inspections \ {i} : outcome'[j] = outcome[j],
           next = "remove" \/ outcome'[i] = outcome[i]
    PROVE  IInv'
<1>1. /\ DOMAIN at' = Inspections /\ at'[i] = next
      /\ \A j \in Inspections \ {i} : at'[j] = at[j]
  BY DEF Goes, IInv
<1>2. \A j \in Inspections : at'[j] \in Unfinished => outcome'[j] = None
  <2>1. "remove" \notin Unfinished  BY CommandsOfRuns DEF Unfinished
  <2>2. QED  BY <1>1, <2>1 DEF IInv
<1>3. ASSUME NEW entry \in temp' PROVE Kept(entry)'
  <2>1. CASE entry = <<i, "output">> /\ next = "--output"
    BY <2>1, <1>1 DEF Kept
  <2>2. CASE entry \in temp /\ entry # <<i, "output">>
    <3>1. Kept(entry)  BY <2>2 DEF IInv
    <3>2. CASE entry[1] = i
      <4>1. entry[2] # "output"  BY <2>2, <3>1, <3>2 DEF Kept
      <4>2. next \in Holding  BY DEF Holding
      <4>3. QED  BY <1>1, <3>1, <3>2, <4>1, <4>2 DEF Kept
    <3>3. CASE entry[1] # i  BY <1>1, <3>1, <3>3 DEF Kept
    <3>4. QED  BY <3>2, <3>3
  <2>3. QED  BY <2>1, <2>2 DEF Goes
<1>4. QED  BY <1>1, <1>2, <1>3 DEF IInv

LEMMA ConcludesKeeps ==
    ASSUME IInv, NEW i \in Inspections, at[i] \in Commands, NEW result, Concludes(i, result)
    PROVE  IInv'
  BY GoesKeeps DEF Concludes, Unfinished, IInv

LEMMA ContinuesKeeps ==
    ASSUME IInv, NEW i \in Inspections, at[i] \in Commands, NEW h, Continues(i, h)
    PROVE  IInv'
<1>1. \/ Goes(i, "remove") /\ \E row : outcome' = [outcome EXCEPT ![i] = row]
      \/ UNCHANGED outcome /\ \E k \in DOMAIN AssetRuns : Goes(i, AssetRuns[k])
  BY DEF Continues
<1>2. QED  BY <1>1, GoesKeeps, CommandsOfRuns DEF Unfinished, IInv

LEMMA ProceedKeeps ==
    ASSUME IInv, NEW i \in Inspections, Proceed(i)
    PROVE  IInv'
<1>1. CASE Begin(i)
  <2>1. /\ DOMAIN at' = Inspections /\ DOMAIN outcome' = Inspections
        /\ \A j \in Inspections \ {i} : at'[j] = at[j] /\ outcome'[j] = outcome[j]
        /\ at'[i] \in {"look up", "remove"}
        /\ at'[i] = "look up" => outcome'[i] = outcome[i]
    BY <1>1 DEF Begin, IInv
  <2>2. at[i] = "idle" /\ outcome[i] = None /\ outcome[i] # Cancelled
    BY <1>1, NoneIsNoOutcome DEF Begin, IInv, Unfinished
  <2>3. \A j \in Inspections : at'[j] \in Unfinished => outcome'[j] = None
    <3>1. "remove" \notin Unfinished  BY CommandsOfRuns DEF Unfinished
    <3>2. QED  BY <2>1, <2>2, <3>1 DEF IInv
  <2>4. ASSUME NEW entry \in temp' PROVE Kept(entry)'
    <3>1. CASE entry \in {<<i, "asset">>, <<i, "sidecar">>}
      <4>1. entry \in Inspections \X {"asset", "sidecar", "output"}  BY <3>1
      <4>2. entry[1] = i /\ entry[2] # "output"  BY <3>1
      <4>3. at'[i] \in Holding  BY <2>1 DEF Holding
      <4>4. QED  BY <4>1, <4>2, <4>3 DEF Kept
    <3>2. CASE entry \in temp
      <4>1. Kept(entry)  BY <3>2 DEF IInv
      <4>2. "idle" \notin Holding \cup {"--output", "dead"}
        BY CommandsOfRuns DEF Holding
      <4>3. entry[1] # i  BY <4>1, <4>2, <2>2 DEF Kept
      <4>4. QED  BY <2>1, <4>1, <4>3 DEF Kept
    <3>3. QED  BY <1>1, <3>1, <3>2 DEF Begin
  <2>5. QED  BY <2>1, <2>3, <2>4 DEF IInv
<1>2. CASE LookUp(i)
  <2>1. at[i] \in Unfinished /\ outcome' = outcome  BY <1>2 DEF LookUp, Unfinished
  <2>2. Goes(i, "--version") \/ Goes(i, "summary")  BY <1>2 DEF LookUp
  <2>3. QED  BY <2>1, <2>2, GoesKeeps, CommandsOfRuns DEF IInv
<1>3. CASE Retry(i)
  BY <1>3 DEF Retry, IInv, Kept
<1>4. CASE Fail(i)
  BY <1>4, ConcludesKeeps, ContinuesKeeps, CommandsOfRuns DEF Fail
<1>5. CASE ProbeVersion(i) \/ ProbeHelp(i)
  BY <1>5, GoesKeeps, CommandsOfRuns DEF ProbeVersion, ProbeHelp, IInv, Unfinished
<1>6. CASE \/ Summary(i) \/ Detailed(i) \/ Quote(i) \/ Certificates(i)
           \/ ClaimThumbnail(i) \/ Trust(i)
  <2>1. /\ at[i] \in Commands
        /\ (\E result : Concludes(i, result)) \/ (\E h : Continues(i, h))
    BY <1>6, CommandsOfRuns
       DEF Summary, Detailed, Quote, Certificates, ClaimThumbnail, Trust
  <2>2. QED  BY <2>1, ConcludesKeeps, ContinuesKeeps
<1>7. CASE Remove(i)
  <2>1. /\ DOMAIN at' = Inspections /\ outcome' = outcome
        /\ \A j \in Inspections \ {i} : at'[j] = at[j]
        /\ at[i] = "remove" /\ at'[i] = "done" /\ temp' = temp \ Owned(i)
    BY <1>7 DEF Remove, IInv
  <2>2. \A j \in Inspections : at'[j] \in Unfinished => outcome'[j] = None
    BY <2>1, CommandsOfRuns DEF IInv, Unfinished
  <2>3. ASSUME NEW entry \in temp' PROVE Kept(entry)'
    <3>1. Kept(entry) /\ entry \notin {<<i, "asset">>, <<i, "sidecar">>}
      BY <2>1 DEF IInv, Owned
    <3>2. CASE entry[1] = i
      <4>1. entry[2] = "output"  BY <3>1, <3>2 DEF Kept
      <4>2. QED  BY <2>1, <3>1, <3>2, <4>1 DEF Kept
    <3>3. CASE entry[1] # i  BY <2>1, <3>1, <3>3 DEF Kept
    <3>4. QED  BY <3>2, <3>3
  <2>4. QED  BY <2>1, <2>2, <2>3 DEF IInv
<1>8. QED
  BY <1>1, <1>2, <1>3, <1>4, <1>5, <1>6, <1>7 DEF Proceed

LEMMA ShutDownKeeps == ASSUME IInv, ShutDown PROVE IInv'
<1>1. /\ DOMAIN at' = Inspections /\ DOMAIN outcome' = Inspections
      /\ \A i \in Inspections :
            /\ at'[i] = IF i \in Running THEN "remove" ELSE at[i]
            /\ outcome'[i] = IF i \in Running /\ outcome[i] = None THEN Cancelled ELSE outcome[i]
  BY DEF ShutDown
<1>2. \A i \in Inspections : at'[i] \in Unfinished => outcome'[i] = None
  <2>1. "remove" \notin Unfinished  BY CommandsOfRuns DEF Unfinished
  <2>2. QED  BY <1>1, <2>1 DEF IInv
<1>3. ASSUME NEW entry \in temp' PROVE Kept(entry)'
  <2>1. entry \in temp  BY DEF ShutDown
  <2>2. Kept(entry) /\ entry[1] \in Inspections  BY <2>1 DEF IInv, Kept
  <2>3. CASE entry[2] = "output" /\ at[entry[1]] = "--output"
    <3>1. entry[1] \in Running /\ outcome[entry[1]] = None
      BY <2>2, <2>3, CommandsOfRuns DEF Running, IInv, Unfinished
    <3>2. QED  BY <1>1, <2>2, <2>3, <3>1 DEF Kept
  <2>4. CASE entry[2] = "output" /\ at[entry[1]] = "dead"
    BY <1>1, <2>2, <2>4 DEF Kept, Running
  <2>5. CASE entry[2] = "output" /\ outcome[entry[1]] = Cancelled
    BY <1>1, <2>2, <2>5 DEF Kept
  <2>6. CASE entry[2] # "output"
    BY <1>1, <2>2, <2>6 DEF Kept, Holding
  <2>7. QED  BY <2>2, <2>3, <2>4, <2>5, <2>6 DEF Kept
<1>4. QED  BY <1>1, <1>2, <1>3 DEF IInv

LEMMA DieKeeps == ASSUME IInv, Die PROVE IInv'
<1>1. /\ DOMAIN at' = Inspections /\ outcome' = outcome /\ temp' = temp
      /\ \A i \in Inspections : at'[i] = IF i \in Running THEN "dead" ELSE at[i]
  BY DEF Die
<1>2. \A i \in Inspections : at'[i] \in Unfinished => outcome'[i] = None
  <2>1. "dead" \notin Unfinished  BY CommandsOfRuns DEF Unfinished
  <2>2. QED  BY <1>1, <2>1 DEF IInv
<1>3. ASSUME NEW entry \in temp' PROVE Kept(entry)'
  <2>1. Kept(entry) /\ entry[1] \in Inspections  BY <1>1 DEF IInv, Kept
  <2>2. QED  BY <1>1, <2>1 DEF Kept, Holding
<1>4. QED  BY <1>1, <1>2, <1>3 DEF IInv

\* Whatever fails, is cancelled or is killed, the verified bytes are on disk only
\* under an inspection that still runs or was killed, and the engine's output only
\* under its command or where a cancellation let the engine go on.
THEOREM FilesAreRemoved == Spec => []NothingIsLeftBehind
<1>1. Init => IInv  BY DEF Init, IInv
<1>2. IInv /\ [Next]_vars => IInv'
  <2> SUFFICES ASSUME IInv, [Next]_vars PROVE IInv'
    OBVIOUS
  <2>1. CASE Next  BY <2>1, ProceedKeeps, ShutDownKeeps, DieKeeps DEF Next
  <2>2. CASE UNCHANGED vars  BY <2>2 DEF vars, IInv, Kept
  <2>3. QED  BY <2>1, <2>2
<1>3. IInv => NothingIsLeftBehind
  BY DEF IInv, Kept, NothingIsLeftBehind, Holding
<1>4. QED  BY <1>1, <1>2, <1>3, PTL DEF Spec

-----------------------------------------------------------------------------
(* What an inspection has heard, and the row it makes of it *)

Early == {"idle", "look up", "--version", "--help", "summary", "-d"}
Late == {"--info", "--tree", "--certs", "--output", "trust"}

PlainResults(f) == IF engine.structured THEN Results(f, FALSE) ELSE None

\* Before the trust run: the codes of the plain run, and the leaf or nothing.
Told(f, h) ==
    /\ DOMAIN h = DOMAIN Nothing
    /\ h.status = PlainStatus(f) /\ h.leaf \in {None, f.leaf}
    /\ h.trust = None /\ h.results = PlainResults(f)

\* When the row is made: the trust run may have settled who signed.
ToldInTheEnd(f, h) ==
    /\ h.status = PlainStatus(f) /\ h.leaf \in {None, f.leaf}
    /\ \/ h.trust = None /\ h.results = PlainResults(f)
       \/ h.trust = TrustReply(f) /\ h.results = h.trust.results

\* There is a manifest, in the file or where the engine was free to fetch it.
HasManifest(i) ==
    /\ ~file[i].quotes
    /\ file[i].kind = "signed" \/ (file[i].kind = "remote" /\ Fetches(i))

Heard(i) ==
    /\ at[i] \in Early => heard[i] = Nothing
    /\ at[i] \in {"-d"} \cup Late => HasManifest(i)
    /\ at[i] \in Late => Told(file[i], heard[i])

\* FailuresOnlyWithhold, of one inspection.
Withheld(i) ==
    outcome[i] \notin {None, Error, Cancelled} =>
        LET f == file[i]  row == outcome[i].row
        IN  /\ f.kind = "signed" /\ ~f.quotes => row.hasC2pa
            /\ row.hasC2pa => ~f.quotes /\ (f.kind = "signed" \/ (f.kind = "remote" /\ Fetches(i)))
            /\ row.hasC2pa =>
                  /\ row.valid = f.intact
                  /\ row.trust \in {"off", IF f.listed THEN "trusted" ELSE "untrusted"}
                  /\ row.certificate \in {"unknown", CertificateView(f.leaf, f.signedAt)}

RowInv ==
    /\ DOMAIN heard = Inspections /\ DOMAIN using = Inspections
    /\ \A i \in Inspections : file[i].intact \in BOOLEAN /\ Heard(i) /\ Withheld(i)

\* The codes of either generation of the engine, as the normalisation sorts them.
LEMMA StatusIsSorted ==
    ASSUME NEW f, f.intact \in BOOLEAN
    PROVE  Family(PlainStatus(f), "integrity") = {} <=> f.intact
<1>1. Altered(f) = {} <=> f.intact  BY DEF Altered
<1>2. \A c \in {"signingCredential.untrusted", "claimSignature.validated", MirroredTrust} :
        ClassifyCode(c, TRUE) # "integrity"
  BY DEF ClassifyCode, TrustCodes, IdentityCodes, IntegrityCodes, MirroredTrust
<1>3. ClassifyCode("assertion.dataHash.mismatch", TRUE) = "integrity"
  BY DEF ClassifyCode, TrustCodes, IdentityCodes, IntegrityCodes, MirroredTrust
<1>4. Family(PlainStatus(f), "integrity") = Altered(f)
  BY <1>2, <1>3 DEF Family, PlainStatus, Altered
<1>5. QED  BY <1>1, <1>4

LEMMA ResultsAreSorted ==
    ASSUME NEW f, f.intact \in BOOLEAN, NEW trusted
    PROVE  LET block == CodesFromResultsBlock(Results(f, trusted))
           IN  /\ "claimSignature.validated" \in block.success
               /\ block.failure = {} <=> f.intact
               /\ DOMAIN block = {"failure", "trust", "identity", "success", "informational"}
               /\ Results(f, trusted) # None
<1> DEFINE r == Results(f, trusted)
<1>1. /\ "claimSignature.validated" \in r.success
      /\ r.failure \subseteq Altered(f) \cup {"signingCredential.untrusted"}
      /\ Altered(f) \subseteq r.failure
  BY DEF Results
<1>2. /\ ClassifyCode("claimSignature.validated", TRUE) = "info"
      /\ ClassifyCode("signingCredential.untrusted", TRUE) = "trust"
      /\ ClassifyCode("assertion.dataHash.mismatch", TRUE) = "integrity"
  BY DEF ClassifyCode, TrustCodes, IdentityCodes, IntegrityCodes, MirroredTrust
<1>3. DOMAIN r = {"success", "informational", "failure"} /\ DOMAIN None = {"none"}
  BY DEF Results, None
<1>4. r # None  BY <1>3
<1> HIDE DEF r
<1>5. Family(r.failure, "integrity") = Altered(f)
  BY <1>1, <1>2 DEF Family, Altered
<1>6. Altered(f) = {} <=> f.intact  BY DEF Altered
<1> DEFINE block == CodesFromResultsBlock(r)
<1>7. /\ block.failure = Family(r.failure, "integrity")
      /\ block.success = {c \in r.success : ClassifyCode(c, TRUE) \in {"integrity", "info"}}
      /\ DOMAIN block = {"failure", "trust", "identity", "success", "informational"}
  BY DEF CodesFromResultsBlock
<1> HIDE DEF block
<1>8. "claimSignature.validated" \in block.success  BY <1>1, <1>2, <1>7
<1>9. block.failure = {} <=> f.intact  BY <1>5, <1>6, <1>7
<1>10. QED  BY <1>4, <1>7, <1>8, <1>9 DEF block, r

LEMMA ReplyFields ==
    ASSUME NEW f
    PROVE  LET reply == TrustReply(f)
           IN  /\ reply # None
               /\ engine.structured =>
                     /\ reply.state = "Trusted" => f.listed
                     /\ reply.status = {} /\ reply.results = Results(f, f.listed)
               /\ ~engine.structured =>
                     /\ reply.state \notin {"Trusted", "Invalid"}
                     /\ reply.results = None
                     /\ reply.status = {IF f.listed THEN "signingCredential.trusted"
                                                    ELSE "signingCredential.untrusted"}
<1> DEFINE reply == TrustReply(f)
<1>1. DOMAIN None = {"none"}  BY DEF None
<1>2. CASE engine.structured
  <2> DEFINE state == IF ~f.intact THEN "Invalid" ELSE IF f.listed THEN "Trusted" ELSE "Valid"
  <2>1. reply = [state |-> state, status |-> {}, results |-> Results(f, f.listed)]
    BY <1>2 DEF TrustReply
  <2>2. state = "Trusted" => f.listed  OBVIOUS
  <2> HIDE DEF state, reply
  <2>3. reply.state = state /\ reply.status = {} /\ reply.results = Results(f, f.listed)
    BY <2>1
  <2>4. "state" \in DOMAIN reply  BY <2>1
  <2>5. reply # None  BY <1>1, <2>4
  <2>6. QED  BY <1>2, <2>2, <2>3, <2>5 DEF reply
<1>3. CASE ~engine.structured
  <2> DEFINE status == {IF f.listed THEN "signingCredential.trusted"
                                    ELSE "signingCredential.untrusted"}
  <2>1. reply = [state |-> "", results |-> None, status |-> status]
    BY <1>3 DEF TrustReply
  <2> HIDE DEF status, reply
  <2>2. reply.state \notin {"Trusted", "Invalid"}  BY <2>1
  <2>3. reply.status = status /\ reply.results = None  BY <2>1
  <2>4. "state" \in DOMAIN reply  BY <2>1
  <2>5. reply # None  BY <1>1, <2>4
  <2>6. QED  BY <1>3, <2>2, <2>3, <2>5 DEF reply, status
<1>4. QED  BY <1>2, <1>3

\* The trust run settles who signed, whichever way the engine says it.
LEMMA RepliesAreRead ==
    ASSUME NEW f, NEW raw, raw.trust = TrustReply(f)
    PROVE  TrustView(raw) = IF f.listed THEN "trusted" ELSE "untrusted"
<1> DEFINE block == IF raw.trust.results = None THEN NoBlock ELSE raw.trust.results
           codes == FamilyUnexplained(raw.trust.status \cup CodesOf(block), "trust")
<1>1. /\ ClassifyCode("signingCredential.trusted", FALSE) = "trust"
      /\ ClassifyCode("signingCredential.untrusted", FALSE) = "trust"
  BY DEF ClassifyCode, TrustCodes
<1>2. raw.trust # None  BY ReplyFields
<1>3. TrustView(raw) =
        IF raw.trust.state = "Trusted" \/ "signingCredential.trusted" \in codes
        THEN "trusted"
        ELSE IF \/ codes \cap {"signingCredential.untrusted", "signingCredential.expired"} # {}
                \/ raw.trust.state = "Invalid"
        THEN "untrusted" ELSE "unknown"
  BY <1>2 DEF TrustView
<1>4. CASE engine.structured
  <2> DEFINE r == Results(f, f.listed)
  <2>1. raw.trust.status = {} /\ raw.trust.results = r  BY <1>4, ReplyFields
  <2>2. raw.trust.state = "Trusted" => f.listed  BY <1>4, ReplyFields
  <2>3. r # None
    <3>1. DOMAIN r = {"success", "informational", "failure"} /\ DOMAIN None = {"none"}
      BY DEF Results, None
    <3>2. QED  BY <3>1
  <2>4. /\ "signingCredential.trusted" \in CodesOf(r) <=> f.listed
        /\ "signingCredential.untrusted" \in CodesOf(r) <=> ~f.listed
    BY DEF CodesOf, Results, Altered
  <2> HIDE DEF r
  <2>5. block = r /\ raw.trust.status \cup CodesOf(block) = CodesOf(r)  BY <2>1, <2>3
  <2>6. /\ "signingCredential.trusted" \in codes <=> f.listed
        /\ "signingCredential.untrusted" \in codes <=> ~f.listed
    BY <1>1, <2>4, <2>5 DEF FamilyUnexplained
  <2> HIDE DEF codes
  <2>7. CASE f.listed  BY <1>3, <2>6, <2>7
  <2>8. CASE ~f.listed  BY <1>3, <2>2, <2>6, <2>8
  <2>9. QED  BY <2>7, <2>8
<1>5. CASE ~engine.structured
  <2>1. /\ raw.trust.state \notin {"Trusted", "Invalid"} /\ raw.trust.results = None
        /\ raw.trust.status = {IF f.listed THEN "signingCredential.trusted"
                                            ELSE "signingCredential.untrusted"}
    BY <1>5, ReplyFields
  <2>2. raw.trust.status \cup CodesOf(block) = raw.trust.status
    BY <2>1 DEF CodesOf, NoBlock
  <2>3. /\ "signingCredential.trusted" \in codes <=> f.listed
        /\ "signingCredential.untrusted" \in codes <=> ~f.listed
    <3>1. codes = {c \in raw.trust.status : ClassifyCode(c, FALSE) = "trust"}
      BY <2>2 DEF FamilyUnexplained
    <3> HIDE DEF codes
    <3>2. CASE f.listed  BY <1>1, <2>1, <3>1, <3>2
    <3>3. CASE ~f.listed  BY <1>1, <2>1, <3>1, <3>3
    <3>4. QED  BY <3>2, <3>3
  <2> HIDE DEF codes
  <2>4. CASE f.listed  BY <1>3, <2>3, <2>4
  <2>5. CASE ~f.listed  BY <1>3, <2>1, <2>3, <2>5
  <2>6. QED  BY <2>4, <2>5
<1>6. QED  BY <1>4, <1>5

\* Whatever was heard besides, the codes of an intact manifest make a valid
\* signature, and those of an altered one do not.
LEMMA ValidityIsIntegrity ==
    ASSUME NEW f, f.intact \in BOOLEAN, NEW raw, raw.status = PlainStatus(f),
           \/ engine.structured /\ \E trusted : raw.results = Results(f, trusted)
           \/ ~engine.structured /\ raw.results = None
    PROVE  LET validation == StructuredValidation(raw)
               codes == raw.status \cup UNION {validation[family] : family \in DOMAIN validation}
               failures == Family(raw.status, "integrity") \cup validation.failure
           IN  "claimSignature.validated" \in codes /\ (failures = {} <=> f.intact)
<1> DEFINE validation == StructuredValidation(raw)
<1>1. Family(raw.status, "integrity") = {} <=> f.intact  BY StatusIsSorted
<1>2. CASE engine.structured
  <2>1. PICK trusted : raw.results = Results(f, trusted)  BY <1>2
  <2>2. /\ "claimSignature.validated" \in validation.success
        /\ validation.failure = {} <=> f.intact
        /\ "success" \in DOMAIN validation
    BY <2>1, ResultsAreSorted DEF StructuredValidation
  <2> HIDE DEF validation
  <2>3. QED  BY <1>1, <2>2 DEF validation
<1>3. CASE ~engine.structured
  <2>1. "claimSignature.validated" \in raw.status  BY <1>3 DEF PlainStatus
  <2>2. validation.failure = Family(raw.status, "integrity")
    BY <1>3 DEF StructuredValidation
  <2> HIDE DEF validation
  <2>3. QED  BY <1>1, <2>1, <2>2 DEF validation
<1>4. QED  BY <1>2, <1>3

LEMMA RowOfManifest ==
    ASSUME NEW raw, raw.present = TRUE
    PROVE  LET row == NormalizeProvenance(raw)
               validation == StructuredValidation(raw)
               codes == raw.status \cup UNION {validation[family] : family \in DOMAIN validation}
               failures == Family(raw.status, "integrity") \cup validation.failure
           IN  /\ row.hasC2pa
               /\ row.valid = ("claimSignature.validated" \in codes /\ failures = {})
               /\ row.trust = TrustView(raw)
               /\ row.certificate = CertificateView(raw.leaf, raw.store[raw.active].signedAt)
  BY DEF NormalizeProvenance

\* A row says of a manifest no more than the engine would.
Faithful(f, row) ==
    /\ row.valid = f.intact
    /\ row.trust \in {"off", IF f.listed THEN "trusted" ELSE "untrusted"}
    /\ row.certificate \in {"unknown", CertificateView(f.leaf, f.signedAt)}

\* What an inspection that read the manifest makes of it.
LEMMA ManifestIsFaithful ==
    ASSUME NEW i \in Inspections, NEW h, file[i].intact \in BOOLEAN,
           ToldInTheEnd(file[i], h)
    PROVE  LET row == NormalizeProvenance(Raw(i, h))
           IN  row.hasC2pa /\ Faithful(file[i], row)
<1> DEFINE f == file[i]
           raw == Raw(i, h)
           row == NormalizeProvenance(raw)
<1> USE DEF ToldInTheEnd
<1>1. /\ raw.present = TRUE /\ raw.status = h.status /\ raw.results = h.results
      /\ raw.trust = h.trust /\ raw.leaf = h.leaf
      /\ raw.store[raw.active].signedAt = f.signedAt
  BY DEF Raw
<1> HIDE DEF raw, f
<1>2. /\ row.hasC2pa
      /\ row.trust = TrustView(raw)
      /\ row.certificate = CertificateView(raw.leaf, raw.store[raw.active].signedAt)
  BY <1>1, RowOfManifest
<1>3. row.valid = f.intact
  <2>1. \/ engine.structured /\ \E trusted : raw.results = Results(f, trusted)
        \/ ~engine.structured /\ raw.results = None
    <3>1. CASE h.results = PlainResults(f)  BY <1>1, <3>1 DEF PlainResults
    <3>2. CASE h.trust = TrustReply(f) /\ h.results = h.trust.results
      <4>1. /\ engine.structured => raw.results = Results(f, f.listed)
            /\ ~engine.structured => raw.results = None
        BY <1>1, <3>2, ReplyFields
      <4>2. QED  BY <4>1
    <3>3. QED  BY <3>1, <3>2 DEF f
  <2>2. f.intact \in BOOLEAN /\ raw.status = PlainStatus(f)  BY <1>1 DEF f
  <2> DEFINE validation == StructuredValidation(raw)
             codes == raw.status \cup UNION {validation[family] : family \in DOMAIN validation}
             failures == Family(raw.status, "integrity") \cup validation.failure
  <2>3. "claimSignature.validated" \in codes /\ (failures = {} <=> f.intact)
    BY <2>1, <2>2, ValidityIsIntegrity
  <2>4. row.valid = ("claimSignature.validated" \in codes /\ failures = {})
    BY <1>1, RowOfManifest
  <2> HIDE DEF codes, failures, row
  <2>5. QED  BY <2>2, <2>3, <2>4
<1>4. row.trust \in {"off", IF f.listed THEN "trusted" ELSE "untrusted"}
  <2>1. CASE h.trust = None  BY <1>1, <1>2, <2>1 DEF TrustView
  <2>2. CASE h.trust = TrustReply(f)
    <3>1. raw.trust = TrustReply(f)  BY <1>1, <2>2
    <3>2. QED  BY <1>2, <3>1, RepliesAreRead
  <2>3. QED  BY <2>1, <2>2 DEF f
<1>5. row.certificate \in {"unknown", CertificateView(f.leaf, f.signedAt)}
  <2>1. CASE h.leaf = None  BY <1>1, <1>2, <2>1 DEF CertificateView
  <2>2. CASE h.leaf = f.leaf  BY <1>1, <1>2, <2>2
  <2>3. QED  BY <2>1, <2>2 DEF f
<1> HIDE DEF row
<1>6. Faithful(f, row)  BY <1>3, <1>4, <1>5 DEF Faithful
<1>7. QED  BY <1>2, <1>6 DEF f, raw, row

-----------------------------------------------------------------------------
(* From command to command *)

LEMMA RunsAreApart ==
    /\ DOMAIN AssetRuns = 1 .. 7
    /\ AssetRuns[1] = "summary" /\ AssetRuns[2] = "-d"
    /\ AssetRuns[6] = "--output" /\ AssetRuns[7] = "trust"
    /\ \A k \in 3 .. 7 : AssetRuns[k] \in Late
    /\ \A s \in Late : \E k \in 3 .. 7 : AssetRuns[k] = s
    /\ \A j, k \in 1 .. 7 : AssetRuns[j] = AssetRuns[k] => j = k
<1>1. /\ DOMAIN AssetRuns = 1 .. 7
      /\ AssetRuns[1] = "summary" /\ AssetRuns[2] = "-d" /\ AssetRuns[3] = "--info"
      /\ AssetRuns[4] = "--tree" /\ AssetRuns[5] = "--certs" /\ AssetRuns[6] = "--output"
      /\ AssetRuns[7] = "trust"
  BY DEF AssetRuns
<1>2. \A k \in 3 .. 7 : k = 3 \/ k = 4 \/ k = 5 \/ k = 6 \/ k = 7  OBVIOUS
<1>3. \A j, k \in 1 .. 7 : AssetRuns[j] = AssetRuns[k] => j = k  BY <1>1
<1>4. \A k \in 3 .. 7 : AssetRuns[k] \in Late  BY <1>1, <1>2 DEF Late
<1>5. 3 \in 3 .. 7 /\ 4 \in 3 .. 7 /\ 5 \in 3 .. 7 /\ 6 \in 3 .. 7 /\ 7 \in 3 .. 7  OBVIOUS
<1>6. \A s \in Late : \E k \in 3 .. 7 : AssetRuns[k] = s  BY <1>1, <1>5 DEF Late
<1>7. QED  BY <1>1, <1>3, <1>4, <1>6

\* The plain run and the thumbnail are always asked for, so the row is made only
\* after both, and the codes are known by then.
Steps(i, h) ==
    \/ /\ at[i] = "summary" /\ at'[i] = "-d"
       /\ outcome'[i] = outcome[i]
    \/ /\ at[i] \in {"-d"} \cup (Late \ {"trust"}) /\ at'[i] \in Late
       /\ outcome'[i] = outcome[i]
    \/ /\ at[i] \in {"--output", "trust"} /\ at'[i] = "remove"
       /\ outcome'[i] = Read(NormalizeProvenance(Raw(i, h)))

LEMMA ContinuesSteps ==
    ASSUME IInv, RowInv, NEW i \in Inspections, at[i] \in {"summary", "-d"} \cup Late,
           NEW h, Continues(i, h)
    PROVE  /\ engine' = engine /\ file' = file /\ using' = using
           /\ heard'[i] = h /\ Steps(i, h)
           /\ \A j \in Inspections \ {i} : /\ at'[j] = at[j] /\ heard'[j] = heard[j]
                                          /\ outcome'[j] = outcome[j]
           /\ DOMAIN heard' = Inspections
<1>1. PICK n \in 1 .. 7 : AssetRuns[n] = at[i]
  <2>1. CASE at[i] \in Late
    <3>1. PICK k \in 3 .. 7 : AssetRuns[k] = at[i]  BY <2>1, RunsAreApart
    <3>2. k \in 1 .. 7  OBVIOUS
    <3>3. QED  BY <3>1, <3>2
  <2>2. CASE at[i] \in {"summary", "-d"}
    <3>1. 1 \in 1 .. 7 /\ 2 \in 1 .. 7  OBVIOUS
    <3>2. QED  BY <2>2, <3>1, RunsAreApart
  <2>3. QED  BY <2>1, <2>2
<1> DEFINE here == CHOOSE k \in DOMAIN AssetRuns : AssetRuns[k] = at[i]
           rest == {k \in DOMAIN AssetRuns : k > here /\ Offered(i, AssetRuns[k])}
<1>2. here = n  BY <1>1, RunsAreApart
<1>3. \/ /\ rest = {} /\ Goes(i, "remove")
         /\ outcome' = [outcome EXCEPT ![i] = Read(NormalizeProvenance(Raw(i, h)))]
      \/ \E k \in rest : /\ \A other \in rest : k <= other
                         /\ Goes(i, AssetRuns[k]) /\ UNCHANGED outcome
  BY DEF Continues
<1>4. Offered(i, "-d") /\ Offered(i, "--output")  BY DEF Offered
<1> HIDE DEF here
<1>5. /\ rest \subseteq 1 .. 7 /\ \A k \in rest : k > n
      /\ n = 1 => 2 \in rest
      /\ n < 6 => 6 \in rest
  BY <1>2, <1>4, RunsAreApart
<1> HIDE DEF rest
<1>6. /\ engine' = engine /\ file' = file /\ using' = using
      /\ heard' = [heard EXCEPT ![i] = h]
  BY DEF Continues
<1>7. /\ heard'[i] = h /\ DOMAIN heard' = Inspections
      /\ \A j \in Inspections \ {i} : heard'[j] = heard[j]
  BY <1>6 DEF RowInv
<1>8. ASSUME NEW next, Goes(i, next)
      PROVE  at'[i] = next /\ \A j \in Inspections \ {i} : at'[j] = at[j]
  BY <1>8 DEF Goes, IInv
<1>9. CASE /\ rest = {} /\ Goes(i, "remove")
           /\ outcome' = [outcome EXCEPT ![i] = Read(NormalizeProvenance(Raw(i, h)))]
  <2>1. n = 6 \/ n = 7  BY <1>5, <1>9
  <2>2. at[i] \in {"--output", "trust"}  BY <1>1, <2>1, RunsAreApart
  <2>3. /\ outcome'[i] = Read(NormalizeProvenance(Raw(i, h)))
        /\ \A j \in Inspections \ {i} : outcome'[j] = outcome[j]
    BY <1>9 DEF IInv
  <2>4. QED  BY <1>6, <1>7, <1>8, <1>9, <2>2, <2>3 DEF Steps
<1>10. ASSUME NEW k \in rest, \A other \in rest : k <= other,
              Goes(i, AssetRuns[k]), UNCHANGED outcome
       PROVE  /\ Steps(i, h)
              /\ \A j \in Inspections \ {i} : at'[j] = at[j] /\ outcome'[j] = outcome[j]
  <2>1. at'[i] = AssetRuns[k] /\ \A j \in Inspections \ {i} : at'[j] = at[j]
    BY <1>8, <1>10
  <2>2. k \in 1 .. 7 /\ k > n  BY <1>5
  <2>3. CASE n = 1
    <3>1. k = 2  BY <1>5, <1>10, <2>2, <2>3
    <3>2. QED  BY <1>1, <1>10, <2>1, <2>3, <3>1, RunsAreApart DEF Steps
  <2>4. CASE n # 1
    <3>1. k \in 3 .. 7 /\ (n = 2 \/ (n \in 3 .. 7 /\ n # 7))  BY <2>2, <2>4
    <3>2. at'[i] \in Late  BY <2>1, <3>1, RunsAreApart
    <3>3. at[i] \in {"-d"} \cup (Late \ {"trust"})
      <4>1. CASE n = 2  BY <4>1, <1>1, RunsAreApart
      <4>2. CASE n \in 3 .. 7 /\ n # 7
        <5>1. at[i] \in Late  BY <4>2, <1>1, RunsAreApart
        <5>2. 7 \in 1 .. 7  OBVIOUS
        <5>3. at[i] # "trust"  BY <4>2, <1>1, <5>2, RunsAreApart
        <5>4. QED  BY <5>1, <5>3
      <4>3. QED  BY <3>1, <4>1, <4>2
    <3>4. QED  BY <1>10, <2>1, <3>2, <3>3 DEF Steps
  <2>5. QED  BY <1>10, <2>1, <2>3, <2>4
<1>11. QED  BY <1>3, <1>6, <1>7, <1>9, <1>10

\* What becomes of an inspection that another step leaves alone, or ends.
LEMMA HeardStays ==
    ASSUME engine' = engine, file' = file, NEW j, using'[j] = using[j],
           heard'[j] = heard[j], at'[j] = at[j] \/ at'[j] \notin Early \cup Late, Heard(j)
    PROVE  Heard(j)'
<1>1. HasManifest(j)' = HasManifest(j)  BY DEF HasManifest, Fetches
<1>2. Told(file[j], heard[j])' = Told(file[j], heard[j])
  BY DEF Told, PlainStatus, PlainResults, Results, Altered
<1>3. CASE at'[j] = at[j]  BY <1>1, <1>2, <1>3 DEF Heard
<1>4. CASE at'[j] \notin Early \cup Late
  <2>1. "-d" \in Early  BY DEF Early
  <2>2. QED  BY <1>4, <2>1 DEF Heard
<1>5. QED  BY <1>3, <1>4

LEMMA WithheldStays ==
    ASSUME file' = file, NEW j, using'[j] = using[j], Withheld(j),
           outcome'[j] = outcome[j] \/ outcome'[j] \in {None, Error, Cancelled}
    PROVE  Withheld(j)'
  BY DEF Withheld, Fetches

\* A step of one inspection.
LEMMA StepOfOne ==
    ASSUME RowInv, NEW i \in Inspections, engine' = engine, file' = file,
           DOMAIN heard' = Inspections, DOMAIN using' = Inspections,
           \A j \in Inspections \ {i} : /\ at'[j] = at[j] /\ heard'[j] = heard[j]
                                       /\ using'[j] = using[j] /\ outcome'[j] = outcome[j],
           Heard(i)', Withheld(i)'
    PROVE  RowInv'
<1>1. \A j \in Inspections \ {i} : Heard(j)' /\ Withheld(j)'
  BY HeardStays, WithheldStays DEF RowInv
<1>2. QED  BY <1>1 DEF RowInv

\* Places where an inspection has no word of the engine to keep.
LEMMA PlacesApart ==
    /\ "remove" \notin Early \cup Late /\ "done" \notin Early \cup Late
    /\ "dead" \notin Early \cup Late
    /\ Early \cap Late = {} /\ Early \subseteq Unfinished /\ Late \subseteq Unfinished
    /\ Late \subseteq Commands /\ Commands = {"--version", "--help", "summary", "-d"} \cup Late
  BY CommandsOfRuns DEF Early, Late, Unfinished

LEMMA OutcomesApart ==
    /\ None # Error /\ None # Cancelled
    /\ \A row : Read(row) \notin {None, Error, Cancelled} /\ Read(row).row = row
<1>1. DOMAIN None = {"none"} /\ DOMAIN Error = {"outcome"} /\ DOMAIN Cancelled = {"outcome"}
  BY DEF None, Error, Cancelled
<1>2. \A row : DOMAIN Read(row) = {"outcome", "row"} /\ Read(row).row = row  BY DEF Read
<1>3. QED  BY <1>1, <1>2

\* An inspection that ends without having read a manifest.
LEMMA ConcludesKeepsRow ==
    ASSUME IInv, RowInv, NEW i \in Inspections, NEW result, Concludes(i, result),
           \/ result = Error
           \/ /\ \E remote : result = Read(WithoutClaim(remote))
              /\ ~(file[i].kind = "signed" /\ ~file[i].quotes)
    PROVE  RowInv'
<1>1. /\ engine' = engine /\ file' = file /\ using' = using /\ heard' = heard
      /\ at'[i] = "remove" /\ outcome'[i] = result
      /\ \A j \in Inspections \ {i} : at'[j] = at[j] /\ outcome'[j] = outcome[j]
  BY DEF Concludes, Goes, IInv
<1>2. Heard(i)'  BY <1>1, HeardStays, PlacesApart DEF RowInv
<1>3. Withheld(i)'
  <2>1. CASE result = Error  BY <1>1, <2>1 DEF Withheld
  <2>2. CASE \E remote : result = Read(WithoutClaim(remote))
    <3>1. PICK remote : result = Read(WithoutClaim(remote))  BY <2>2
    <3>2. outcome'[i].row.hasC2pa = FALSE
      BY <1>1, <3>1, OutcomesApart DEF WithoutClaim, WithoutManifest
    <3>3. CASE result = Error  BY <2>1, <3>3
    <3>4. CASE result # Error
      <4>1. ~(file[i].kind = "signed" /\ ~file[i].quotes)  BY <3>4
      <4>2. QED  BY <1>1, <3>2, <4>1 DEF Withheld
    <3>5. QED  BY <3>3, <3>4
  <2>3. QED  BY <2>1, <2>2
<1>4. QED  BY <1>1, <1>2, <1>3, StepOfOne DEF RowInv

\* An inspection that goes on with what it has heard, or makes its row of it.
LEMMA ContinuesKeepsRow ==
    ASSUME IInv, RowInv, NEW i \in Inspections, at[i] \in {"summary", "-d"} \cup Late,
           NEW h, Continues(i, h), HasManifest(i),
           at[i] = "summary" => h = Nothing,
           at[i] \in {"-d"} \cup (Late \ {"trust"}) => Told(file[i], h),
           at[i] = "trust" => ToldInTheEnd(file[i], h)
    PROVE  RowInv'
<1>1. /\ engine' = engine /\ file' = file /\ using' = using
      /\ heard'[i] = h /\ Steps(i, h)
      /\ \A j \in Inspections \ {i} : /\ at'[j] = at[j] /\ heard'[j] = heard[j]
                                     /\ outcome'[j] = outcome[j]
      /\ DOMAIN heard' = Inspections
  BY ContinuesSteps
<1>2. HasManifest(i)'  BY <1>1 DEF HasManifest, Fetches
<1>3. Told(file[i], h) => Told(file[i], heard[i])'
  BY <1>1 DEF Told, PlainStatus, PlainResults, Results, Altered
<1>4. CASE at[i] = "summary" /\ at'[i] = "-d" /\ outcome'[i] = outcome[i]
  <2>1. "-d" \notin Late  BY DEF Late
  <2>2. Heard(i)'  BY <1>1, <1>2, <1>4, <2>1 DEF Heard
  <2>3. Withheld(i)'  BY <1>1, <1>4, WithheldStays DEF RowInv
  <2>4. QED  BY <1>1, <2>2, <2>3, StepOfOne DEF RowInv
<1>5. CASE /\ at[i] \in {"-d"} \cup (Late \ {"trust"}) /\ at'[i] \in Late
           /\ outcome'[i] = outcome[i]
  <2>1. at'[i] \notin Early  BY <1>5, PlacesApart
  <2>2. Heard(i)'  BY <1>2, <1>3, <1>5, <2>1 DEF Heard
  <2>3. Withheld(i)'  BY <1>1, <1>5, WithheldStays DEF RowInv
  <2>4. QED  BY <1>1, <2>2, <2>3, StepOfOne DEF RowInv
<1>6. CASE /\ at[i] \in {"--output", "trust"} /\ at'[i] = "remove"
           /\ outcome'[i] = Read(NormalizeProvenance(Raw(i, h)))
  <2>1. at[i] = "--output" => at[i] \in {"-d"} \cup (Late \ {"trust"})  BY DEF Late
  <2>2. ToldInTheEnd(file[i], h)  BY <1>6, <2>1 DEF Told, ToldInTheEnd
  <2> DEFINE f == file[i]
             row == NormalizeProvenance(Raw(i, h))
  <2>3. row.hasC2pa /\ Faithful(f, row)
    <3>1. f.intact \in BOOLEAN  BY DEF RowInv
    <3>2. QED  BY <2>2, <3>1, ManifestIsFaithful
  <2>4. outcome'[i].row = row  BY <1>6, OutcomesApart
  <2>5. /\ ~f.quotes
        /\ f.kind = "signed" \/ (f.kind = "remote" /\ Fetches(i)')
    BY <1>1 DEF HasManifest, Fetches
  <2> HIDE DEF row
  <2>6. Withheld(i)'  BY <1>1, <2>3, <2>4, <2>5 DEF Withheld, Faithful
  <2>7. "remove" \notin {"-d"} \cup Late \cup Early  BY DEF Late, Early
  <2>8. Heard(i)'  BY <1>6, <2>7 DEF Heard
  <2>9. QED  BY <1>1, <2>6, <2>8, StepOfOne DEF RowInv
<1>7. QED  BY <1>1, <1>4, <1>5, <1>6 DEF Steps

\* Before its first word, an inspection has no outcome.
LEMMA EarlyKeepsRow ==
    ASSUME IInv, RowInv, NEW i \in Inspections, at[i] \in Early,
           engine' = engine, file' = file, heard' = heard, DOMAIN using' = Inspections,
           \A j \in Inspections \ {i} : /\ at'[j] = at[j] /\ using'[j] = using[j]
                                       /\ outcome'[j] = outcome[j],
           at'[i] \in {"look up", "--version", "--help", "summary", "remove"},
           outcome'[i] \in {outcome[i], Error}
    PROVE  RowInv'
<1>1. outcome[i] = None  BY PlacesApart DEF IInv
<1>2. Withheld(i)'  BY <1>1 DEF Withheld
<1>3. at'[i] \notin {"-d"} \cup Late  BY DEF Late
<1>4. Heard(i)'  BY <1>3 DEF Heard, RowInv
<1>5. QED  BY <1>2, <1>4, StepOfOne DEF RowInv

LEMMA ProceedKeepsRow ==
    ASSUME IInv, RowInv, NEW i \in Inspections, Proceed(i)
    PROVE  RowInv'
<1>1. CASE Begin(i)
  <2>1. /\ at[i] \in Early /\ engine' = engine /\ file' = file /\ heard' = heard
        /\ using' = using /\ at'[i] \in {"look up", "remove"}
        /\ outcome'[i] \in {outcome[i], Error}
        /\ \A j \in Inspections \ {i} : at'[j] = at[j] /\ outcome'[j] = outcome[j]
    BY <1>1 DEF Begin, Early, IInv
  <2>2. QED  BY <2>1, EarlyKeepsRow DEF RowInv
<1>2. CASE LookUp(i)
  <2>1. /\ at[i] \in Early /\ engine' = engine /\ file' = file /\ heard' = heard
        /\ outcome' = outcome /\ at'[i] \in {"--version", "summary"}
        /\ using' = [using EXCEPT ![i] = caps]
        /\ \A j \in Inspections \ {i} : at'[j] = at[j]
    BY <1>2 DEF LookUp, Goes, Early, IInv
  <2>2. DOMAIN using' = Inspections /\ \A j \in Inspections \ {i} : using'[j] = using[j]
    BY <2>1 DEF RowInv
  <2>3. QED  BY <2>1, <2>2, EarlyKeepsRow
<1>3. CASE Retry(i)
  <2>1. /\ engine' = engine /\ file' = file /\ heard' = heard /\ using' = using
        /\ outcome' = outcome /\ at' = at
    BY <1>3 DEF Retry
  <2>2. Heard(i)' /\ Withheld(i)'  BY <2>1, HeardStays, WithheldStays DEF RowInv
  <2>3. QED  BY <2>1, <2>2, StepOfOne DEF RowInv
<1>4. CASE Fail(i)
  <2>1. CASE Concludes(i, Error)  BY <2>1, ConcludesKeepsRow
  <2>2. CASE at[i] = "--output" /\ Continues(i, heard[i])
    <3>1. at[i] \in Late \ {"trust"}  BY <2>2 DEF Late
    <3>2. HasManifest(i) /\ Told(file[i], heard[i])  BY <3>1 DEF RowInv, Heard
    <3>3. QED  BY <2>2, <3>1, <3>2, ContinuesKeepsRow
  <2>3. QED  BY <1>4, <2>1, <2>2 DEF Fail
<1>5. CASE ProbeVersion(i)
  <2>1. /\ at[i] \in Early /\ engine' = engine /\ file' = file /\ heard' = heard
        /\ outcome' = outcome /\ using' = using /\ at'[i] = "--help"
        /\ \A j \in Inspections \ {i} : at'[j] = at[j]
    BY <1>5 DEF ProbeVersion, Goes, Early, IInv
  <2>2. QED  BY <2>1, EarlyKeepsRow DEF RowInv
<1>6. CASE ProbeHelp(i)
  <2>1. /\ at[i] \in Early /\ engine' = engine /\ file' = file /\ heard' = heard
        /\ outcome' = outcome /\ at'[i] = "summary"
        /\ \E answer : using' = [using EXCEPT ![i] = answer]
        /\ \A j \in Inspections \ {i} : at'[j] = at[j]
    BY <1>6 DEF ProbeHelp, Goes, Early, IInv
  <2>2. DOMAIN using' = Inspections /\ \A j \in Inspections \ {i} : using'[j] = using[j]
    BY <2>1 DEF RowInv
  <2>3. QED  BY <2>1, <2>2, EarlyKeepsRow
<1>7. CASE Summary(i)
  <2>1. at[i] = "summary" /\ at[i] \in Early  BY <1>7 DEF Summary, Early
  <2>2. heard[i] = Nothing  BY <2>1 DEF RowInv, Heard
  <2>3. \/ /\ \E remote : Concludes(i, Read(WithoutClaim(remote)))
           /\ ~(file[i].kind = "signed" /\ ~file[i].quotes)
        \/ Concludes(i, Error)
        \/ HasManifest(i) /\ Continues(i, heard[i])
    BY <1>7 DEF Summary, HasManifest
  <2>4. "summary" \notin {"-d"} \cup Late  BY DEF Late
  <2>5. CASE HasManifest(i) /\ Continues(i, heard[i])
    BY <2>1, <2>2, <2>4, <2>5, ContinuesKeepsRow
  <2>6. QED  BY <2>3, <2>5, ConcludesKeepsRow
<1>8. CASE Detailed(i)
  <2> DEFINE results == IF engine.structured THEN Results(file[i], FALSE) ELSE None
             h == [heard[i] EXCEPT !.status = PlainStatus(file[i]), !.results = results]
  <2>1. at[i] = "-d" /\ at[i] \in Early /\ Continues(i, h)
    BY <1>8 DEF Detailed, Early
  <2>2. heard[i] = Nothing /\ HasManifest(i)  BY <2>1 DEF RowInv, Heard
  <2>3. results = PlainResults(file[i])  BY DEF PlainResults
  <2> HIDE DEF results
  <2>4. Told(file[i], h)
    <3>1. DOMAIN h = DOMAIN Nothing /\ h.status = PlainStatus(file[i])
          /\ h.results = results /\ h.leaf = None /\ h.trust = None
      BY <2>2 DEF Nothing
    <3> HIDE DEF h
    <3>2. QED  BY <2>3, <3>1 DEF Told
  <2> HIDE DEF h
  <2>5. "-d" # "trust" /\ "-d" # "summary"  OBVIOUS
  <2>6. QED  BY <2>1, <2>2, <2>4, <2>5, ContinuesKeepsRow
<1>9. ASSUME at[i] \in Late
      PROVE  /\ at[i] # "summary" /\ HasManifest(i) /\ Told(file[i], heard[i])
             /\ DOMAIN heard[i] = {"results", "status", "trust", "leaf", "thumbnail"}
  <2>1. HasManifest(i) /\ Told(file[i], heard[i])  BY <1>9 DEF RowInv, Heard
  <2>2. DOMAIN Nothing = {"results", "status", "trust", "leaf", "thumbnail"}  BY DEF Nothing
  <2>3. "summary" \notin Late  BY DEF Late
  <2>4. QED  BY <1>9, <2>1, <2>2, <2>3 DEF Told
<1>10. ASSUME NEW h, at[i] \in Late, Told(file[i], h), Continues(i, h)
       PROVE  RowInv'
  BY <1>9, <1>10, ContinuesKeepsRow DEF Told, ToldInTheEnd
<1>11. CASE Quote(i)
  <2>1. at[i] \in Late /\ Continues(i, heard[i])  BY <1>11 DEF Quote, Late
  <2>2. QED  BY <1>9, <1>10, <2>1
<1>12. CASE Certificates(i)
  <2>1. PICK leaf \in {file[i].leaf, None} : Continues(i, [heard[i] EXCEPT !.leaf = leaf])
    BY <1>12 DEF Certificates
  <2>2. at[i] \in Late  BY <1>12 DEF Certificates, Late
  <2>3. Told(file[i], [heard[i] EXCEPT !.leaf = leaf])  BY <1>9, <2>1, <2>2 DEF Told
  <2>4. QED  BY <1>10, <2>1, <2>2, <2>3
<1>13. CASE ClaimThumbnail(i)
  <2>1. PICK found \in BOOLEAN : Continues(i, [heard[i] EXCEPT !.thumbnail = found])
    BY <1>13 DEF ClaimThumbnail
  <2>2. at[i] \in Late  BY <1>13 DEF ClaimThumbnail, Late
  <2>3. Told(file[i], [heard[i] EXCEPT !.thumbnail = found])  BY <1>9, <2>1, <2>2 DEF Told
  <2>4. QED  BY <1>10, <2>1, <2>2, <2>3
<1>14. CASE Trust(i)
  <2>1. at[i] = "trust" /\ at[i] \in Late  BY <1>14 DEF Trust, Late
  <2>2. CASE Continues(i, heard[i])  BY <1>9, <1>10, <2>1, <2>2
  <2>3. CASE ~Continues(i, heard[i])
    <3> DEFINE reply == TrustReply(file[i])
               h == [heard[i] EXCEPT !.trust = reply, !.results = reply.results]
    <3>1. Continues(i, h)  BY <1>14, <2>3 DEF Trust
    <3> HIDE DEF reply
    <3>2. h.status = heard[i].status /\ h.leaf = heard[i].leaf /\ h.trust = reply
          /\ h.results = reply.results
      BY <1>9, <2>1
    <3> HIDE DEF h
    <3>3. ToldInTheEnd(file[i], h)  BY <1>9, <2>1, <3>2 DEF Told, ToldInTheEnd, reply
    <3>4. QED  BY <1>9, <2>1, <3>1, <3>3, ContinuesKeepsRow
  <2>4. QED  BY <2>2, <2>3
<1>15. CASE Remove(i)
  <2>1. /\ engine' = engine /\ file' = file /\ heard' = heard /\ using' = using
        /\ outcome' = outcome /\ at'[i] = "done"
        /\ \A j \in Inspections \ {i} : at'[j] = at[j]
    BY <1>15 DEF Remove, IInv
  <2>2. Heard(i)' /\ Withheld(i)'
    BY <2>1, HeardStays, WithheldStays, PlacesApart DEF RowInv
  <2>3. QED  BY <2>1, <2>2, StepOfOne DEF RowInv
<1>16. QED
  BY <1>1, <1>2, <1>3, <1>4, <1>5, <1>6, <1>7, <1>8, <1>11, <1>12, <1>13, <1>14, <1>15
     DEF Proceed

LEMMA StopKeepsRow == ASSUME IInv, RowInv, ShutDown \/ Die PROVE RowInv'
<1>1. /\ engine' = engine /\ file' = file /\ using' = using /\ heard' = heard
      /\ \A i \in Inspections : /\ at'[i] \in {at[i], "remove", "dead"}
                                /\ outcome'[i] \in {outcome[i], Cancelled}
  BY DEF ShutDown, Die
<1>2. \A i \in Inspections : Heard(i)' /\ Withheld(i)'
  BY <1>1, HeardStays, WithheldStays, PlacesApart DEF RowInv
<1>3. QED  BY <1>1, <1>2 DEF RowInv

\* Whatever fails, is retried, is cancelled or is killed, and whatever the binary
\* can do, a row says of its file what the engine would have said or less: no
\* intact manifest is read as altered and no altered one as intact.
THEOREM RowsWithhold == Spec => []FailuresOnlyWithhold
<1>1. Init => IInv /\ RowInv
  <2> SUFFICES ASSUME Init PROVE IInv /\ RowInv
    OBVIOUS
  <2>1. \A i \in Inspections : file[i].intact \in BOOLEAN  BY FilesAssumption DEF Init
  <2>2. "idle" \notin {"-d"} \cup Late  BY DEF Late
  <2>3. \A i \in Inspections : Heard(i) /\ Withheld(i)  BY <2>2 DEF Init, Heard, Withheld
  <2>4. QED  BY <2>1, <2>3 DEF Init, IInv, RowInv
<1>2. IInv /\ RowInv /\ [Next]_vars => IInv' /\ RowInv'
  <2> SUFFICES ASSUME IInv, RowInv, [Next]_vars PROVE IInv' /\ RowInv'
    OBVIOUS
  <2>1. CASE Next
    BY <2>1, ProceedKeeps, ShutDownKeeps, DieKeeps, ProceedKeepsRow, StopKeepsRow DEF Next
  <2>2. CASE UNCHANGED vars
    <3>1. IInv'  BY <2>2 DEF vars, IInv, Kept
    <3>2. \A i \in Inspections : Heard(i)' /\ Withheld(i)'
      BY <2>2, HeardStays, WithheldStays DEF vars, RowInv
    <3>3. QED  BY <2>2, <3>1, <3>2 DEF vars, RowInv
  <2>3. QED  BY <2>1, <2>2
<1>3. RowInv => FailuresOnlyWithhold
  BY DEF RowInv, Withheld, FailuresOnlyWithhold
<1>4. QED  BY <1>1, <1>2, <1>3, PTL DEF Spec
=============================================================================
