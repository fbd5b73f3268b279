---------------------------- MODULE C2paInspection ----------------------------
(***************************************************************************)
(* Inspections of one API process that share an engine                     *)
(* (providers/provenance/c2patool.py): each writes the verified bytes to a *)
(* temporary file, asks the engine's capabilities unless the process knows *)
(* them, runs one command after the other and removes what it wrote.  A    *)
(* command can fail to start, be killed, time out, print too much or       *)
(* nothing of use; some commands are optional and some are not.            *)
(***************************************************************************)
EXTENDS ProvenanceReading

CONSTANTS Inspections,  \* the provenance steps of several analyses
          Files,        \* what each inspected file may be, a function
          Engines,      \* the installed binaries: [flags, trust, structured]
          TrustOn,      \* trust files are configured
          MaxStops      \* bound on the number of times the process ends

\* The signed bytes are those of the file or they are not.
ASSUME FilesAssumption == \A i \in Inspections : \A f \in Files[i] : f.intact \in BOOLEAN

VARIABLES engine,   \* the installed binary
          file,     \* each inspection's file, fixed
          at,       \* each inspection's command, or where it is between them
          tries,    \* how often that command has been started again
          caps,     \* _CAPABILITY_CACHE of the process
          using,    \* the capabilities each inspection works with
          heard,    \* what each inspection has heard so far
          temp,     \* files and directories under data_dir/tmp
          outcome,  \* of each inspection: "error" or a row, None before
          stops

vars == <<engine, file, at, tries, caps, using, heard, temp, outcome, stops>>

AssetRuns == <<"summary", "-d", "--info", "--tree", "--certs", "--output", "trust">>
Commands == {"--version", "--help"} \cup {AssetRuns[k] : k \in DOMAIN AssetRuns}

\* What --help says of the binary, or of one that printed nothing on the way.
Capabilities == [flags |-> engine.flags, trust |-> engine.trust]
Mute == [flags |-> {}, trust |-> FALSE]

Nothing == [results |-> None, status |-> {}, trust |-> None, leaf |-> None, thumbnail |-> FALSE]

Init ==
    /\ engine \in Engines
    /\ file \in {f \in [Inspections -> UNION {Files[i] : i \in Inspections}] :
                   \A i \in Inspections : f[i] \in Files[i]}
    /\ at = [i \in Inspections |-> "idle"]
    /\ tries = [i \in Inspections |-> 0]
    /\ caps = None
    /\ using = [i \in Inspections |-> None]
    /\ heard = [i \in Inspections |-> Nothing]
    /\ temp = {}
    /\ outcome = [i \in Inspections |-> None]
    /\ stops = 0

-----------------------------------------------------------------------------
(* The engine's words *)

Altered(f) == IF f.intact THEN {} ELSE {"assertion.dataHash.mismatch"}

\* Without trust files every signer is unlisted, an older engine says so twice.
\* A newer one lists only problems flat, and everything in its structured results.
PlainStatus(f) ==
    {"signingCredential.untrusted"} \cup Altered(f)
    \cup IF engine.structured THEN {} ELSE {"claimSignature.validated", MirroredTrust}
Results(f, trusted) ==
    [success |-> {"claimSignature.validated"} \cup
                 (IF trusted THEN {"signingCredential.trusted"} ELSE {}),
     informational |-> {},
     failure |-> Altered(f) \cup (IF trusted THEN {} ELSE {"signingCredential.untrusted"})]

TrustReply(f) ==
    IF engine.structured
    THEN [state |-> IF ~f.intact THEN "Invalid" ELSE IF f.listed THEN "Trusted" ELSE "Valid",
          status |-> {}, results |-> Results(f, f.listed)]
    ELSE [state |-> "", results |-> None,
          status |-> {IF f.listed THEN "signingCredential.trusted"
                                  ELSE "signingCredential.untrusted"}]

\* What the inspection hands to the normalisation.
Raw(i, h) ==
    LET f == file[i]
    IN  [present |-> TRUE, remote |-> FALSE, thumbnail |-> h.thumbnail, results |-> h.results,
         status |-> h.status, trust |-> h.trust, leaf |-> h.leaf, sidecar |-> f.sidecar,
         active |-> "m",
         store |-> [l \in {"m"} |-> [signedAt |-> f.signedAt, ingredients |-> <<>>,
                                     sourceTypes |-> {}, declares |-> {}, actions |-> {}]]]
WithoutClaim(remote) == WithoutManifest([remote |-> remote])

-----------------------------------------------------------------------------
(* Progress *)

Error == [outcome |-> "error"]
Cancelled == [outcome |-> "cancelled"]
Read(row) == [outcome |-> "read", row |-> row]

\* The directory of --output is there for that command only.
Goes(i, next) ==
    /\ at' = [at EXCEPT ![i] = next]
    /\ tries' = [tries EXCEPT ![i] = 0]
    /\ temp' = (temp \ {<<i, "output">>})
               \cup IF next = "--output" THEN {<<i, "output">>} ELSE {}

Concludes(i, result) ==
    /\ Goes(i, "remove")
    /\ outcome' = [outcome EXCEPT ![i] = result]
    /\ UNCHANGED <<engine, file, caps, using, heard, stops>>

\* The next command that the binary offers; after the last one the row is made.
Offered(i, command) ==
    \/ command \in {"summary", "-d", "--output"} \cup using[i].flags
    \/ command = "trust" /\ TrustOn /\ using[i].trust

Continues(i, h) ==
    LET here == CHOOSE k \in DOMAIN AssetRuns : AssetRuns[k] = at[i]
        rest == {k \in DOMAIN AssetRuns : k > here /\ Offered(i, AssetRuns[k])}
    IN  /\ heard' = [heard EXCEPT ![i] = h]
        /\ \/ /\ rest = {}
              /\ Goes(i, "remove")
              /\ outcome' = [outcome EXCEPT ![i] = Read(NormalizeProvenance(Raw(i, h)))]
           \/ \E k \in rest :
                  /\ \A other \in rest : k <= other
                  /\ Goes(i, AssetRuns[k])
                  /\ UNCHANGED outcome
        /\ UNCHANGED <<engine, file, caps, using, stops>>

\* The asset and its sidecar; a full disk leaves half of them to be removed.
OwnedButSidecar(i) == {<<i, "asset">>}                                      \* mutant
Owned(i) == {<<i, "asset">>, <<i, "sidecar">>}

Begin(i) ==
    /\ at[i] = "idle"
    /\ \E whole \in BOOLEAN :
        /\ at' = [at EXCEPT ![i] = IF whole THEN "look up" ELSE "remove"]
        /\ outcome' = IF whole THEN outcome ELSE [outcome EXCEPT ![i] = Error]
    /\ temp' = temp \cup {<<i, "asset">>} \cup (IF file[i].sidecar THEN {<<i, "sidecar">>} ELSE {})
    /\ UNCHANGED <<engine, file, tries, caps, using, heard, stops>>

\* Several inspections that find no capabilities all probe.
LookUp(i) ==
    /\ at[i] = "look up"
    /\ Goes(i, IF caps = None THEN "--version" ELSE "summary")
    /\ using' = [using EXCEPT ![i] = caps]
    /\ UNCHANGED <<engine, file, caps, heard, outcome, stops>>

Remove(i) ==
    /\ at[i] = "remove"
    /\ at' = [at EXCEPT ![i] = "done"]
    /\ temp' = temp \ Owned(i)
    /\ UNCHANGED <<engine, file, tries, caps, using, heard, outcome, stops>>

-----------------------------------------------------------------------------
(* Commands *)

\* Could not start, or was killed by a signal: once more.
Retry(i) ==
    /\ at[i] \in Commands
    /\ tries[i] = 0
    /\ tries' = [tries EXCEPT ![i] = 1]
    /\ UNCHANGED <<engine, file, at, caps, using, heard, temp, outcome, stops>>

RetryAlways(i) ==                                                           \* mutant
    /\ at[i] \in Commands
    /\ tries' = [tries EXCEPT ![i] = 1 - @]
    /\ UNCHANGED <<engine, file, at, caps, using, heard, temp, outcome, stops>>

\* A second time, a timeout, too much output, or no JSON where there must be some:
\* the end of the inspection, unless only the thumbnail is lost.
Fail(i) ==
    \/ at[i] \in Commands \ {"--output"} /\ Concludes(i, Error)
    \/ at[i] = "--output" /\ Continues(i, heard[i])

ProbeVersion(i) ==
    /\ at[i] = "--version"
    /\ Goes(i, "--help")
    /\ UNCHANGED <<engine, file, caps, using, heard, outcome, stops>>

\* Whatever was printed is cached, an empty answer as well.
ProbeHelp(i) ==
    /\ at[i] = "--help"
    /\ \E answer \in {Capabilities, Mute} :
        /\ caps' = answer
        /\ using' = [using EXCEPT ![i] = answer]
    /\ Goes(i, "summary")
    /\ UNCHANGED <<engine, file, heard, outcome, stops>>

\* Without the settings file the engine goes to the network for a remote manifest.
Fetches(i) == "--settings" \notin using[i].flags

\* The engine's words for "no manifest" are looked for in everything it printed.
Summary(i) ==
    LET f == file[i]
        silent == f.kind = "none" \/ f.quotes
    IN  /\ at[i] = "summary"
        /\ \/ silent /\ Concludes(i, Read(WithoutClaim(FALSE)))
           \/ ~silent /\ f.kind = "remote" /\ Concludes(i, Read(WithoutClaim(TRUE)))
           \/ ~silent /\ f.kind = "unreadable" /\ Concludes(i, Error)
           \/ /\ ~silent
              /\ f.kind = "signed" \/ (f.kind = "remote" /\ Fetches(i))
              /\ Continues(i, heard[i])

Detailed(i) ==
    /\ at[i] = "-d"
    /\ Continues(i, [heard[i] EXCEPT
                        !.status = PlainStatus(file[i]),
                        !.results = IF engine.structured THEN Results(file[i], FALSE) ELSE None])

\* --info and --tree are only quoted.
Quote(i) == at[i] \in {"--info", "--tree"} /\ Continues(i, heard[i])

Certificates(i) ==
    /\ at[i] = "--certs"
    /\ \E leaf \in {file[i].leaf, None} : Continues(i, [heard[i] EXCEPT !.leaf = leaf])

ClaimThumbnail(i) ==
    /\ at[i] = "--output"
    /\ \E found \in BOOLEAN : Continues(i, [heard[i] EXCEPT !.thumbnail = found])

\* A refusal is a warning; an answer replaces the plain run's structured results.
Trust(i) ==
    /\ at[i] = "trust"
    /\ \/ Continues(i, heard[i])
       \/ LET reply == TrustReply(file[i])
          IN  Continues(i, [heard[i] EXCEPT !.trust = reply, !.results = reply.results])

-----------------------------------------------------------------------------
(* The process *)

Running == {i \in Inspections : at[i] \notin {"idle", "done", "dead"}}

\* The loop is shut down: every inspection is cancelled where it waits, and cleans up.
\* The engine is not killed with it, and may write its output directory afterwards.
ShutDown ==
    /\ stops < MaxStops
    /\ at' = [i \in Inspections |-> IF i \in Running THEN "remove" ELSE at[i]]
    /\ outcome' = [i \in Inspections |->
                      IF i \in Running /\ outcome[i] = None THEN Cancelled ELSE outcome[i]]
    /\ \E rewritten \in SUBSET (temp \cap (Inspections \X {"output"})) :
        temp' = (temp \ (Inspections \X {"output"})) \cup rewritten
    /\ caps' = None
    /\ stops' = stops + 1
    /\ UNCHANGED <<engine, file, tries, using, heard>>

\* The process is killed, and nothing is cleaned up.
Die ==
    /\ stops < MaxStops
    /\ at' = [i \in Inspections |-> IF i \in Running THEN "dead" ELSE at[i]]
    /\ caps' = None
    /\ stops' = stops + 1
    /\ UNCHANGED <<engine, file, tries, using, heard, temp, outcome>>

Proceed(i) ==
    \/ Begin(i) \/ LookUp(i) \/ Retry(i) \/ Fail(i)
    \/ ProbeVersion(i) \/ ProbeHelp(i)
    \/ Summary(i) \/ Detailed(i) \/ Quote(i) \/ Certificates(i) \/ ClaimThumbnail(i) \/ Trust(i)
    \/ Remove(i)

Next == (\E i \in Inspections : Proceed(i)) \/ ShutDown \/ Die

\* A command ends by itself or is killed by its timeout.
Spec == Init /\ [][Next]_vars
FairSpec == Spec /\ \A i \in Inspections : WF_vars(at[i] # "idle" /\ Proceed(i))
-----------------------------------------------------------------------------
(* Properties *)

\* Failures, retries, missing capabilities and restarts only withhold: the row of an
\* inspection that ended never says of a file what the engine would not have said.
\* A manifest that is elsewhere is read only if the engine was not told to leave it.
\* An intact manifest is never read as altered, whatever becomes of the trust run
\* ("a trust-list failure is never read as altered"), and an altered one never as
\* intact, though the trust run's results replace the others.
FailuresOnlyWithhold ==
    \A i \in Inspections : outcome[i] \notin {None, Error, Cancelled} =>
        LET f == file[i]  row == outcome[i].row
        IN  /\ f.kind = "signed" /\ ~f.quotes => row.hasC2pa
            /\ row.hasC2pa => ~f.quotes /\ (f.kind = "signed" \/ (f.kind = "remote" /\ Fetches(i)))
            /\ row.hasC2pa =>
                  /\ row.valid = f.intact
                  /\ row.trust \in {"off", IF f.listed THEN "trusted" ELSE "untrusted"}
                  /\ row.certificate \in {"unknown", CertificateView(f.leaf, f.signedAt)}

\* The verified bytes are on disk only while their inspection runs, whichever way
\* it ends, unless the process was killed under it; the output directory only
\* during its command, unless the loop was shut down under that.
NothingIsLeftBehind ==
    \A entry \in temp :
        LET i == entry[1]
        IN  IF entry[2] = "output" THEN at[i] \in {"--output", "dead"} \/ outcome[i] = Cancelled
            ELSE at[i] \in {"look up", "remove", "dead"} \cup Commands

\* Every inspection ends, however often its commands fail to start: there is one
\* retry, and none after a timeout.
EveryInspectionEnds ==
    \A i \in Inspections : at[i] = "look up" ~> at[i] \in {"done", "dead"}
=============================================================================
