# Verixa in TLA+

Verixa takes an image or a text, runs a fixed pipeline of analysis steps over it, keeps what the
steps measured as evidence, and lets the owner read, report, keep or delete the result.  The API
is one asynchronous Python process (or several) over a PostgreSQL database and an object store; the
web application is a Next.js server that holds the user's tokens in cookies.  There is no queue and no
distributed protocol.  What makes the system hard is that requests, background runs, a retention
sweeper and several browser requests work on the same rows, objects and tokens, each in transactions
of its own, and that objects and rows have no transaction in common.

Paths below are relative to `services/api/app/` unless they begin with `apps/` or `docs/`.

## The system

| Component | State it keeps | Operations | Interacts with |
|---|---|---|---|
| Dispatcher and pipeline runner (`workers/dispatcher.py`, `services/analysis/pipeline.py`) | `analyses.status`, `error_code`; one `analysis_steps` row per step; the in-memory result of the run | dispatch after the upload, load, mark, add/execute/finish each step, mark the outcome | the steps; the session it shares with all of them; delete and purge, which do not tell it anything |
| Analysis service (`services/analysis/service.py`) | the analysis row and its files | create (image, text), keep, read, signed links, soft delete | storage, usage limits, dispatcher |
| Retention sweeper (`services/retention.py`, `workers/retention.py`, `api/v1/internal.py`) | `content_purged_at`, `deleted_at`, rows, objects | expire content, clear provider responses, retire records, purge deleted records | timer and cron endpoint may run at once; uploads, runs and reports keep storing objects |
| Reports (`services/reports/`) | `reports` rows, one PDF object | check, render, store, count, record | storage, usage, retention |
| Usage and limits (`services/usage.py`, `repositories/usage.py`, `services/provider_calls.py`) | one counter row per user and month | admission check, increment, budget check | uploads, reports, every step that pays or stores |
| Sessions (`services/auth.py`) and the proxy (`apps/web/src/proxy.ts`) | a session row with the hash of one refresh token; the browser's two cookies | login, refresh (rotation), logout, expiry; rotate on navigation, not on prefetch | each other, over a network that loses answers |
| Login throttle (`utils/ratelimit.py`) | attempts per email and address, in memory | check, hit, reset | login, register |
| Provider result cache (`repositories/provider_cache.py`) | one entry per content and model | get (counts the hit), set (replaces) | the paid steps, in their transaction |
| Analysis steps (`services/analysis/*_step*.py`) | one table per kind of result; `ctx.artifacts` in memory | sixteen for an image, eight for a text | providers, storage, usage |
| Evidence engine and timeline (`services/evidence/`) | none: functions of the rows the steps have written | draft a record per rule, override, clamp, detect conflicts, rate the confidence; list every recorded time | `steps`, and the three tables they replace |
| Synthesis and grounding (`services/synthesis/`) | the explanation and whether it is grounded | ask the language model, check its citations and levels | evidence records, language model |
| Metadata and provenance readings (`services/image/metadata.py`, `lineage.py`, `provenance.py`, `provenance_depth.py`) | none | normalise what the extractor and the C2PA engine print | the steps write the rows |
| Forensic methods (`services/image/`) and text services (`services/text/`) | none | a verdict from the measurements of a file or a text | the steps write the columns |
| C2PA engine adapter (`providers/provenance/c2patool.py`) | the capability cache of the process, temporary files | up to nine commands per inspection, with retries and timeouts | the provenance step; an external binary |
| Other providers (`providers/`) | none | detector, search, LLM, metadata clients | the steps |
| Web pages (`apps/web/src/app`, `components`) | none | render what the API answers | the API |

What is hard, and where the models look: two actors between whose steps nobody wrote a test (a delete
under a run, two sweepers, two refreshes), state that is read and used later (the keys of an item, a
limit, a session), one of several removals failing, the process stopping between a put and a commit,
the month turning in the middle, a step that fails after it has written, rules that read rows some step never
finished, an engine whose commands fail one by one, and what must eventually happen in spite of it.  `PROJECT.json` lists
every hazard at its line with the properties that cover it.

## Modules

| Module | What it is |
|---|---|
| `AnalysisLifecycle` | abstract: what a client that polls an analysis is promised |
| `Pipeline` | the worker side of an analysis, one action per commit; implements `AnalysisLifecycle` |
| `PipelineProofs` | theorems about `Pipeline` |
| `ContentRetention` | objects and rows of an analysis, and everybody who stores or removes them |
| `ContentRetentionProofs` | theorems about `ContentRetention` |
| `UsageLimits` | the month's usage row, its lock, and the transactions that use it |
| `UsageLimitsProofs` | theorems about `UsageLimits`: counters and rows; how far limits are exceeded |
| `AuthSessions` | the API's sessions, the proxy, the browser's cookies |
| `AuthSessionsProofs` | theorems about `AuthSessions` |
| `ProviderCache` | the cache row that paid steps share, from the lookup to the step's commit |
| `ProviderCacheProofs` | theorems about `ProviderCache` |
| `Recorded` | absent and unreadable values, shared by the modules below |
| `EvidenceEngine` | the rules of `services/evidence/engine.py`, from the rows to the records |
| `Timeline` | the events of `services/evidence/timeline.py` |
| `EvidenceProofs` | theorems about the rules and the timeline, for any content of the rows; no state |
| `ForensicMethods` | verdicts of the eight forensic methods from their measurements |
| `MetadataReading`, `ProvenanceReading` | from what an extractor or the C2PA engine printed to the row that is stored |
| `TextReading` | what is measured in a text, and how fingerprints are compared |
| `AnalysisSteps` | composes the six above: every step of both pipelines on the rows of one analysis |
| `AnalysisStepsProofs` | theorems about the steps and what they leave; uses `EvidenceProofs` |
| `C2paInspection` | inspections of one process as sequences of engine commands; uses `ProvenanceReading` |
| `C2paInspectionProofs` | theorems about the files and the row of an inspection |
| `MC*` | small instances; each `.cfg` is one run |

An operator whose line ends in the comment *mutant* is a plausible bug in the definition that follows it.  No
specification uses it; it is there so that one can see each property fail.

### Pipeline

`row` is the existence and visibility of the analysis, `status` and `cause` its outcome columns, `records` the
step records, `pc`, `at` and `verdict` the position and the in-memory result of `run_analysis`.  An action is
one commit: `Create` is the upload's, `MarkProcessing`, `AddStep`, `FinishStep`, `MarkCompleted`,
`MarkFailed`, `MarkCrashed` are those of the run.  `RunnerError` is an exception that leaves the session usable.
`DbFault` is a write the database refuses.  At `mark_processing`, before the `try`, it goes straight to the caller and the row
stays queued; inside a step SQLAlchemy then refuses every statement until a rollback, which nobody issues, so the record's commit
and the handler's `mark_failed` both raise and the row stays processing.  `Delete` and `Purge` happen at any time; a write to
a purged row fails.  `Crash` loses every request and background task.  What a step computes is reduced to
completed, skipped or failed; an exception is a failed outcome, as `_execute` makes it.

### ContentRetention

Rows (`row`, `kept`, `expired`, `files`, `reports`) and objects (`store`) are separate variables, and no action
changes both except where the code's order does not matter to anyone.  Each actor has its own position: the
upload in `row` (`UploadInterrupted`: the process stops or the commit fails after the put, or the sidecar is refused and the
original taken back), the run in `worker`, requests in `reports` and `deleter`, the sweeps in `sweep`.  A sweep keeps
what it has read: the rows of the pass (`todo`), the keys of the current item (`keys`), whether a removal failed
(`failed`), and what it will write at the one commit that ends the pass (`marks`, `stale`).  Time is the set of
deadlines that have passed.  Reports share the object kind `report` because they share a key.

### UsageLimits

Every upload, report and run is a transaction with a position: it reads the month's row, inserts it when
there is none, updates it and commits.  `lock` and `pending` are the uncommitted write; an `UPDATE`
waits for the lock and reads the committed counter once it has it, as PostgreSQL does under read committed.
`audit` is not in the code: it is what the counters summarise (analyses, reports and provider calls by the month
that was counted).  Bytes counted per period (`record_storage` included) take the same path and are left out.

### AuthSessions

A token is a session and a number; the session row has the hash of one (`current`).  `RefreshRead` and
`RefreshCommit` are the two halves of `refresh`, `Send`, `ReceiveTokens`, `ReceiveDenied` and `NoAnswer` the
proxy's side.  `NoAnswer` is a call the proxy gives up: before the API has read, after it has committed, or in between; then the
rotation is lost or counted in `late`, and `LateCommit` writes it at any later time (`Rotate` is the write both share).  `Login`
overwrites whatever cookie the jar still holds, as `loginAction` does.

### ProviderCache

`entry` is the committed row of a key, `cacheLock` and `usageLock` the uncommitted changes of the two rows a paid step
writes, `found` the row a run has read or its `DELETE` has seen; a commit that replaces the row makes it `gone` for
the others.  `Touch` is the hit count's write, `DeleteSees`, `Delete` and `Insert` are `set`, `Record` and `Commit` the
rest of the step.  `TouchFails` and `InsertFails` are the two ways to lose the race; the flush that fails leaves the
session unusable, which is `Pipeline`'s `DbFault`.  `paid` is not in the code: it counts complete answers since the key expired.

### AnalysisSteps and the modules it composes

`Pipeline` says when a step runs and what is committed; `AnalysisSteps` says what the step does.  `at` is the loop position,
`records` the step records, `published` what `ctx.artifacts` holds, `rows` the analysis's result tables, `evidence`,
`timeline` and `synthesis` what the last steps make of them.  There is one action per step, and each follows the
order of the code: the input taken from `published` (`unmet` when it is missing), the rows written before the step can still
fail, the provider call that stays on record, the status.  `StepCrashes` is an exception in a step that has none of its
own handling, before it writes; `ConcludeFails` one between the evidence and the timeline.

A *world* is what the outside does to one run: what the engines may answer, what the methods may measure, whether the
store takes a picture, which steps may crash.  Pixels, fonts, tokens and hashes are inputs, as small numbers;
everything the code decides from them is an operator: `ForensicMethods` the outliers, regions, peaks and groups, `MetadataReading`
and `ProvenanceReading` which tag and which validation code wins, `TextReading` language, repetition and similarity.
An observation is a record with one field per table; a missing row is `None`.

`EvidenceEngine` has one operator per rule group.  A record keeps its rule, level, kind, references, and what another rule
reads of it (its family, its sides, its confidence); claims, limitations and the order of the report are wording.  `Drafts` is what the rules say,
`Evidence` what `build_evidence` returns after overrides, ceilings and conflicts.

### C2paInspection

`at` is the command an inspection has started, `tries` how often it was started again, `caps` the module-level capability
cache, `using` the capabilities the inspection works with, `heard` what has been collected so far, `temp` the files and
directories it has written.  A command ends well, ends with nothing of use, cannot start or is killed (once more is tried), or times
out; `Continues` says what the inspection then has and which command comes next, `Fail` when it is over.  `ShutDown` cancels
every inspection where it waits, `Die` ends the process under them.  The binary and the file are external.

## Runs

Every constant that bounds a state space is marked *bound* where it is declared.

| Run | Shows | Bounds, and why they are enough |
|---|---|---|
| `lifecycle` | the safety of runs, their termination, and the refinement of `AnalysisLifecycle` | two analyses, three steps of which two are critical, one crash, one fault: analyses share only the crash, and three steps have a first, a middle and a last in both kinds |
| `retention`, `two_sweepers` | what expiry, keep and purge promise; that overdue originals and deleted rows go | one analysis with a report, two sweepers in the second run: rows share nothing, sweepers share everything.  One removal fails, one actor is interrupted |
| `usage` | counters, limits and budget with locks, rollbacks and a new month | two uploaders, a report and a run: the races are between two transactions |
| `usage_waits` | nobody waits forever for the usage row that a run holds over its step (how far several runs exceed the budget is the theorem `BudgetOvershootBound`) | two runs of three paid steps and a report, one month, one rollback; a call costs 0 or 1 |
| `sessions` | logout is final; with one navigation at a time the cookie falls behind the API only by lost answers, one rotation each | one navigation, two prefetches, three logins, five tokens each and two lost answers, so that a late commit can follow another loss; navigations that overlap are the subject of `two_tabs` |
| `shared_cache` | repeats are free; nobody waits forever for the cache row and the usage row | three workers at one key and one usage row: the case in which all three contend for both; one interrupted step |
| `analysis_steps` | what the evidence, the timeline and the explanation say is supported by what the steps did and wrote; no step misses its input or takes back a column | eleven worlds (`MCAnalysisSteps`), each with many answers of one subsystem and one of the others: contradicting histories, forensic methods that agree and disagree, foreign formats, a store that refuses, engines that fail and steps that crash, a missing file, explanations that cite strangers, three texts.  Rules of different subsystems meet only in conflicts and in the number of families, which the first two worlds are about.  In the first, times lie on both sides of the tolerance and a search may find several publications, so that a conflict that is hidden shows as well as one that is invented |
| `provenance` | failed, retried and missing commands never change what is said of a file; temporary files go; inspections end | two inspections that share the capability cache, one of any kind of file, an old and a new engine, one shutdown or kill |

The remaining runs end in a counterexample, each to a sentence of the repository's documentation or comments:
`run_raises`, `keep_race` and `two_tabs`.  `PROJECT.json` quotes the sentence and
says what happens.

### Known divergences without a run of their own

The models contain these behaviours, but no run states them; they are why some invariants promise no more than they do.

- `config.py:217`: "Hours/days of 0 disable the corresponding pass."  `_purge_deleted` has no such check: with
  `deleted_record_grace_days` 0 the next sweep purges every deleted row (`Listed`, `After`).
- `services/retention.py:12-13`: a log line "is the only trace" of a purged record.  An artifact or a report whose
  row is committed after the keys were read, or never, stays in the store (`WorkerRaises`, `ReportCommit`);
  `PurgeRemovesRecordedObjects` speaks of originals and of runs that ended before the delete.
- `services/retention.py:5-6`: originals, artifacts and reports go after `raw_content_retention_hours`.  What is stored after
  `content_purged_at` was set is never listed again; `OverdueOriginalGoes` speaks of originals.
- `repositories/reports.py:37`: "Report files were removed by retention".  `mark_expired` also takes a report
  that was committed after the keys were read, and whose file is still there (`stale` in `SweepMark`).
- `services/usage.py:4-5`: creation is refused when the count "would be exceeded".  Concurrent uploads pass the same
  reading; `OvershootIsBounded` says by how many.
- `README.md:323-325`: with the budget spent the paid steps "are skipped".  The search step asks after its call
  (`ChecksFirst`); `BudgetOvershootIsBounded` says what that costs.
- `services/auth.py:5`: refresh tokens are "rotated on every use".  Two refreshes that read the session before either writes
  both trade in one token (`RefreshRead`, `RefreshCommit`).
- `providers/ai/cache.py:1`: "repeats of the same content through the same model cost nothing".  Workers that look before the first
  answer is committed pay as well; `RepeatsAreFree` says how often.
- `services/reports/service.py:115`: the key of a report is built from an id that exists only after the flush, so all
  reports of an analysis share one key and the second replaces the object of the first (`docs/DEPLOYMENT-RUNBOOK.md:381`: objects
  "are never rewritten in place").
- `services/reports/service.py:123`: a usage row that could not be written is not meant to lose the report; after a lost race for the row the
  session refuses the report's own insert too (`InsertConflict`).
- `services/evidence/engine.py:32`: overrides may move a rule down, "never up".  They are clamped by the rule's ceiling, not by its draft: a detector's
  POSSIBLE record with an override becomes PROBABLE, which is its ceiling (`LevelsWithinCeilings` speaks of ceilings).
- `services/image/provenance.py:23-24`: trust codes "are never treated as integrity failures".  For ingredients the trust codes count
  as failures (`services/image/provenance_depth.py:201-206`).
- The manifest chain is checked against "one of its ingredients"; a manifest that two others share is compared with the first of them
  only.
- `services/evidence/engine.py:10-11`: references name existing rows and steps.  The text pipeline's `file.identity` names a `validate`
  step that text analyses do not have, and the rule for remote manifests names a metadata row that may not exist.
- `services/evidence/timeline.py:5-6`: an event's certainty "is the level of the evidence record".  `source.discovered`,
  `source.published` and `analysis.submitted` have fixed ones (`ours` in `TimelineAgreesWithEvidence`).
- Five forensic steps write their column before they store their picture; when the store refuses, the step is recorded as failed and
  its observation is still used (`ObservedFirst`).
- After a failed provenance step the signed-thumbnail step records that the file carries no manifest, though nothing was
  inspected; a failed compression, noise, resampling or copy-move step leaves no UNKNOWN record (`docs/02-ARCHITECTURE.md:105`).
- With `sigma` 2.5 no more than 1/7.25 of the blocks can be outliers, so the maximal fractions 0.2 and 0.3 of the ELA and thumbnail
  anomalies never decide; the noise method's "some blocks are smooth" always holds.
- `providers/provenance/c2patool.py:8-9`: capabilities are probed "once per process".  Inspections that start together probe each, and an
  empty `--help` is cached whatever its exit code: later inspections then go without the settings that forbid remote fetches (`:49`) and
  without trust.
- The same file takes a manifest for absent when its own text contains the engine's "no manifest" messages (`quotes`);
  unreadable trust output fails an inspection whose trust exit code is only a warning; a killed process leaves the verified bytes in
  `data_dir/tmp`, which nothing sweeps; a cancelled inspection does not kill its engine.
- `services/provider_calls.py:3`: "Every call records provider, operation, ...".  A worker that loses the race for the
  cache row has paid, and its record is rolled back with the step (`InsertFails`).

`CHECK_DEADLOCK FALSE` is set everywhere: uploads, logins and bounded failures run out, and the system may
then really stop.

### Fairness

`Pipeline!FairSpec`: the event loop runs a scheduled task and every step ends (providers have timeouts), so the actions
of a run are weakly fair.  Nothing is assumed of uploads, deletes, failures or the sweeper.
`ContentRetention!FairSpec`: `run_periodically` sweeps forever whether or not a sweep failed, and requests and runs
in flight go on.  `UsageLimits!FairSpec`: transactions in flight go on; taking the row is strongly fair
because the database queues those who wait for a lock.  `ProviderCache!FairSpec` assumes the same of its two rows.
`C2paInspection!FairSpec`: a command ends by itself or is killed by its timeout, so an inspection that has begun goes on.

## Proofs

`PipelineProofs` proves for any number of analyses and steps, any set of critical steps and any bounds: types, the
inductive invariant `IInv`, the four invariants of the `lifecycle` run, that terminal analyses are frozen, and the refinement
of `AnalysisLifecycle`.  None of the four is inductive: that a completed analysis is whole follows from what
the loop position says about the records (`RecordsFollowPosition`), from the agreement of the result in memory with the
records (`VerdictMatchesRecords`), and from the status a run at each position has left (`RunAgreesWithRow`,
`TerminalMatchesVerdict`).  `StepKeepsIInv` goes through the actions; an analysis other than the one that
moves keeps its part by `Untouched`.

`AuthSessionsProofs` proves types, that a logout is final, and for a browser with one navigation at a time that its cookie is
behind the API by no more rotations than answers were lost.  The last needs `OneTabInv`: lost answers pay for the rotations that are still to be committed
late as well (`Close`), the cookie is allowed one more while a rotated token is on its way to it, and every token and late rotation belongs to a session
that exists, so that a login cannot disturb it.

`UsageLimitsProofs` proves types, `RowHasOneWriter` and `CountersMatchRows`.  `RowHasOneWriter` is what makes the other
inductive: between its `UPDATE` and its commit a transaction holds the row of its own month, so the counter it has
computed is still one step ahead of the committed one when it is committed.  Types need one addition (`TypeInv`): a run that
owes a step has one left.  The proof assumes that clients, reports and runs are different transactions (`RolesAssumption`).

`ContentRetentionProofs` proves types, `MarksAreTrue` and `ExpiredOriginalIsGone`, for any number of concurrent sweeps.
`ExpiredOriginalIsGone` alone says nothing about the sweep that is about to commit a mark; `MarksAreTrue` does: a marked item has
lost its original, and the item at hand either still has the original's key to remove, or has a failed removal, or has
lost it.  The proof has one lemma for what lasts (`Lasting`: an uploaded analysis stays uploaded and a removed original
is not stored again), which is all that one sweep has to know of the others and of every request, and one lemma per
step of a sweep.  That a sweep works on one item at a time is part of the invariant.

The second half of `ContentRetentionProofs` proves `KeepInTimeIsHonoured`, `NothingIsRemovedEarly` and `PurgeRemovesRecordedObjects`.
An analysis is `Safe` while no deadline allows a removal or a keep that came in time holds it.  Nobody comes to hold a safe analysis, and
none becomes safe again, so `SafeInv` needs to know only that no sweep, request or upload has one in hand and that its objects
are there.  For purges `ArtifactInv` adds who may still store an artifact, and that what is listed is removed before the row goes.

The second half of `UsageLimitsProofs` proves `OvershootIsBounded` and `BudgetOvershootIsBounded`.  Neither is inductive: the counters say nothing of those that have
passed the check and not counted yet.  `BoundsInv` counts them beforehand, as the cardinality of the uploads admitted (for the month they will count in)
and, for the budget, of the calls under way and the searches still ahead, each at its greatest cost.  Months that have not begun have empty
counters (`Unused`), so the bound holds when the month turns.

`ProviderCacheProofs` proves `RepeatsAreFree` for any number of runs, users and keys.  What has been paid since the key expired is not a
fact about the present, so `PaidInv` finds the payers in the present: without a fresh row each of them holds an answer it will be able to insert
(`Holds`), or was interrupted; with one, only those that call already can pay.  A worker that loses the race is not among
the first, as its `INSERT` fails only because a fresh row came after its `DELETE`.

`EvidenceProofs` has no state: it says what the rules and the timeline make of any rows.  No rule drafts a record above its ceiling, and overrides
and conflicts keep it so (`RulesRespectCeilings`, `EvidenceRespectsCeilings`).  `DraftsAreSound` says that there are finitely many drafts, one per rule, that none
has the name of a conflict, and that each is `Sound`: unless no override can lift it from UNKNOWN, it refers only to steps of which the rows say something (`Speaks`).
It is proved group of rules by group of rules (`Group`, `GroupsUnite`), each with the set of names it may use.  On it rest the lemmas about `BuildEvidence`
(its conflicts, its confidence, its families) and `BuildTimeline`: which record has which event, and that the times of two events are
further apart than the tolerance exactly when the rules found the conflict (`DatedTimesConflict`).  Maxima and cardinalities come from the library's facts on finite sets and well-founded orders.

`AnalysisStepsProofs` shows for runs that every step but the last two *observes* (`Observes`): it settles its own record, publishes what it should,
keeps the columns of the others, lets the rows say nothing new that it has not observed itself, and touches neither evidence nor synthesis.  The
inductive invariant is then shown once for all of them.  Its parts, in the order in which they lean on each other:

- `RunInv` relates the loop position to records and artifacts, `RowsInv` the columns still empty to the steps ahead.
- `SpokenInv`: whatever the rows say of a step that is not critical, the step has observed and the loop has passed; a manifest in `published` comes from an
  inspection that completed.  Without the second part the signed thumbnail, which speaks for the provenance step, could rest on a step that failed.
- `CredibleInv`: scores and confidences in the rows are within their range, and the thumbnail's verdict is one that its method gives.
- `EvidenceInv` gives the evidence its levels, `SupportInv` ties its references to records, `BuiltInv` says that evidence and timeline are what the rules made of
  *some* credible rows, once, and that the timeline is missing only if the step failed in between.
- `SynthesisInv` ties an explanation to the records stored beside it.

From them follow `TypeOK`, `NoStepMissesItsInput`, `GroundedMeansSupported`, `ColumnsAreNotClobbered` and `LevelsWithinCeilings`; `FindingsRestOnSteps` from
`SupportInv`; and `ConflictsKeepBothSides`, `CorrelatedSignalsCountOnce` and `TimelineAgreesWithEvidence` from `BuiltInv` and the lemmas of `EvidenceProofs`.

`C2paInspectionProofs` proves `NothingIsLeftBehind` and `FailuresOnlyWithhold` for any inspections, files, engines and stops.  For the first the invariant
says whom each entry of the temporary directory belongs to, and that an inspection at a command has no outcome yet.  For the second `RowInv` follows what an
inspection has heard: nothing up to `-d`; from then on that there is a manifest, with the codes of the plain run and the leaf or nothing of the certificates; and in the row
the codes of the plain run or of the trust run, which classify alike whether the signed bytes are intact.

The assumptions are the ones the modules state about their constants.  Two of them are there for the proofs alone: a detector's score and a language's
probability are between 0 and 1, in per cent (`ProbabilitiesAssumption`: both are probabilities of a classifier, rounded), and the
signed bytes of a file are its own or not (`FilesAssumption`).  A conflict lowers the confidence only when its penalty is not 0, which `config.py:203` permits;
`ConflictsKeepBothSides` says so.

Every invariant and every action property that a run checks is a theorem.  Only model-checked is liveness, which is beyond the prover (`LoadedSettles`,
`OverdueOriginalGoes`, `DeletedIsPurged`, `EveryTransactionEnds`, `EveryStepEnds`, `EveryInspectionEnds`).

## Not modelled

- What a picture or a text is made of: pixels, transforms, spectra, perceptual hashes, tokenising, readability, the hash functions.  The models start from the
  measurements.
- Wording and layout: claims, limitations, the PDF, the bundle and the overview, the request sent to the language model, the
  certainty phrases that grounding rejects.
- HTTP parsing, pagination and error bodies; pages and components; the three storage back ends; the clients of detector, search and
  language model; migrations and response schemas; the validation of settings.
- The login throttle and registration: one check in one process, and one insert guarded by a unique key.
- In `ContentRetention` the 500-row limit of the passes and the provider-response pass; sidecar objects are originals to it.
- In `C2paInspection` a cancellation while a temporary file is being written.

## Plan

1. Grounding's wording checks, and the report's overview, as operators over the records, with what they promise as theorems.
2. Abstract specifications for retention (an object lives as long as its row says) and for the provider cache, and the refinements.
3. The provider-response pass and the 500-row limit of the retention passes.
