-------------------------- MODULE ContentRetention --------------------------
(***************************************************************************)
(* The stored objects of an analysis and everybody who writes or removes   *)
(* them: the upload, the pipeline's artifact step, report creation, the    *)
(* owner's delete, and the retention sweeper with its passes.  Objects and *)
(* rows live in two stores without a common transaction: every put happens *)
(* before the commit that records it, every removal before the commit that *)
(* marks it, and a pass works on the rows and keys it read earlier.        *)
(***************************************************************************)
EXTENDS Naturals, FiniteSets

CONSTANTS Analyses,         \* analyses that may be uploaded
          Reports,          \* reports that may be requested for each of them
          Sweepers,         \* concurrent retention sweeps (timer, cron call)
          ContentHours,     \* raw_content_retention_hours
          RecordDays,       \* analysis_retention_days
          GraceDays,        \* deleted_record_grace_days
          MaxInterrupts,    \* bound: actors stopped by an error or a restart
          MaxStorageFaults  \* bound: failed object removals

ASSUME SettingsAssumption ==
    {ContentHours, RecordDays, GraceDays, MaxInterrupts, MaxStorageFaults} \subseteq Nat

VARIABLES row,      \* the analysis row, and the upload request before it
          kept,     \* kept_at, compared with retention_at
          expired,  \* content_purged_at is set
          time,     \* deadlines that have passed for the analysis
          files,    \* object kinds listed by committed rows other than reports
          reports,  \* report rows and the requests before them
          store,    \* the object store: <<analysis, kind>> pairs
          worker,   \* the analysis' pipeline run
          deleter,  \* the owner's delete request after its commit
          sweep,    \* each sweeper's session and position
          interrupts, storageFaults

vars == <<row, kept, expired, time, files, reports, store, worker, deleter,
          sweep, interrupts, storageFaults>>

Kinds == {"original", "artifact", "report"}
Deadlines == {"content", "record", "grace"}
Visible(a) == row[a] = "live"

\* A sweeper between two sweeps, and at the beginning of a pass.
Begin(phase) == [phase |-> phase, listed |-> FALSE, todo |-> {}, cur |-> {},
                 keys |-> {}, failed |-> FALSE, marks |-> {}, stale |-> {}]
Idle == Begin("idle")

\* A hard delete that is flushed and not yet committed holds the row's lock.
Locked(a) == \E w \in Sweepers : sweep[w].phase = "purge" /\ a \in sweep[w].marks

Init ==
    /\ row = [a \in Analyses |-> "absent"]
    /\ kept = [a \in Analyses |-> "no"]
    /\ expired = [a \in Analyses |-> FALSE]
    /\ time = [a \in Analyses |-> {}]
    /\ files = [a \in Analyses |-> {}]
    /\ reports = [a \in Analyses |-> [r \in Reports |-> "none"]]
    /\ store = {}
    /\ worker = [a \in Analyses |-> "idle"]
    /\ deleter = [a \in Analyses |-> [phase |-> "idle", keys |-> {}]]
    /\ sweep = [w \in Sweepers |-> Idle]
    /\ interrupts = 0
    /\ storageFaults = 0

\* Every stored object the committed rows of an analysis list.  Reports share
\* one key: report.id is still None when report_key() formats it.
ObjectPrefixes(a) == {"uploads/", "artifacts/", "reports/"}                 \* mutant
ObjectKeys(a) ==
    files[a] \cup {"report" : r \in {q \in Reports : reports[a][q] = "completed"}}

Interrupt == interrupts < MaxInterrupts /\ interrupts' = interrupts + 1

-----------------------------------------------------------------------------
(* Upload: the object is stored, then the row is committed *)

UploadPut(a) ==
    /\ row[a] = "absent"
    /\ row' = [row EXCEPT ![a] = "uploading"]
    /\ store' = store \cup {<<a, "original">>}
    /\ UNCHANGED <<kept, expired, time, files, reports, worker, deleter, sweep,
                   interrupts, storageFaults>>

UploadCommit(a) ==
    /\ row[a] = "uploading"
    /\ row' = [row EXCEPT ![a] = "live"]
    /\ files' = [files EXCEPT ![a] = {"original"}]
    /\ UNCHANGED <<kept, expired, time, reports, store, worker, deleter, sweep,
                   interrupts, storageFaults>>

\* The put of a manifest sidecar fails and the original is removed again, if the
\* store does that much; or the usage row's unique key was taken, the commit
\* failed or the process stopped, and the object stays. The row rolls back.
UploadInterrupted(a) ==
    /\ row[a] = "uploading"
    /\ Interrupt
    /\ row' = [row EXCEPT ![a] = "abandoned"]
    /\ store' \in {store, store \ {<<a, "original">>}}
    /\ UNCHANGED <<kept, expired, time, files, reports, worker, deleter, sweep,
                   storageFaults>>

-----------------------------------------------------------------------------
(* The pipeline run *)

\* A hidden row is skipped; the validate step fails when the object is gone.
WorkerStart(a) ==
    /\ row[a] \in {"live", "deleted", "purged"}
    /\ worker[a] = "idle"
    /\ worker' = [worker EXCEPT ![a] =
                    IF Visible(a) /\ <<a, "original">> \in store THEN "validated" ELSE "failed"]
    /\ UNCHANGED <<row, kept, expired, time, files, reports, store, deleter, sweep,
                   interrupts, storageFaults>>

\* _store_artifact puts the object ...
WorkerPut(a) ==
    /\ worker[a] = "validated"
    /\ worker' = [worker EXCEPT ![a] = "stored"]
    /\ store' = store \cup {<<a, "artifact">>}
    /\ UNCHANGED <<row, kept, expired, time, files, reports, deleter, sweep,
                   interrupts, storageFaults>>

\* ... and the runner commits the forensics row after the step, without looking
\* at deleted_at or content_purged_at; the insert fails when the row is gone.
WorkerCommit(a) ==
    /\ worker[a] = "stored"
    /\ row[a] # "purged"
    /\ ~Locked(a)
    /\ worker' = [worker EXCEPT ![a] = IF Visible(a) THEN "completed" ELSE "late"]
    /\ files' = [files EXCEPT ![a] = @ \cup {"artifact"}]
    /\ UNCHANGED <<row, kept, expired, time, reports, store, deleter, sweep,
                   interrupts, storageFaults>>

WorkerRaises(a) ==
    /\ worker[a] = "stored"
    /\ row[a] = "purged"
    /\ worker' = [worker EXCEPT ![a] = "orphaned"]
    /\ UNCHANGED <<row, kept, expired, time, files, reports, store, deleter, sweep,
                   interrupts, storageFaults>>

WorkerInterrupted(a) ==
    /\ worker[a] \in {"validated", "stored"}
    /\ Interrupt
    /\ worker' = [worker EXCEPT ![a] = IF @ = "stored" THEN "orphaned" ELSE "failed"]
    /\ UNCHANGED <<row, kept, expired, time, files, reports, store, deleter, sweep,
                   storageFaults>>

-----------------------------------------------------------------------------
(* Report creation: checks, render, put, commit *)

SetReport(a, r, s) == reports' = [reports EXCEPT ![a][r] = s]

ReportStart(a, r) ==
    /\ reports[a][r] = "none"
    /\ Visible(a)
    /\ worker[a] = "completed"
    /\ SetReport(a, r, "rendering")
    /\ UNCHANGED <<row, kept, expired, time, files, store, worker, deleter, sweep,
                   interrupts, storageFaults>>

ReportPut(a, r) ==
    /\ reports[a][r] = "rendering"
    /\ SetReport(a, r, "stored")
    /\ store' = store \cup {<<a, "report">>}
    /\ UNCHANGED <<row, kept, expired, time, files, worker, deleter, sweep,
                   interrupts, storageFaults>>

ReportCommit(a, r) ==
    /\ reports[a][r] = "stored"
    /\ ~Locked(a)
    /\ SetReport(a, r, IF row[a] = "purged" THEN "lost" ELSE "completed")
    /\ UNCHANGED <<row, kept, expired, time, files, store, worker, deleter, sweep,
                   interrupts, storageFaults>>

ReportInterrupted(a, r) ==
    /\ reports[a][r] \in {"rendering", "stored"}
    /\ Interrupt
    /\ SetReport(a, r, "lost")
    /\ UNCHANGED <<row, kept, expired, time, files, store, worker, deleter, sweep,
                   storageFaults>>

-----------------------------------------------------------------------------
(* The owner *)

\* kept_at is now or nothing; a second keep moves it forward.
Keep(a, keep) ==
    /\ Visible(a)
    /\ kept' = [kept EXCEPT ![a] = CASE ~keep -> "no"
                                     [] keep /\ "content" \notin time[a] -> "inTime"
                                     [] keep /\ "content" \in time[a] -> "late"]
    /\ UNCHANGED <<row, expired, time, files, reports, store, worker, deleter, sweep,
                   interrupts, storageFaults>>

\* Marked deleted and committed; the grace period starts.
SoftDelete(a) ==
    /\ Visible(a)
    /\ row' = [row EXCEPT ![a] = "deleted"]
    /\ time' = [time EXCEPT ![a] = @ \ {"grace"}]
    /\ deleter' = [deleter EXCEPT ![a] = [phase |-> "list", keys |-> {}]]
    /\ UNCHANGED <<kept, expired, files, reports, store, worker, sweep,
                   interrupts, storageFaults>>

DeleteList(a) ==
    /\ deleter[a].phase = "list"
    /\ deleter' = [deleter EXCEPT ![a] = [phase |-> "remove", keys |-> ObjectKeys(a)]]
    /\ UNCHANGED <<row, kept, expired, time, files, reports, store, worker, sweep,
                   interrupts, storageFaults>>

\* A removal either works (also when the object is already gone) or fails;
\* failures are counted and left to the sweeper.
Remove(a, k) ==
    \/ /\ store' = store \ {<<a, k>>}
       /\ UNCHANGED storageFaults
    \/ /\ storageFaults < MaxStorageFaults
       /\ storageFaults' = storageFaults + 1
       /\ UNCHANGED store

DeleteRemove(a) ==
    /\ deleter[a].phase = "remove"
    /\ \E k \in deleter[a].keys :
        /\ Remove(a, k)
        /\ deleter' = [deleter EXCEPT ![a].keys = @ \ {k}]
    /\ UNCHANGED <<row, kept, expired, time, files, reports, worker, sweep, interrupts>>

DeleteInterrupted(a) ==
    /\ deleter[a].phase \in {"list", "remove"}
    /\ Interrupt
    /\ deleter' = [deleter EXCEPT ![a] = [phase |-> "idle", keys |-> {}]]
    /\ UNCHANGED <<row, kept, expired, time, files, reports, store, worker, sweep,
                   storageFaults>>

-----------------------------------------------------------------------------
(* Time: deadlines pass once they have been set; only visible rows are expired *)
(* or retired.  A grace period of 0 days is over as soon as the clock moves.   *)

Reaches(a, d) ==
    /\ d \notin time[a]
    /\ CASE d = "content" -> Visible(a) /\ ContentHours > 0
         [] d = "record"  -> Visible(a) /\ RecordDays > 0
         [] d = "grace"   -> row[a] = "deleted"
    /\ time' = [time EXCEPT ![a] = @ \cup {d}]
    /\ UNCHANGED <<row, kept, expired, files, reports, store, worker, deleter, sweep,
                   interrupts, storageFaults>>

-----------------------------------------------------------------------------
(* The sweeper *)

\* The rows each pass works on, as its query sees them.
ExpirableAlsoKept(a) == Visible(a) /\ ~expired[a] /\ "content" \in time[a]    \* mutant
ExpirableEarly(a) == Visible(a) /\ kept[a] = "no" /\ ~expired[a]              \* mutant
Expirable(a) ==
    Visible(a) /\ kept[a] = "no" /\ ~expired[a] /\ "content" \in time[a]

Retirable(a) == Visible(a) /\ "record" \in time[a]

PurgeableIfExpired(a) == row[a] = "deleted" /\ "grace" \in time[a] /\ expired[a] \* mutant
Purgeable(a) == row[a] = "deleted" /\ "grace" \in time[a]

Listed(phase) ==
    CASE phase = "expire" -> {a \in Analyses : Expirable(a)}
      [] phase = "retire" -> {a \in Analyses : Retirable(a)}
      [] phase = "purge"  -> {a \in Analyses : Purgeable(a)}

\* Retire does nothing when analysis_retention_days is 0; purge always runs.
After(phase) ==
    CASE phase = "expire" -> IF RecordDays > 0 THEN "retire" ELSE "purge"
      [] phase = "retire" -> "purge"
      [] phase = "purge"  -> "idle"

SweepStart(w) ==
    /\ sweep[w].phase = "idle"
    /\ sweep' = [sweep EXCEPT ![w] = Begin("expire")]
    /\ UNCHANGED <<row, kept, expired, time, files, reports, store, worker, deleter,
                   interrupts, storageFaults>>

SweepList(w) ==
    /\ sweep[w].phase # "idle"
    /\ ~sweep[w].listed
    /\ sweep' = [sweep EXCEPT ![w].listed = TRUE, ![w].todo = Listed(sweep[w].phase)]
    /\ UNCHANGED <<row, kept, expired, time, files, reports, store, worker, deleter,
                   interrupts, storageFaults>>

\* remove_content reads the keys of the next row of the pass.
SweepItem(w, a) ==
    /\ sweep[w].phase # "idle"
    /\ sweep[w].cur = {}
    /\ a \in sweep[w].todo
    /\ sweep' = [sweep EXCEPT ![w].cur = {a}, ![w].todo = @ \ {a},
                              ![w].keys = ObjectKeys(a), ![w].failed = FALSE]
    /\ UNCHANGED <<row, kept, expired, time, files, reports, store, worker, deleter,
                   interrupts, storageFaults>>

SweepRemove(w, a) ==
    /\ a \in sweep[w].cur
    /\ \E k \in sweep[w].keys :
        /\ Remove(a, k)
        /\ sweep' = [sweep EXCEPT ![w].keys = @ \ {k},
                                  ![w].failed = @ \/ storageFaults' # storageFaults]
    /\ UNCHANGED <<row, kept, expired, time, files, reports, worker, deleter, interrupts>>

\* A failed removal defers the item to the next sweep, except in the retire pass.
ItemAlwaysDone(w) == TRUE                                                   \* mutant
ItemDone(w) == ~sweep[w].failed \/ sweep[w].phase = "retire"

\* The item is marked in the session: content_purged_at, deleted_at, or a
\* flushed DELETE, which waits for another one of the same row.  mark_expired
\* takes the report rows there are at this moment.
SweepMark(w, a) ==
    /\ a \in sweep[w].cur
    /\ sweep[w].keys = {}
    /\ sweep[w].phase = "purge" => ~Locked(a)
    /\ LET filed == {r \in Reports : reports[a][r] = "completed"}
       IN  sweep' = [sweep EXCEPT
                ![w].cur = {},
                ![w].marks = IF ItemDone(w) THEN @ \cup {a} ELSE @,
                ![w].stale = IF ItemDone(w) /\ sweep[w].phase = "expire"
                             THEN @ \cup ({a} \X filed) ELSE @]
    /\ UNCHANGED <<row, kept, expired, time, files, reports, store, worker, deleter,
                   interrupts, storageFaults>>

CommitExpire(marks, stale) ==
    /\ expired' = [a \in Analyses |-> expired[a] \/ a \in marks]
    /\ reports' = [a \in Analyses |-> [r \in Reports |->
                     IF <<a, r>> \in stale THEN "expired" ELSE reports[a][r]]]
    /\ UNCHANGED <<row, time, files>>

CommitRetire(marks) ==
    /\ row' = [a \in Analyses |-> IF a \in marks THEN "deleted" ELSE row[a]]
    /\ expired' = [a \in Analyses |-> expired[a] \/ a \in marks]
    /\ time' = [a \in Analyses |-> IF a \in marks THEN time[a] \ {"grace"} ELSE time[a]]
    /\ UNCHANGED <<files, reports>>

CommitPurge(marks) ==
    /\ row' = [a \in Analyses |-> IF a \in marks THEN "purged" ELSE row[a]]
    /\ files' = [a \in Analyses |-> IF a \in marks THEN {} ELSE files[a]]
    /\ reports' = [a \in Analyses |-> [r \in Reports |->
                     IF a \in marks /\ reports[a][r] \in {"completed", "expired"}
                     THEN "lost" ELSE reports[a][r]]]
    /\ UNCHANGED <<expired, time>>

PassDone(w) ==
    /\ sweep[w].phase # "idle"
    /\ sweep[w].listed /\ sweep[w].todo = {} /\ sweep[w].cur = {}
Vanished(w) == sweep[w].phase # "purge" /\ \E a \in sweep[w].marks : row[a] = "purged"

\* One commit ends the pass.
SweepCommit(w) ==
    /\ PassDone(w)
    /\ ~Vanished(w)
    /\ sweep[w].phase # "purge" => \A a \in sweep[w].marks : ~Locked(a)
    /\ CASE sweep[w].phase = "expire" -> CommitExpire(sweep[w].marks, sweep[w].stale)
         [] sweep[w].phase = "retire" -> CommitRetire(sweep[w].marks)
         [] sweep[w].phase = "purge"  -> CommitPurge(sweep[w].marks)
    /\ sweep' = [sweep EXCEPT ![w] = Begin(After(sweep[w].phase))]
    /\ UNCHANGED <<kept, store, worker, deleter, interrupts, storageFaults>>

\* Marking a row another sweep has purged fails the commit, and with it the
\* whole sweep; nothing of the pass is kept.
SweepFails(w) ==
    /\ PassDone(w)
    /\ Vanished(w)
    /\ sweep' = [sweep EXCEPT ![w] = Idle]
    /\ UNCHANGED <<row, kept, expired, time, files, reports, store, worker, deleter,
                   interrupts, storageFaults>>

SweepInterrupted(w) ==
    /\ sweep[w].phase # "idle"
    /\ Interrupt
    /\ sweep' = [sweep EXCEPT ![w] = Idle]
    /\ UNCHANGED <<row, kept, expired, time, files, reports, store, worker, deleter,
                   storageFaults>>

-----------------------------------------------------------------------------

Upload(a) == UploadPut(a) \/ UploadCommit(a) \/ UploadInterrupted(a)

Work(a) == WorkerStart(a) \/ WorkerPut(a) \/ WorkerCommit(a) \/ WorkerRaises(a)

RenderReport(a, r) == ReportPut(a, r) \/ ReportCommit(a, r)

DeleteObjects(a) == DeleteList(a) \/ DeleteRemove(a)

Sweep(w) ==
    \/ SweepStart(w)
    \/ SweepList(w)
    \/ \E a \in Analyses : SweepItem(w, a) \/ SweepRemove(w, a) \/ SweepMark(w, a)
    \/ SweepCommit(w)
    \/ SweepFails(w)

Next ==
    \/ \E a \in Analyses :
        \/ Upload(a)
        \/ Work(a)
        \/ WorkerInterrupted(a)
        \/ \E r \in Reports : \/ ReportStart(a, r)
                             \/ RenderReport(a, r)
                             \/ ReportInterrupted(a, r)
        \/ \E keep \in BOOLEAN : Keep(a, keep)
        \/ SoftDelete(a)
        \/ DeleteObjects(a)
        \/ DeleteInterrupted(a)
        \/ \E d \in Deadlines : Reaches(a, d)
    \/ \E w \in Sweepers : Sweep(w) \/ SweepInterrupted(w)

Spec == Init /\ [][Next]_vars

\* run_periodically sweeps forever, failed or not, and the event loop goes on
\* with the requests and runs that are in flight; no request has to be made.
FairSpec ==
    /\ Spec
    /\ \A w \in Sweepers : WF_vars(Sweep(w))
    /\ \A a \in Analyses :
        /\ WF_vars(Work(a))
        /\ WF_vars(DeleteObjects(a))
        /\ \A r \in Reports : WF_vars(RenderReport(a, r))
-----------------------------------------------------------------------------

ReportStates == {"none", "rendering", "stored", "completed", "expired", "lost"}
WorkerStates == {"idle", "validated", "stored", "completed", "late", "orphaned", "failed"}
SweepStates ==
    [phase : {"idle", "expire", "retire", "purge"}, listed : BOOLEAN,
     todo : SUBSET Analyses, cur : SUBSET Analyses, keys : SUBSET Kinds,
     failed : BOOLEAN, marks : SUBSET Analyses, stale : SUBSET (Analyses \X Reports)]

TypeOK ==
    /\ row \in [Analyses -> {"absent", "uploading", "abandoned", "live", "deleted", "purged"}]
    /\ kept \in [Analyses -> {"no", "inTime", "late"}]
    /\ expired \in [Analyses -> BOOLEAN]
    /\ time \in [Analyses -> SUBSET Deadlines]
    /\ files \in [Analyses -> SUBSET Kinds]
    /\ reports \in [Analyses -> [Reports -> ReportStates]]
    /\ store \subseteq Analyses \X Kinds
    /\ worker \in [Analyses -> WorkerStates]
    /\ deleter \in [Analyses -> [phase : {"idle", "list", "remove"}, keys : SUBSET Kinds]]
    /\ sweep \in [Sweepers -> SweepStates]
    /\ interrupts \in 0 .. MaxInterrupts
    /\ storageFaults \in 0 .. MaxStorageFaults

Gone(a) == <<a, "original">> \notin store
Uploaded(a) == row[a] \in {"live", "deleted", "purged"}

\* What a sweep has marked as expired or purged, and what it will mark unless a
\* removal fails, has lost its original for good: the keys of an item name it as
\* long as the row is there, and nothing uploads it again.
MarksAreTrue ==
    /\ \A a \in Analyses :
        /\ row[a] \in {"live", "deleted"} => "original" \in files[a]
        /\ row[a] = "purged" => Gone(a)
        /\ expired[a] => Uploaded(a)
    /\ \A w \in Sweepers, a \in Analyses :
        /\ a \in sweep[w].todo \cup sweep[w].cur \cup sweep[w].marks => Uploaded(a)
        /\ sweep[w].phase \in {"expire", "purge"} /\ a \in sweep[w].marks => Gone(a)
        /\ sweep[w].phase \in {"expire", "purge"} /\ a \in sweep[w].cur /\ ~sweep[w].failed =>
            "original" \in sweep[w].keys \/ Gone(a)

\* "The original was removed under the retention policy" is only ever said of an
\* original that is gone: content_purged_at is committed after a removal that
\* did not fail, however sweeps, keeps, crashes and storage failures interleave.
ExpiredOriginalIsGone ==
    \A a \in Analyses : Visible(a) /\ expired[a] => <<a, "original">> \notin store

\* A keep that was committed before the content deadline protects the original
\* until it is released, also from sweeps that are already running.
KeepInTimeIsHonoured ==
    \A a \in Analyses :
        Visible(a) /\ kept[a] = "inTime" /\ "record" \notin time[a] =>
            <<a, "original">> \in store

\* Before its deadlines a visible row lists only objects that exist: signed
\* links to originals, artifacts and reports are not dead.
NothingIsRemovedEarly ==
    \A a \in Analyses : Visible(a) /\ time[a] = {} =>
        \A k \in ObjectKeys(a) : <<a, k>> \in store

\* A purged analysis leaves neither its original nor an artifact of a run that
\* had ended before the delete, although the removals are retried over several
\* sweeps and some of them fail.
PurgeRemovesRecordedObjects ==
    \A a \in Analyses : row[a] = "purged" =>
        /\ <<a, "original">> \notin store
        /\ worker[a] \in {"completed", "failed"} => <<a, "artifact">> \notin store

\* An original past its deadline is removed unless the owner keeps or deletes it.
OverdueOriginalGoes ==
    \A a \in Analyses :
        Visible(a) /\ "content" \in time[a] ~>
            <<a, "original">> \notin store \/ kept[a] # "no" \/ ~Visible(a)

\* A deleted record whose grace period is over is purged.
DeletedIsPurged ==
    \A a \in Analyses : row[a] = "deleted" /\ "grace" \in time[a] ~>
        row[a] = "purged" \/ "grace" \notin time[a]
-----------------------------------------------------------------------------
(* What the documentation says and the code does not do *)

\* "... removed raw_content_retention_hours after creation, unless the owner
\* kept the analysis" (app/services/retention.py:5-7).
KeptOriginalStays ==
    [][\A a \in Analyses :
        Visible(a) /\ kept[a] # "no" /\ <<a, "original">> \in store =>
            <<a, "original">> \in store']_vars
=============================================================================
