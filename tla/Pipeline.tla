------------------------------ MODULE Pipeline ------------------------------
(***************************************************************************)
(* The worker side of one analysis: the upload commits a queued row, the   *)
(* dispatcher hands it to run_analysis, the runner persists one record per *)
(* step and the outcome moves the status.  Owners delete and the retention *)
(* sweeper purges rows while runs are in flight; the process can stop and  *)
(* the database can refuse a write.                                        *)
(*                                                                         *)
(* Every action is one database commit (or one await between two): what a  *)
(* step computes is reduced to the status of its record.                   *)
(***************************************************************************)
EXTENDS Naturals, FiniteSets

CONSTANTS Analyses,     \* analyses that may be uploaded
          NSteps,       \* length of the pipeline (16 for images)
          Critical,     \* positions of its critical steps (validate, hashing)
          MaxCrashes,   \* bound: how often the process stops
          MaxFaults     \* bound: refused database writes and runner errors

ASSUME NStepsAssumption == NSteps \in Nat \ {0}
ASSUME CriticalAssumption == Critical \subseteq 1 .. NSteps
ASSUME BoundsAssumption == MaxCrashes \in Nat /\ MaxFaults \in Nat

VARIABLES row,          \* existence of the analysis row
          status,       \* analyses.status
          cause,        \* step behind analyses.error_code, 0 when there is none
          records,      \* analysis_steps.status, "pending" when there is no record
          pc,           \* where run_analysis is
          at,           \* the runner's loop position
          verdict,      \* PipelineResult.failed_step in memory, 0 while completed
          crashes, faults

vars == <<row, status, cause, records, pc, at, verdict, crashes, faults>>
db == <<row, status, cause, records>>
env == <<crashes, faults>>

Steps == 1 .. NSteps
PipelineError == NSteps + 1
Settled == {"completed", "skipped", "failed"}
Terminal == {"completed", "failed"}
NoRecords == [s \in Steps |-> "pending"]

\* run_analysis holds a session and is about to write through it
Writing == {"loaded", "between", "running", "crashed"}
\* a request or a background task of this process is working on the analysis
InFlight == {"created", "scheduled"} \cup Writing

\* Legal status transitions. Terminal states have no successors.
Transitions == { <<"queued", "processing">>, <<"queued", "failed">>,
                 <<"processing", "completed">>, <<"processing", "failed">> }

Init ==
    /\ row = [a \in Analyses |-> "absent"]
    /\ status = [a \in Analyses |-> "none"]
    /\ cause = [a \in Analyses |-> 0]
    /\ records = [a \in Analyses |-> NoRecords]
    /\ pc = [a \in Analyses |-> "none"]
    /\ at = [a \in Analyses |-> 1]
    /\ verdict = [a \in Analyses |-> 0]
    /\ crashes = 0
    /\ faults = 0

-----------------------------------------------------------------------------
(* The upload request *)

\* The row is committed with its file; the task is scheduled by a later call.
Create(a) ==
    /\ row[a] = "absent"
    /\ row' = [row EXCEPT ![a] = "live"]
    /\ status' = [status EXCEPT ![a] = "queued"]
    /\ pc' = [pc EXCEPT ![a] = "created"]
    /\ UNCHANGED <<cause, records, at, verdict, env>>

Dispatch(a) ==
    /\ pc[a] = "created"
    /\ pc' = [pc EXCEPT ![a] = "scheduled"]
    /\ UNCHANGED <<db, at, verdict, env>>

-----------------------------------------------------------------------------
(* run_analysis *)

\* A row that is hidden, gone or no longer queued is skipped.
Load(a) ==
    /\ pc[a] = "scheduled"
    /\ pc' = [pc EXCEPT ![a] = IF row[a] = "live" /\ status[a] = "queued"
                               THEN "loaded" ELSE "done"]
    /\ UNCHANGED <<db, at, verdict, env>>

\* _transition, with the commit that follows: the row must still be there.
Transition(a, to) ==
    /\ row[a] # "purged"
    /\ <<status[a], to>> \in Transitions
    /\ status' = [status EXCEPT ![a] = to]

MarkProcessing(a) ==
    /\ pc[a] = "loaded"
    /\ Transition(a, "processing")
    /\ pc' = [pc EXCEPT ![a] = "between"]
    /\ UNCHANGED <<row, cause, records, at, verdict, env>>

AddStepPastEnd(a) ==                                                        \* mutant
    /\ pc[a] = "between"
    /\ row[a] # "purged"
    /\ at[a] \in 1 .. PipelineError
    /\ records' = [records EXCEPT ![a][at[a]] = "running"]
    /\ pc' = [pc EXCEPT ![a] = "running"]
    /\ UNCHANGED <<row, status, cause, at, verdict, env>>

AddStepAhead(a) ==                                                          \* mutant
    /\ pc[a] = "between"
    /\ row[a] # "purged"
    /\ at[a] \in 1 .. NSteps - 1
    /\ records' = [records EXCEPT ![a][at[a] + 1] = "running"]
    /\ pc' = [pc EXCEPT ![a] = "running"]
    /\ UNCHANGED <<row, status, cause, at, verdict, env>>

AddStep(a) ==
    /\ pc[a] = "between"
    /\ row[a] # "purged"
    /\ at[a] \in Steps
    /\ records' = [records EXCEPT ![a][at[a]] = "running"]
    /\ pc' = [pc EXCEPT ![a] = "running"]
    /\ UNCHANGED <<row, status, cause, at, verdict, env>>

\* What the step may return: anything while no critical step has failed (an
\* exception is a failed outcome), and "skipped" without running it after that.
OutcomesUnguarded(a) == Settled                                             \* mutant
Outcomes(a) == IF verdict[a] = 0 THEN Settled ELSE {"skipped"}

FirstOptionalFailure(a, r) ==                                               \* mutant
    r = "failed" /\ at[a] \notin Critical /\ verdict[a] = 0
FirstCriticalFailure(a, r) ==
    r = "failed" /\ at[a] \in Critical /\ verdict[a] = 0

FinishStep(a, r) ==
    /\ pc[a] = "running"
    /\ row[a] # "purged"
    /\ r \in Outcomes(a)
    /\ records' = [records EXCEPT ![a][at[a]] = r]
    /\ verdict' = [verdict EXCEPT ![a] = IF FirstCriticalFailure(a, r)
                                         THEN at[a] ELSE @]
    /\ at' = [at EXCEPT ![a] = @ + 1]
    /\ pc' = [pc EXCEPT ![a] = "between"]
    /\ UNCHANGED <<row, status, cause, env>>

MarkCompleted(a) ==
    /\ pc[a] = "between"
    /\ at[a] \notin Steps
    /\ verdict[a] = 0
    /\ Transition(a, "completed")
    /\ pc' = [pc EXCEPT ![a] = "done"]
    /\ UNCHANGED <<row, cause, records, at, verdict, env>>

MarkFailed(a) ==
    /\ pc[a] = "between"
    /\ at[a] \notin Steps
    /\ verdict[a] # 0
    /\ Transition(a, "failed")
    /\ cause' = [cause EXCEPT ![a] = verdict[a]]
    /\ pc' = [pc EXCEPT ![a] = "done"]
    /\ UNCHANGED <<row, records, at, verdict, env>>

\* An error that leaves the runner with a usable session ...
RunnerError(a) ==
    /\ pc[a] \in {"between", "running"}
    /\ faults < MaxFaults
    /\ faults' = faults + 1
    /\ pc' = [pc EXCEPT ![a] = "crashed"]
    /\ UNCHANGED <<db, at, verdict, crashes>>

\* ... is turned into a failed analysis by the dispatcher.
MarkCrashedSwallows(a) ==                                                   \* mutant
    /\ pc[a] = "crashed"
    /\ pc' = [pc EXCEPT ![a] = "done"]
    /\ UNCHANGED <<db, at, verdict, env>>

MarkCrashed(a) ==
    /\ pc[a] = "crashed"
    /\ Transition(a, "failed")
    /\ cause' = [cause EXCEPT ![a] = PipelineError]
    /\ pc' = [pc EXCEPT ![a] = "done"]
    /\ UNCHANGED <<row, records, at, verdict, env>>

\* A write the database refuses (a unique key taken by a concurrent request, a
\* lost connection).  At "loaded" it is the one of mark_processing, before the
\* dispatcher's try: the row stays queued.  Later it rolls the session back and
\* leaves it refusing every further statement until rollback() is called, which
\* nobody does: the record's commit raises, and so does the handler's mark_failed.
DbFault(a) ==
    /\ pc[a] \in Writing
    /\ faults < MaxFaults
    /\ faults' = faults + 1
    /\ pc' = [pc EXCEPT ![a] = "raised"]
    /\ UNCHANGED <<db, at, verdict, crashes>>

\* The row was purged under the run: inserting a step violates its foreign key,
\* updating a record or the status matches no row; both poison the session.
WriteToPurged(a) ==
    /\ pc[a] \in Writing
    /\ row[a] = "purged"
    /\ pc' = [pc EXCEPT ![a] = "raised"]
    /\ UNCHANGED <<db, at, verdict, env>>

-----------------------------------------------------------------------------
(* Everybody else *)

\* Soft delete: the row is hidden, the run is not told.
DeleteCascades(a) ==                                                        \* mutant
    /\ row[a] = "live"
    /\ row' = [row EXCEPT ![a] = "deleted"]
    /\ records' = [records EXCEPT ![a] = NoRecords]
    /\ UNCHANGED <<status, cause, pc, at, verdict, env>>

Delete(a) ==
    /\ row[a] = "live"
    /\ row' = [row EXCEPT ![a] = "deleted"]
    /\ UNCHANGED <<status, cause, records, pc, at, verdict, env>>

\* The sweeper removes a deleted row; its step records cascade.
Purge(a) ==
    /\ row[a] = "deleted"
    /\ row' = [row EXCEPT ![a] = "purged"]
    /\ status' = [status EXCEPT ![a] = "none"]
    /\ cause' = [cause EXCEPT ![a] = 0]
    /\ records' = [records EXCEPT ![a] = NoRecords]
    /\ UNCHANGED <<pc, at, verdict, env>>

\* The process stops: requests and background tasks are gone, and nothing
\* re-dispatches what they were doing.
Crash ==
    /\ crashes < MaxCrashes
    /\ \E a \in Analyses : pc[a] \in InFlight
    /\ crashes' = crashes + 1
    /\ pc' = [a \in Analyses |-> IF pc[a] \in InFlight THEN "lost" ELSE pc[a]]
    /\ UNCHANGED <<db, at, verdict, faults>>

-----------------------------------------------------------------------------

Run(a) ==
    \/ Dispatch(a)
    \/ Load(a)
    \/ MarkProcessing(a)
    \/ AddStep(a)
    \/ \E r \in Settled : FinishStep(a, r)
    \/ MarkCompleted(a)
    \/ MarkFailed(a)
    \/ MarkCrashed(a)
    \/ WriteToPurged(a)

Next ==
    \/ \E a \in Analyses :
        \/ Create(a)
        \/ Run(a)
        \/ RunnerError(a)
        \/ DbFault(a)
        \/ Delete(a)
        \/ Purge(a)
    \/ Crash

Spec == Init /\ [][Next]_vars

\* The event loop keeps running a scheduled task, and every step has a timeout
\* or terminates by itself.  Uploads, deletions and failures are not promised.
FairSpec == Spec /\ \A a \in Analyses : WF_vars(Run(a))
-----------------------------------------------------------------------------

TypeOK ==
    /\ row \in [Analyses -> {"absent", "live", "deleted", "purged"}]
    /\ status \in [Analyses -> {"none", "queued", "processing"} \cup Terminal]
    /\ cause \in [Analyses -> 0 .. PipelineError]
    /\ records \in [Analyses -> [Steps -> {"pending", "running"} \cup Settled]]
    /\ pc \in [Analyses -> {"none", "done", "raised", "lost"} \cup InFlight]
    /\ at \in [Analyses -> 1 .. PipelineError]
    /\ verdict \in [Analyses -> 0 .. NSteps]
    /\ crashes \in 0 .. MaxCrashes
    /\ faults \in 0 .. MaxFaults

NoCriticalFailure(a, before) ==
    \A c \in Critical : c < before => records[a][c] # "failed"

\* A completed analysis has every step on record, all of them settled, and no
\* critical one failed (mark_completed comes after the last record's commit,
\* whatever was deleted or interrupted meanwhile).
CompletedIsWhole ==
    \A a \in Analyses : status[a] = "completed" =>
        /\ \A s \in Steps : records[a][s] \in Settled
        /\ NoCriticalFailure(a, NSteps + 1)

\* The error shown on a failed analysis is the first critical failure in
\* pipeline order, and nothing after that step was executed.
FailureIsExplained ==
    \A a \in Analyses : status[a] = "failed" /\ cause[a] # PipelineError =>
        /\ cause[a] \in Critical
        /\ records[a][cause[a]] = "failed"
        /\ NoCriticalFailure(a, cause[a])
        /\ \A s \in Steps :
            /\ s < cause[a] => records[a][s] \in Settled
            /\ s > cause[a] => records[a][s] = "skipped"

\* A run that returned normally left a terminal status behind it: an analysis
\* is stuck only when the process stopped or run_analysis raised.  A row hidden
\* before the run loaded it stays queued.
ReturnedMeansTerminal ==
    \A a \in Analyses : pc[a] = "done" =>
        \/ status[a] \in Terminal
        \/ (row[a] = "deleted" /\ status[a] = "queued")
        \/ row[a] = "purged"

\* At most one step of an analysis is on record as running, and everything
\* before it has settled: a poll never sees a hole in the progress list.
ProgressHasNoHoles ==
    \A a \in Analyses : \A s, t \in Steps :
        s < t /\ records[a][t] # "pending" => records[a][s] \in Settled

\* The inductive invariant behind all of these: where run_analysis is determines
\* the status it left in the row, the shape of the step records up to the loop
\* position, and that the result in memory agrees with the records on disk.
RunAgreesWithRow(a) ==
    /\ row[a] = "absent" => pc[a] = "none"
    /\ pc[a] = "none" => row[a] = "absent" /\ status[a] = "none"
    /\ pc[a] \in {"none", "created", "scheduled", "loaded"} =>
        at[a] = 1 /\ verdict[a] = 0 /\ records[a] = NoRecords
    /\ row[a] = "purged" => status[a] = "none" /\ records[a] = NoRecords
    /\ row[a] # "purged" =>
        /\ pc[a] \in {"created", "scheduled", "loaded"} => status[a] = "queued"
        /\ pc[a] \in {"between", "running", "crashed"} => status[a] = "processing"
        /\ pc[a] = "done" => \/ status[a] \in Terminal
                             \/ (row[a] = "deleted" /\ status[a] = "queued")

RecordsFollowPosition(a) ==
    row[a] # "purged" =>
        /\ \A s \in Steps : s < at[a] => records[a][s] \in Settled
        /\ \A s \in Steps : s > at[a] => records[a][s] = "pending"
        /\ at[a] \in Steps => records[a][at[a]] \in {"pending", "running"}
        /\ at[a] \in Steps /\ pc[a] = "between" => records[a][at[a]] = "pending"
        /\ pc[a] = "running" => at[a] \in Steps

VerdictMatchesRecords(a) ==
    row[a] # "purged" =>
        /\ verdict[a] = 0 => NoCriticalFailure(a, at[a])
        /\ verdict[a] # 0 =>
            /\ verdict[a] \in Critical
            /\ verdict[a] < at[a]
            /\ records[a][verdict[a]] = "failed"
            /\ NoCriticalFailure(a, verdict[a])
            /\ \A s \in Steps :
                verdict[a] < s /\ s < at[a] => records[a][s] = "skipped"

TerminalMatchesVerdict(a) ==
    /\ status[a] \in Terminal => pc[a] = "done"
    /\ status[a] = "completed" => at[a] = PipelineError /\ verdict[a] = 0
    /\ status[a] = "failed" /\ cause[a] # PipelineError =>
        at[a] = PipelineError /\ verdict[a] # 0 /\ cause[a] = verdict[a]

IInv == \A a \in Analyses :
    /\ RunAgreesWithRow(a)
    /\ RecordsFollowPosition(a)
    /\ VerdictMatchesRecords(a)
    /\ TerminalMatchesVerdict(a)

\* What a terminal analysis shows never changes again, short of its removal.
KeepsTerminal ==
    \A a \in Analyses : status[a] \in Terminal /\ row'[a] # "purged" =>
        /\ status'[a] = status[a]
        /\ cause'[a] = cause[a]
        /\ records'[a] = records[a]

TerminalIsFrozen == [][KeepsTerminal]_vars

\* Every loaded analysis reaches a terminal status unless its row is removed,
\* the process stops or run_analysis raises.
LoadedSettles ==
    \A a \in Analyses : pc[a] = "loaded" ~>
        \/ status[a] \in Terminal
        \/ row[a] = "purged"
        \/ pc[a] \in {"lost", "raised"}

\* "Execute the pipeline for one analysis with its own DB session. Never
\* raises." (app/workers/dispatcher.py:101).  The code breaks this.
NeverRaises == \A a \in Analyses : pc[a] # "raised"
-----------------------------------------------------------------------------

\* Pipeline implements AnalysisLifecycle: a client reads the status and the
\* settled records; running records, positions and verdicts are hidden.
Phase == [a \in Analyses |->
            IF row[a] \in {"absent", "purged"} THEN row[a] ELSE status[a]]
Results == [a \in Analyses |-> [s \in Steps |->
            IF records[a][s] = "running" THEN "pending" ELSE records[a][s]]]

Lifecycle == INSTANCE AnalysisLifecycle WITH phase <- Phase, results <- Results

LifecycleSpec == Lifecycle!Spec
=============================================================================
