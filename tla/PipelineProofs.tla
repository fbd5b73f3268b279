--------------------------- MODULE PipelineProofs ---------------------------
(***************************************************************************)
(* Pipeline's invariants hold for every number of analyses, every pipeline *)
(* length, every choice of critical steps and every number of failures.    *)
(***************************************************************************)
EXTENDS Pipeline, TLAPS

USE NStepsAssumption, CriticalAssumption, BoundsAssumption

\* TypeOK is not inductive alone: a running step has a position in the pipeline.
TypeInv ==
    /\ TypeOK
    /\ \A a \in Analyses : pc[a] = "running" => at[a] \in Steps

LEMMA TypeInvInductive == Spec => []TypeInv
<1> USE DEF TypeInv, TypeOK, Steps, PipelineError, Settled, Terminal, InFlight, Writing
<1>1. Init => TypeInv
  BY DEF Init, NoRecords
<1>2. TypeInv /\ [Next]_vars => TypeInv'
  <2> SUFFICES ASSUME TypeInv, [Next]_vars PROVE TypeInv'
    OBVIOUS
  <2> USE DEF db, env
  <2>1. ASSUME NEW a \in Analyses, Create(a) \/ Dispatch(a) \/ Load(a) PROVE TypeInv'
    BY <2>1 DEF Create, Dispatch, Load
  <2>2. ASSUME NEW a \in Analyses, MarkProcessing(a) PROVE TypeInv'
    BY <2>2 DEF MarkProcessing, Transition
  <2>3. ASSUME NEW a \in Analyses, AddStep(a) PROVE TypeInv'
    BY <2>3 DEF AddStep
  <2>4. ASSUME NEW a \in Analyses, NEW r \in Settled, FinishStep(a, r) PROVE TypeInv'
    <3>1. pc[a] = "running" /\ at[a] \in 1 .. NSteps /\ at[a] + 1 \in 1 .. NSteps + 1
      BY <2>4 DEF FinishStep
    <3>2. at' = [at EXCEPT ![a] = at[a] + 1] /\ pc' = [pc EXCEPT ![a] = "between"]
      BY <2>4 DEF FinishStep
    <3>3. verdict' \in [Analyses -> 0 .. NSteps]
      BY <2>4, <3>1 DEF FinishStep
    <3>4. records' \in [Analyses -> [Steps -> {"pending", "running"} \cup Settled]]
      BY <2>4, <3>1 DEF FinishStep
    <3> QED BY <2>4, <3>1, <3>2, <3>3, <3>4 DEF FinishStep
  <2>5. ASSUME NEW a \in Analyses, MarkCompleted(a) PROVE TypeInv'
    BY <2>5 DEF MarkCompleted, Transition
  <2>6. ASSUME NEW a \in Analyses, MarkFailed(a) PROVE TypeInv'
    BY <2>6 DEF MarkFailed, Transition
  <2>7. ASSUME NEW a \in Analyses, RunnerError(a) PROVE TypeInv'
    BY <2>7 DEF RunnerError
  <2>8. ASSUME NEW a \in Analyses, MarkCrashed(a) PROVE TypeInv'
    BY <2>8 DEF MarkCrashed, Transition
  <2>9. ASSUME NEW a \in Analyses, DbFault(a) PROVE TypeInv'
    BY <2>9 DEF DbFault
  <2>10. ASSUME NEW a \in Analyses, WriteToPurged(a) PROVE TypeInv'
    BY <2>10 DEF WriteToPurged
  <2>11. ASSUME NEW a \in Analyses, Delete(a) PROVE TypeInv'
    BY <2>11 DEF Delete
  <2>12. ASSUME NEW a \in Analyses, Purge(a) PROVE TypeInv'
    BY <2>12 DEF Purge, NoRecords
  <2>13. CASE Crash
    BY <2>13 DEF Crash
  <2>14. CASE UNCHANGED vars
    BY <2>14 DEF vars
  <2> QED
    BY <2>1, <2>2, <2>3, <2>4, <2>5, <2>6, <2>7, <2>8, <2>9, <2>10, <2>11, <2>12, <2>13, <2>14 DEF Next, Run
<1> QED BY <1>1, <1>2, PTL DEF Spec

\* Every variable stays in its set, whatever is interrupted, refused or purged.
THEOREM TypeCorrect == Spec => []TypeOK
<1>1. TypeInv => TypeOK
  BY DEF TypeInv
<1> QED BY <1>1, TypeInvInductive, PTL

-----------------------------------------------------------------------------

\* The four parts of IInv for one analysis.
Cell(b) ==
    /\ RunAgreesWithRow(b)
    /\ RecordsFollowPosition(b)
    /\ VerdictMatchesRecords(b)
    /\ TerminalMatchesVerdict(b)

SameCell(b) ==
    /\ row'[b] = row[b]
    /\ status'[b] = status[b]
    /\ cause'[b] = cause[b]
    /\ records'[b] = records[b]
    /\ pc'[b] = pc[b]
    /\ at'[b] = at[b]
    /\ verdict'[b] = verdict[b]

\* An analysis whose row and run are left alone keeps its part of IInv.
LEMMA Untouched ==
  ASSUME NEW b \in Analyses, Cell(b), SameCell(b)
  PROVE  Cell(b)'
BY DEF Cell, SameCell, RunAgreesWithRow, RecordsFollowPosition,
       VerdictMatchesRecords, TerminalMatchesVerdict, NoCriticalFailure

\* One step of the system keeps the invariant: an action of one analysis leaves
\* the others untouched, and keeps its own part.
LEMMA StepKeepsIInv ==
  ASSUME TypeInv, IInv, [Next]_vars
  PROVE  IInv'
<1> USE DEF TypeInv, TypeOK, Steps, PipelineError, Settled, Terminal, InFlight,
            Writing, NoRecords, db, env
<1> SUFFICES ASSUME NEW b \in Analyses PROVE Cell(b)'
  BY DEF IInv, Cell
<1> Cell(b)
  BY DEF IInv, Cell
<1> USE DEF Cell, RunAgreesWithRow, RecordsFollowPosition, VerdictMatchesRecords,
            TerminalMatchesVerdict, NoCriticalFailure
<1>1. ASSUME NEW a \in Analyses, Create(a) PROVE Cell(b)'
  <2>1. CASE b # a
    BY <1>1, <2>1, Untouched DEF SameCell, Create
  <2>2. CASE b = a
    BY <1>1, <2>2 DEF Create
  <2> QED BY <2>1, <2>2
<1>2. ASSUME NEW a \in Analyses, Dispatch(a) PROVE Cell(b)'
  <2>1. CASE b # a
    BY <1>2, <2>1, Untouched DEF SameCell, Dispatch
  <2>2. CASE b = a
    BY <1>2, <2>2 DEF Dispatch
  <2> QED BY <2>1, <2>2
<1>3. ASSUME NEW a \in Analyses, Load(a) PROVE Cell(b)'
  <2>1. CASE b # a
    BY <1>3, <2>1, Untouched DEF SameCell, Load
  <2>2. CASE b = a
    BY <1>3, <2>2 DEF Load
  <2> QED BY <2>1, <2>2
<1>4. ASSUME NEW a \in Analyses, MarkProcessing(a) PROVE Cell(b)'
  <2>1. CASE b # a
    BY <1>4, <2>1, Untouched DEF SameCell, MarkProcessing, Transition, Transitions
  <2>2. CASE b = a
    BY <1>4, <2>2 DEF MarkProcessing, Transition, Transitions
  <2> QED BY <2>1, <2>2
<1>5. ASSUME NEW a \in Analyses, AddStep(a) PROVE Cell(b)'
  <2>1. CASE b # a
    BY <1>5, <2>1, Untouched DEF SameCell, AddStep
  <2>2. CASE b = a
    BY <1>5, <2>2 DEF AddStep
  <2> QED BY <2>1, <2>2
<1>6. ASSUME NEW a \in Analyses, NEW r \in Settled, FinishStep(a, r) PROVE Cell(b)'
  <2>1. CASE b # a
    BY <1>6, <2>1, Untouched DEF SameCell, FinishStep, Outcomes, FirstCriticalFailure
  <2>2. CASE b = a
    <3>1. RunAgreesWithRow(b)'
      BY <1>6, <2>2 DEF FinishStep, Outcomes, FirstCriticalFailure
    <3>2. RecordsFollowPosition(b)'
      BY <1>6, <2>2 DEF FinishStep, Outcomes, FirstCriticalFailure
    <3>3. VerdictMatchesRecords(b)'
      BY <1>6, <2>2 DEF FinishStep, Outcomes, FirstCriticalFailure
    <3>4. TerminalMatchesVerdict(b)'
      BY <1>6, <2>2 DEF FinishStep, Outcomes, FirstCriticalFailure
    <3> QED BY <3>1, <3>2, <3>3, <3>4
  <2> QED BY <2>1, <2>2
<1>7. ASSUME NEW a \in Analyses, MarkCompleted(a) PROVE Cell(b)'
  <2>1. CASE b # a
    BY <1>7, <2>1, Untouched DEF SameCell, MarkCompleted, Transition, Transitions
  <2>2. CASE b = a
    BY <1>7, <2>2 DEF MarkCompleted, Transition, Transitions
  <2> QED BY <2>1, <2>2
<1>8. ASSUME NEW a \in Analyses, MarkFailed(a) PROVE Cell(b)'
  <2>1. CASE b # a
    BY <1>8, <2>1, Untouched DEF SameCell, MarkFailed, Transition, Transitions
  <2>2. CASE b = a
    BY <1>8, <2>2 DEF MarkFailed, Transition, Transitions
  <2> QED BY <2>1, <2>2
<1>9. ASSUME NEW a \in Analyses, RunnerError(a) PROVE Cell(b)'
  <2>1. CASE b # a
    BY <1>9, <2>1, Untouched DEF SameCell, RunnerError
  <2>2. CASE b = a
    BY <1>9, <2>2 DEF RunnerError
  <2> QED BY <2>1, <2>2
<1>10. ASSUME NEW a \in Analyses, MarkCrashed(a) PROVE Cell(b)'
  <2>1. CASE b # a
    BY <1>10, <2>1, Untouched DEF SameCell, MarkCrashed, Transition, Transitions
  <2>2. CASE b = a
    BY <1>10, <2>2 DEF MarkCrashed, Transition, Transitions
  <2> QED BY <2>1, <2>2
<1>11. ASSUME NEW a \in Analyses, DbFault(a) PROVE Cell(b)'
  <2>1. CASE b # a
    BY <1>11, <2>1, Untouched DEF SameCell, DbFault
  <2>2. CASE b = a
    BY <1>11, <2>2 DEF DbFault
  <2> QED BY <2>1, <2>2
<1>12. ASSUME NEW a \in Analyses, WriteToPurged(a) PROVE Cell(b)'
  <2>1. CASE b # a
    BY <1>12, <2>1, Untouched DEF SameCell, WriteToPurged
  <2>2. CASE b = a
    BY <1>12, <2>2 DEF WriteToPurged
  <2> QED BY <2>1, <2>2
<1>13. ASSUME NEW a \in Analyses, Delete(a) PROVE Cell(b)'
  <2>1. CASE b # a
    BY <1>13, <2>1, Untouched DEF SameCell, Delete
  <2>2. CASE b = a
    BY <1>13, <2>2 DEF Delete
  <2> QED BY <2>1, <2>2
<1>14. ASSUME NEW a \in Analyses, Purge(a) PROVE Cell(b)'
  <2>1. CASE b # a
    BY <1>14, <2>1, Untouched DEF SameCell, Purge
  <2>2. CASE b = a
    BY <1>14, <2>2 DEF Purge
  <2> QED BY <2>1, <2>2
<1>15. CASE Crash
  BY <1>15 DEF Crash
<1>16. CASE UNCHANGED vars
  BY <1>16, Untouched DEF SameCell, vars
<1> HIDE DEF TypeInv, TypeOK, Cell, RunAgreesWithRow, RecordsFollowPosition,
             VerdictMatchesRecords, TerminalMatchesVerdict, NoCriticalFailure, Settled
<1> QED
  BY <1>1, <1>2, <1>3, <1>4, <1>5, <1>6, <1>7, <1>8, <1>9,
     <1>10, <1>11, <1>12, <1>13, <1>14, <1>15, <1>16 DEF Next, Run

\* The inductive invariant holds in every reachable state.
THEOREM InductiveInvariant == Spec => []IInv
<1>1. Init => IInv
  BY DEF Init, IInv, RunAgreesWithRow, RecordsFollowPosition, Steps, NoRecords,
         VerdictMatchesRecords, TerminalMatchesVerdict, NoCriticalFailure,
         Terminal, PipelineError
<1>2. TypeInv /\ IInv /\ [Next]_vars => IInv'
  BY StepKeepsIInv
<1> QED BY <1>1, <1>2, TypeInvInductive, PTL DEF Spec

-----------------------------------------------------------------------------

\* Consequences of the invariant in one state.
LEMMA IInvImplies ==
  ASSUME TypeInv, IInv
  PROVE  /\ CompletedIsWhole
         /\ FailureIsExplained
         /\ ReturnedMeansTerminal
         /\ ProgressHasNoHoles
<1> USE DEF TypeInv, TypeOK, Steps, PipelineError, Settled, Terminal, NoRecords,
            IInv, RunAgreesWithRow, RecordsFollowPosition, VerdictMatchesRecords,
            TerminalMatchesVerdict, NoCriticalFailure
<1>1. CompletedIsWhole
  <2> SUFFICES ASSUME NEW a \in Analyses, status[a] = "completed"
               PROVE  /\ \A s \in Steps : records[a][s] \in Settled
                      /\ NoCriticalFailure(a, NSteps + 1)
    BY DEF CompletedIsWhole
  <2>1. row[a] # "purged" /\ at[a] = NSteps + 1 /\ verdict[a] = 0
    OBVIOUS
  <2>2. \A s \in Steps : s < at[a]
    BY <2>1
  <2> QED BY <2>1, <2>2
<1>2. FailureIsExplained
  BY DEF FailureIsExplained
<1>3. ReturnedMeansTerminal
  BY DEF ReturnedMeansTerminal
<1>4. ProgressHasNoHoles
  <2> SUFFICES ASSUME NEW a \in Analyses, NEW s \in Steps, NEW t \in Steps,
                      s < t, records[a][t] # "pending"
               PROVE  records[a][s] \in Settled
    BY DEF ProgressHasNoHoles
  <2>1. row[a] # "purged"
    OBVIOUS
  <2>2. at[a] \in Nat /\ ~(t > at[a])
    BY <2>1
  <2> QED BY <2>1, <2>2
<1> QED BY <1>1, <1>2, <1>3, <1>4

\* A completed analysis has every step settled and no critical failure.
THEOREM CompletedAnalysesAreWhole == Spec => []CompletedIsWhole
BY IInvImplies, TypeInvInductive, InductiveInvariant, PTL

\* A failed analysis names its first critical failure; later steps are skipped.
THEOREM FailuresAreExplained == Spec => []FailureIsExplained
BY IInvImplies, TypeInvInductive, InductiveInvariant, PTL

\* A run that returns leaves a terminal status, or a row hidden before it began.
THEOREM ReturnsAreTerminal == Spec => []ReturnedMeansTerminal
BY IInvImplies, TypeInvInductive, InductiveInvariant, PTL

\* Step records appear in order and only the last one can be unsettled.
THEOREM RecordsHaveNoHoles == Spec => []ProgressHasNoHoles
BY IInvImplies, TypeInvInductive, InductiveInvariant, PTL

\* The status, error and step records of a terminal analysis are immutable.
THEOREM TerminalAnalysesAreFrozen == Spec => TerminalIsFrozen
<1>1. TypeInv /\ IInv /\ [Next]_vars => [KeepsTerminal]_vars
  <2> SUFFICES ASSUME TypeInv, IInv, Next, NEW b \in Analyses, status[b] \in Terminal,
                      row'[b] # "purged"
               PROVE  /\ status'[b] = status[b]
                      /\ cause'[b] = cause[b]
                      /\ records'[b] = records[b]
    BY DEF KeepsTerminal
  <2>1. pc[b] = "done" /\ row[b] # "absent"
    BY DEF IInv, RunAgreesWithRow, TerminalMatchesVerdict, Terminal
  <2> USE DEF TypeInv, TypeOK, Terminal, Writing, db, env
  <2>2. ASSUME NEW a \in Analyses, Create(a) \/ Dispatch(a) \/ Load(a)
        PROVE  UNCHANGED <<status[b], cause[b], records[b]>>
    BY <2>1, <2>2 DEF Create, Dispatch, Load
  <2>3. ASSUME NEW a \in Analyses, NEW r \in Settled,
               MarkProcessing(a) \/ AddStep(a) \/ FinishStep(a, r)
        PROVE  UNCHANGED <<status[b], cause[b], records[b]>>
    BY <2>1, <2>3 DEF MarkProcessing, Transition, AddStep, FinishStep
  <2>4. ASSUME NEW a \in Analyses,
               MarkCompleted(a) \/ MarkFailed(a) \/ MarkCrashed(a)
        PROVE  UNCHANGED <<status[b], cause[b], records[b]>>
    BY <2>1, <2>4 DEF MarkCompleted, MarkFailed, MarkCrashed, Transition
  <2>5. ASSUME NEW a \in Analyses,
               RunnerError(a) \/ DbFault(a) \/ WriteToPurged(a) \/ Delete(a)
        PROVE  UNCHANGED <<status[b], cause[b], records[b]>>
    BY <2>5 DEF RunnerError, DbFault, WriteToPurged, Delete
  <2>6. ASSUME NEW a \in Analyses, Purge(a)
        PROVE  UNCHANGED <<status[b], cause[b], records[b]>>
    BY <2>6 DEF Purge
  <2>7. CASE Crash
    BY <2>7 DEF Crash
  <2> QED BY <2>2, <2>3, <2>4, <2>5, <2>6, <2>7 DEF Next, Run, Settled
<1> QED
  BY <1>1, TypeInvInductive, InductiveInvariant, PTL DEF Spec, TerminalIsFrozen

-----------------------------------------------------------------------------

\* The lifecycle sees nothing of a step that leaves statuses and settled
\* records alone.
LEMMA HiddenStep ==
  ASSUME Phase' = Phase, Results' = Results
  PROVE  UNCHANGED Lifecycle!vars
BY DEF Lifecycle!vars

\* Every step of the pipeline is a step of the lifecycle or invisible to it.
LEMMA StepRefines ==
  ASSUME TypeInv, IInv, [Next]_vars
  PROVE  [Lifecycle!Next]_(Lifecycle!vars)
<1> USE DEF TypeInv, TypeOK, db, env, Phase
<1> DEFINE Visible == Lifecycle!Next
<1> SUFFICES Visible \/ (Phase' = Phase /\ Results' = Results)
  BY HiddenStep
<1>1. ASSUME NEW a \in Analyses, Create(a) PROVE Lifecycle!Upload(a)
  <2>1. row[a] = "absent" /\ records' = records
    BY <1>1 DEF Create
  <2>2. Phase' = [Phase EXCEPT ![a] = "queued"]
    BY <1>1, <2>1 DEF Create
  <2> QED BY <2>1, <2>2 DEF Lifecycle!Upload, Results
<1>2. ASSUME NEW a \in Analyses, Dispatch(a) \/ Load(a) \/ RunnerError(a) \/ DbFault(a)
             \/ WriteToPurged(a)
      PROVE  Phase' = Phase /\ Results' = Results
  BY <1>2 DEF Dispatch, Load, RunnerError, DbFault, WriteToPurged, Results
<1>3. ASSUME NEW a \in Analyses, Delete(a)
      PROVE  Phase' = Phase /\ Results' = Results
  BY <1>3 DEF Delete, Results
<1>4. ASSUME Crash PROVE Phase' = Phase /\ Results' = Results
  BY <1>4 DEF Crash, Results
<1>5. ASSUME NEW a \in Analyses, NEW to \in {"processing", "completed", "failed"},
             Transition(a, to), UNCHANGED <<row, records>>,
             to = "completed" => Lifecycle!Whole(a) /\ ~Lifecycle!Broken(a)
      PROVE  Lifecycle!Move(a, to)
  <2>1. row[a] # "purged" /\ status[a] \in {"queued", "processing"}
    BY <1>5 DEF Transition, Transitions
  <2>2. row[a] # "absent"
    BY <2>1 DEF IInv, RunAgreesWithRow
  <2>3. Phase[a] = status[a]
    BY <2>1, <2>2
  <2>4. Phase' = [Phase EXCEPT ![a] = to]
    BY <1>5, <2>1, <2>2 DEF Transition
  <2> QED BY <1>5, <2>3, <2>4 DEF Transition, Lifecycle!Move, Transitions,
                                  Lifecycle!Transitions, Results
<1>6. ASSUME NEW a \in Analyses, MarkProcessing(a) \/ MarkFailed(a) \/ MarkCrashed(a)
      PROVE  Visible
  <2>1. PICK to \in {"processing", "failed"} :
            Transition(a, to) /\ UNCHANGED <<row, records>>
    BY <1>6 DEF MarkProcessing, MarkFailed, MarkCrashed
  <2>2. Lifecycle!Move(a, to)
    BY <1>5, <2>1
  <2> QED BY <2>2 DEF Lifecycle!Next
<1>7. ASSUME NEW a \in Analyses, MarkCompleted(a) PROVE Visible
  <2>1. row[a] # "purged" /\ verdict[a] = 0 /\ at[a] = NSteps + 1
    BY <1>7 DEF MarkCompleted, Transition, Steps, PipelineError
  <2>2. \A s \in Steps : s < at[a] /\ records[a][s] \in Settled
    BY <2>1 DEF IInv, RecordsFollowPosition, Steps
  <2>3. \A c \in Critical : c \in Steps /\ records[a][c] # "failed"
    BY <2>1, <2>2 DEF IInv, VerdictMatchesRecords, NoCriticalFailure, Steps
  <2>4. Lifecycle!Whole(a) /\ ~Lifecycle!Broken(a)
    BY <2>2, <2>3 DEF Lifecycle!Whole, Lifecycle!Broken, Lifecycle!Steps, Results,
                      Steps, Settled
  <2>5. Lifecycle!Move(a, "completed")
    BY <1>5, <1>7, <2>4 DEF MarkCompleted
  <2> QED BY <2>5 DEF Lifecycle!Next
<1>8. ASSUME NEW a \in Analyses, AddStep(a) PROVE Phase' = Phase /\ Results' = Results
  <2>1. records[a][at[a]] = "pending" /\ at[a] \in Steps
    BY <1>8 DEF AddStep, IInv, RecordsFollowPosition
  <2> QED BY <1>8, <2>1 DEF AddStep, Results
<1>9. ASSUME NEW a \in Analyses, NEW r \in Settled, FinishStep(a, r) PROVE Visible
  <2>1. /\ row[a] # "purged"
        /\ pc[a] = "running"
        /\ at[a] \in Steps
        /\ records' = [records EXCEPT ![a][at[a]] = r]
        /\ UNCHANGED <<row, status>>
    BY <1>9 DEF FinishStep
  <2>2. /\ status[a] = "processing"
        /\ row[a] # "absent"
        /\ records[a][at[a]] \in {"pending", "running"}
        /\ \A s \in Steps : s < at[a] => records[a][s] \in Settled
        /\ \A s \in Steps : s > at[a] => records[a][s] = "pending"
    BY <2>1 DEF IInv, RunAgreesWithRow, RecordsFollowPosition
  <2>3. Phase[a] = "processing" /\ Results[a][at[a]] = "pending"
    BY <2>1, <2>2 DEF Results
  <2>4. \A t \in 1 .. at[a] - 1 : Results[a][t] # "pending"
    <3>1. \A t \in 1 .. at[a] - 1 : t \in Steps /\ t < at[a]
      BY <2>1 DEF Steps
    <3> QED BY <2>2, <3>1 DEF Results, Settled
  <2>5. Lifecycle!Broken(a) => r = "skipped"
    <3> SUFFICES ASSUME NEW c \in Critical, Results[a][c] = "failed" PROVE r = "skipped"
      BY DEF Lifecycle!Broken
    <3>1. c \in Steps /\ records[a][c] = "failed"
      BY DEF Results, Steps
    <3>2. c < at[a]
      BY <2>1, <2>2, <3>1 DEF Steps
    <3>3. verdict[a] # 0
      BY <2>1, <3>1, <3>2 DEF IInv, VerdictMatchesRecords, NoCriticalFailure
    <3> QED BY <1>9, <3>3 DEF FinishStep, Outcomes
  <2>6. Results' = [Results EXCEPT ![a][at[a]] = r]
    BY <2>1 DEF Results, Settled
  <2>7. Lifecycle!Settle(a, at[a], r)
    BY <2>1, <2>3, <2>4, <2>5, <2>6 DEF Lifecycle!Settle
  <2> QED BY <2>1, <2>7 DEF Lifecycle!Next, Lifecycle!Steps, Lifecycle!Settled, Steps, Settled
<1>10. ASSUME NEW a \in Analyses, Purge(a) PROVE Lifecycle!Remove(a)
  <2>1. row[a] = "deleted" /\ status[a] # "absent"
    BY <1>10 DEF Purge, Terminal
  <2>2. Phase' = [Phase EXCEPT ![a] = "purged"]
    BY <1>10, <2>1 DEF Purge
  <2>3. Results' = [Results EXCEPT ![a] = Lifecycle!NoResults]
    BY <1>10 DEF Purge, Results, NoRecords, Lifecycle!NoResults, Lifecycle!Steps, Steps
  <2> QED BY <2>1, <2>2, <2>3 DEF Lifecycle!Remove
<1>11. ASSUME UNCHANGED vars PROVE Phase' = Phase /\ Results' = Results
  BY <1>11 DEF vars, Results
<1> QED
  BY <1>1, <1>2, <1>3, <1>4, <1>6, <1>7, <1>8, <1>9, <1>10, <1>11
  DEF Next, Run, Lifecycle!Next

\* The pipeline implements the lifecycle a client is promised.
THEOREM PipelineImplementsLifecycle == Spec => LifecycleSpec
<1>1. Init => Lifecycle!Init
  BY DEF Init, Lifecycle!Init, Phase, Results, NoRecords, Lifecycle!NoResults,
         Lifecycle!Steps, Steps
<1>2. TypeInv /\ IInv /\ [Next]_vars => [Lifecycle!Next]_(Lifecycle!vars)
  BY StepRefines
<1> QED
  BY <1>1, <1>2, TypeInvInductive, InductiveInvariant, PTL
  DEF Spec, LifecycleSpec, Lifecycle!Spec
=============================================================================
