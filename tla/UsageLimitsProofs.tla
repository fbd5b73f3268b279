------------------------- MODULE UsageLimitsProofs -------------------------
(***************************************************************************)
(* The counters of UsageLimits agree with the rows they summarise for any  *)
(* number of clients, runs and months, and any limits; and how far those   *)
(* limits are exceeded.  A limit that is read long before it counts is     *)
(* made good by counting beforehand what is under way: an upload that has  *)
(* been admitted already counts, and so does every call a run may still    *)
(* make without looking at the budget.                                     *)
(***************************************************************************)
EXTENDS UsageLimits, FiniteSetTheorems, TLAPS

USE LimitsAssumption, RolesAssumption

\* TypeOK is not inductive alone: a run that owes a step has one left.
TypeInv ==
    /\ TypeOK
    /\ \A r \in Runs : pc[r] \in {"calling"} \cup Open => step[r] \in 1 .. 3

\* Adding to counters yields counters.
LEMMA PlusType ==
    ASSUME NEW c \in Counters, NEW t \in Txs, TypeOK
    PROVE  Plus(c, t) \in Counters
<1>1. CASE t \in Uploaders
  BY <1>1 DEF Plus, Counters, Txs
<1>2. CASE t \in Reports
  BY <1>2 DEF Plus, Counters, Txs
<1>3. CASE t \in Runs
  <2>1. owed[t] \in Nat
    BY <1>3 DEF TypeOK
  <2>2. Plus(c, t) = [c EXCEPT !.calls = @ + 1, !.cost = @ + owed[t]]
    BY <1>3 DEF Plus
  <2>3. c.calls + 1 \in Nat /\ c.cost + owed[t] \in Nat
    BY <2>1 DEF Counters
  <2> QED BY <2>2, <2>3 DEF Counters
<1> QED BY <1>1, <1>2, <1>3 DEF Txs

\* The end of a transaction leaves locks and written counters well typed.
LEMMA ReleaseType ==
    ASSUME TypeOK, NEW t \in Txs, Release(t)
    PROVE  /\ lock' \in [Months -> Txs \cup {"free"}]
           /\ pending' \in [Txs -> Counters]
<1>1. Zero \in Counters
  BY DEF Zero, Counters
<1> QED BY <1>1 DEF TypeOK, Release

\* A commit leaves counters, locks and written counters well typed.
LEMMA CommitType ==
    ASSUME TypeOK, NEW t \in Txs, CommitUsage(t)
    PROVE  /\ rows' \subseteq Months
           /\ usage' \in [Months -> Counters]
           /\ audit' \in [Months -> Counters]
           /\ lock' \in [Months -> Txs \cup {"free"}]
           /\ pending' \in [Txs -> Counters]
           /\ UNCHANGED <<month, period, owed, interrupts>>
<1>1. period[t] \in Months /\ audit[period[t]] \in Counters /\ pending[t] \in Counters
  BY DEF TypeOK
<1>2. Plus(audit[period[t]], t) \in Counters
  BY <1>1, PlusType
<1>3. Release(t)
  BY DEF CommitUsage
<1> QED BY <1>1, <1>2, <1>3, ReleaseType DEF CommitUsage, TypeOK

\* Types: initially, and over every step.
LEMMA TypeInit == Init => TypeInv
<1> SUFFICES ASSUME Init PROVE TypeInv
  OBVIOUS
<1>1. Zero \in Counters
  BY DEF Zero, Counters
<1>2. 1 \in Months
  BY DEF Months
<1> QED BY <1>1, <1>2 DEF Init, TypeInv, TypeOK, Open, Txs

LEMMA TypeStep == TypeInv /\ [Next]_vars => TypeInv'
<1> SUFFICES ASSUME TypeInv, [Next]_vars PROVE TypeInv'
  OBVIOUS
<1> USE DEF TypeInv
<1>1. ASSUME NEW t \in Txs, GetUsage(t) PROVE TypeInv'
  BY <1>1 DEF GetUsage, Goto, TypeOK, Open
<1>2. ASSUME NEW t \in Txs, InsertUsage(t) PROVE TypeInv'
  BY <1>2 DEF InsertUsage, Goto, TypeOK, Open
<1>3. ASSUME NEW t \in Txs, InsertConflict(t) PROVE TypeInv'
  BY <1>3 DEF InsertConflict, Goto, TypeOK, Open
<1>4. ASSUME NEW t \in Txs, UpdateUsage(t) PROVE TypeInv'
  <2>1. Plus(usage[period[t]], t) \in Counters
    BY PlusType DEF TypeOK
  <2> QED BY <1>4, <2>1 DEF UpdateUsage, Goto, TypeOK, Open
<1>5. ASSUME NEW t \in Txs, Interrupted(t) PROVE TypeInv'
  <2>1. interrupts' \in 0 .. MaxInterrupts
    BY <1>5 DEF Interrupted, TypeOK
  <2> QED BY <1>5, <2>1, ReleaseType DEF Interrupted, Goto, TypeOK, Open
<1>6. ASSUME NEW u \in Uploaders, Admit(u) \/ Retry(u) PROVE TypeInv'
  BY <1>6 DEF Admit, Retry, Goto, TypeOK, Open, Txs
<1>7. ASSUME NEW u \in Uploaders, CommitUpload(u) PROVE TypeInv'
  BY <1>7, CommitType DEF CommitUpload, Goto, TypeOK, Open, Txs
<1>8. ASSUME NEW p \in Reports, StartReport(p) PROVE TypeInv'
  BY <1>8 DEF StartReport, Goto, TypeOK, Open, Txs
<1>9. ASSUME NEW p \in Reports, CommitReport(p) PROVE TypeInv'
  BY <1>9, CommitType DEF CommitReport, Goto, TypeOK, Open, Txs
<1>10. ASSUME NEW r \in Runs, SkipPaid(r) PROVE TypeInv'
  BY <1>10 DEF SkipPaid, AtPaidStep, TypeOK, Open
<1>11. ASSUME NEW r \in Runs, StartPaid(r) PROVE TypeInv'
  BY <1>11 DEF StartPaid, AtPaidStep, Goto, TypeOK, Open, Txs
<1>12. ASSUME NEW r \in Runs, NEW cost \in 0 .. MaxCost, CallProvider(r, cost) PROVE TypeInv'
  BY <1>12 DEF CallProvider, Goto, TypeOK, Open, Txs
<1>13. ASSUME NEW r \in Runs, CommitPaid(r) PROVE TypeInv'
  <2>1. step[r] \in 1 .. 3
    BY <1>13 DEF CommitPaid, CommitUsage, Open
  <2> QED BY <1>13, <2>1, CommitType DEF CommitPaid, Goto, TypeOK, Open, Txs
<1>14. CASE DeleteAnalysis
  BY <1>14 DEF DeleteAnalysis, TypeOK
<1>15. CASE NextMonth
  BY <1>15 DEF NextMonth, TypeOK, Months
<1>16. CASE UNCHANGED vars
  BY <1>16 DEF vars, TypeOK
<1> QED
  BY <1>1, <1>2, <1>3, <1>4, <1>5, <1>6, <1>7, <1>8, <1>9, <1>10, <1>11, <1>12, <1>13,
     <1>14, <1>15, <1>16 DEF Next, Take, Go

LEMMA TypeInvariant == Spec => []TypeInv
BY TypeInit, TypeStep, PTL DEF Spec

\* Every variable keeps to its type, whatever is rolled back.
THEOREM TypeCorrect == Spec => []TypeOK
<1>1. TypeInv => TypeOK
  BY DEF TypeInv
<1> QED BY <1>1, TypeInvariant, PTL
-----------------------------------------------------------------------------

IInv == TypeInv /\ RowHasOneWriter /\ CountersMatchRows

\* What a transaction adds depends on its own cost and its own month's counters.
LEMMA PlusStays ==
    ASSUME NEW t \in Txs, t \in Runs => owed'[t] = owed[t],
           usage'[period'[t]] = usage[period[t]]
    PROVE  Plus(usage[period[t]], t)' = Plus(usage[period[t]], t)
BY DEF Plus

\* A step that changes no lock, counter or written value, and takes nobody to or
\* from the positions at which a row is held.
LEMMA Untouched ==
    ASSUME TypeOK, RowHasOneWriter,
           UNCHANGED <<usage, lock, pending, owed>>,
           \A t \in Txs : pc[t] \in {"update", "flushed"} \/ pc'[t] = "flushed" =>
                              pc'[t] = pc[t] /\ period'[t] = period[t]
    PROVE  RowHasOneWriter'
<1>1. ASSUME NEW m \in Months, lock'[m] # "free"
      PROVE  period'[lock'[m]] = m /\ pc'[lock'[m]] \in {"update", "flushed"}
  BY <1>1 DEF RowHasOneWriter, TypeOK
<1>2. ASSUME NEW t \in Txs, pc'[t] = "flushed"
      PROVE  (lock[period[t]] = t /\ pending[t] = Plus(usage[period[t]], t))'
  BY <1>2, PlusStays DEF RowHasOneWriter, TypeOK
<1> QED BY <1>1, <1>2 DEF RowHasOneWriter

\* The end of a transaction frees the row, and only the one it held.
LEMMA ReleaseKeeps ==
    ASSUME TypeOK, RowHasOneWriter, NEW t \in Txs, Release(t),
           UNCHANGED <<period, owed>>,
           \A q \in Txs \ {t} : pc'[q] = pc[q],
           pc'[t] \notin {"update", "flushed"},
           \A m \in Months : usage'[m] = usage[m] \/ lock[m] = t
    PROVE  RowHasOneWriter'
<1>1. ASSUME NEW m \in Months, lock'[m] # "free"
      PROVE  period'[lock'[m]] = m /\ pc'[lock'[m]] \in {"update", "flushed"}
  <2>1. lock'[m] = lock[m] /\ lock[m] # t /\ lock[m] \in Txs
    BY <1>1 DEF Release, TypeOK
  <2> QED BY <1>1, <2>1 DEF RowHasOneWriter
<1>2. ASSUME NEW q \in Txs, pc'[q] = "flushed"
      PROVE  (lock[period[q]] = q /\ pending[q] = Plus(usage[period[q]], q))'
  <2>1. q # t /\ pc[q] = "flushed" /\ period'[q] = period[q] /\ period[q] \in Months
    BY <1>2 DEF TypeOK
  <2>2. lock[period[q]] = q /\ pending[q] = Plus(usage[period[q]], q)
    BY <2>1 DEF RowHasOneWriter
  <2>3. lock'[period[q]] = q /\ pending'[q] = pending[q] /\ usage'[period[q]] = usage[period[q]]
    BY <2>1, <2>2 DEF Release, TypeOK
  <2> QED BY <2>1, <2>2, <2>3, PlusStays
<1> QED BY <1>1, <1>2 DEF RowHasOneWriter

\* A commit moves the counters and the rows of its month alike.
LEMMA CommitKeeps ==
    ASSUME IInv, NEW t \in Txs, CommitUsage(t),
           \A q \in Txs \ {t} : pc'[q] = pc[q],
           pc'[t] \notin {"update", "flushed"}
    PROVE  RowHasOneWriter' /\ CountersMatchRows'
<1> USE DEF IInv, TypeInv
<1>1. pc[t] = "flushed" /\ period[t] \in Months /\ Release(t) /\ UNCHANGED <<period, owed>>
  BY DEF CommitUsage, TypeOK
<1>2. lock[period[t]] = t /\ pending[t] = Plus(usage[period[t]], t)
  BY <1>1 DEF RowHasOneWriter
<1>3. usage' = [usage EXCEPT ![period[t]] = pending[t]]
  BY DEF CommitUsage
<1>4. \A m \in Months : usage'[m] = usage[m] \/ lock[m] = t
  BY <1>1, <1>2, <1>3 DEF TypeOK
<1>5. RowHasOneWriter'
  BY <1>1, <1>4, ReleaseKeeps
<1>6. audit' = [audit EXCEPT ![period[t]] = Plus(audit[period[t]], t)]
  BY DEF CommitUsage
<1>7. audit = usage
  BY DEF CountersMatchRows
<1>8. usage' = audit'
  BY <1>2, <1>3, <1>6, <1>7
<1> QED BY <1>5, <1>8 DEF CountersMatchRows

\* One step per action.
LEMMA InvStep == IInv /\ [Next]_vars => RowHasOneWriter' /\ CountersMatchRows'
<1> SUFFICES ASSUME IInv, [Next]_vars PROVE RowHasOneWriter' /\ CountersMatchRows'
  OBVIOUS
<1> USE DEF IInv, TypeInv
<1>1. ASSUME NEW t \in Txs, GetUsage(t) PROVE RowHasOneWriter' /\ CountersMatchRows'
  <2>1. pc[t] = "recording" /\ UNCHANGED <<usage, audit, lock, pending, owed>>
    BY <1>1 DEF GetUsage
  <2>2. pc'[t] # "flushed" /\ \A q \in Txs \ {t} : pc'[q] = pc[q] /\ period'[q] = period[q]
    BY <1>1 DEF GetUsage, Goto, TypeOK
  <2>3. ASSUME NEW m \in Months, lock'[m] # "free"
        PROVE  period'[lock'[m]] = m /\ pc'[lock'[m]] \in {"update", "flushed"}
    BY <2>1, <2>2, <2>3 DEF RowHasOneWriter, TypeOK
  <2>4. ASSUME NEW q \in Txs, pc'[q] = "flushed"
        PROVE  (lock[period[q]] = q /\ pending[q] = Plus(usage[period[q]], q))'
    BY <2>1, <2>2, <2>4, PlusStays DEF RowHasOneWriter
  <2> QED BY <2>1, <2>3, <2>4 DEF RowHasOneWriter, CountersMatchRows
<1>2. ASSUME NEW t \in Txs, InsertUsage(t) PROVE RowHasOneWriter' /\ CountersMatchRows'
  <2>1. /\ pc[t] = "insert" /\ lock[period[t]] = "free"
        /\ lock' = [lock EXCEPT ![period[t]] = t] /\ pc' = [pc EXCEPT ![t] = "update"]
        /\ UNCHANGED <<usage, audit, pending, owed, period>>
    BY <1>2 DEF InsertUsage, Goto
  <2>2. ASSUME NEW m \in Months, lock'[m] # "free"
        PROVE  period'[lock'[m]] = m /\ pc'[lock'[m]] \in {"update", "flushed"}
    <3>1. CASE m = period[t]
      BY <2>1, <3>1 DEF TypeOK
    <3>2. CASE m # period[t]
      BY <2>1, <2>2, <3>2 DEF RowHasOneWriter, TypeOK
    <3> QED BY <3>1, <3>2
  <2>3. ASSUME NEW q \in Txs, pc'[q] = "flushed"
        PROVE  (lock[period[q]] = q /\ pending[q] = Plus(usage[period[q]], q))'
    <3>1. q # t /\ pc[q] = "flushed"
      BY <2>1, <2>3 DEF TypeOK
    <3>2. period[q] # period[t]
      BY <2>1, <3>1 DEF RowHasOneWriter, Txs
    <3> QED BY <2>1, <3>1, <3>2, PlusStays DEF RowHasOneWriter, TypeOK
  <2> QED BY <2>1, <2>2, <2>3 DEF RowHasOneWriter, CountersMatchRows
<1>3. ASSUME NEW t \in Txs, InsertConflict(t) PROVE RowHasOneWriter' /\ CountersMatchRows'
  BY <1>3, Untouched DEF InsertConflict, Goto, CountersMatchRows, TypeOK
<1>4. ASSUME NEW t \in Txs, UpdateUsage(t) PROVE RowHasOneWriter' /\ CountersMatchRows'
  <2>1. /\ pc[t] = "update" /\ lock[period[t]] \in {"free", t}
        /\ lock' = [lock EXCEPT ![period[t]] = t] /\ pc' = [pc EXCEPT ![t] = "flushed"]
        /\ pending' = [pending EXCEPT ![t] = Plus(usage[period[t]], t)]
        /\ UNCHANGED <<usage, audit, owed, period>>
    BY <1>4 DEF UpdateUsage, Goto
  <2>2. ASSUME NEW m \in Months, lock'[m] # "free"
        PROVE  period'[lock'[m]] = m /\ pc'[lock'[m]] \in {"update", "flushed"}
    <3>1. CASE m = period[t]
      BY <2>1, <3>1 DEF TypeOK
    <3>2. CASE m # period[t]
      BY <2>1, <2>2, <3>2 DEF RowHasOneWriter, TypeOK
    <3> QED BY <3>1, <3>2
  <2>3. ASSUME NEW q \in Txs, pc'[q] = "flushed"
        PROVE  (lock[period[q]] = q /\ pending[q] = Plus(usage[period[q]], q))'
    <3>1. CASE q = t
      BY <2>1, <3>1, PlusStays DEF TypeOK
    <3>2. CASE q # t
      <4>1. pc[q] = "flushed" /\ period[q] # period[t]
        BY <2>1, <2>3, <3>2 DEF RowHasOneWriter, TypeOK, Txs
      <4> QED BY <2>1, <3>2, <4>1, PlusStays DEF RowHasOneWriter, TypeOK
    <3> QED BY <3>1, <3>2
  <2> QED BY <2>1, <2>2, <2>3 DEF RowHasOneWriter, CountersMatchRows
<1>5. ASSUME NEW t \in Txs, Interrupted(t) PROVE RowHasOneWriter' /\ CountersMatchRows'
  <2>1. RowHasOneWriter'
    BY <1>5, ReleaseKeeps DEF Interrupted, Goto, TypeOK
  <2> QED BY <1>5, <2>1 DEF Interrupted, CountersMatchRows
<1>6. ASSUME NEW u \in Uploaders, Admit(u) \/ Retry(u) PROVE RowHasOneWriter' /\ CountersMatchRows'
  BY <1>6, Untouched DEF Admit, Retry, Goto, CountersMatchRows, TypeOK, Txs
<1>7. ASSUME NEW u \in Uploaders, CommitUpload(u) PROVE RowHasOneWriter' /\ CountersMatchRows'
  BY <1>7, CommitKeeps DEF CommitUpload, Goto, TypeOK, Txs
<1>8. ASSUME NEW p \in Reports, StartReport(p) PROVE RowHasOneWriter' /\ CountersMatchRows'
  BY <1>8, Untouched DEF StartReport, Goto, CountersMatchRows, TypeOK, Txs
<1>9. ASSUME NEW p \in Reports, CommitReport(p) PROVE RowHasOneWriter' /\ CountersMatchRows'
  BY <1>9, CommitKeeps DEF CommitReport, Goto, TypeOK, Txs
<1>10. ASSUME NEW r \in Runs, SkipPaid(r) PROVE RowHasOneWriter' /\ CountersMatchRows'
  BY <1>10, Untouched DEF SkipPaid, CountersMatchRows
<1>11. ASSUME NEW r \in Runs, StartPaid(r) PROVE RowHasOneWriter' /\ CountersMatchRows'
  BY <1>11, Untouched DEF StartPaid, AtPaidStep, Goto, CountersMatchRows, TypeOK, Txs
<1>12. ASSUME NEW r \in Runs, NEW cost \in 0 .. MaxCost, CallProvider(r, cost)
       PROVE  RowHasOneWriter' /\ CountersMatchRows'
  <2>1. /\ pc[r] = "calling" /\ pc' = [pc EXCEPT ![r] = "recording"]
        /\ owed' = [owed EXCEPT ![r] = cost]
        /\ UNCHANGED <<usage, audit, lock, pending, period>>
    BY <1>12 DEF CallProvider, Goto
  <2>2. ASSUME NEW m \in Months, lock'[m] # "free"
        PROVE  period'[lock'[m]] = m /\ pc'[lock'[m]] \in {"update", "flushed"}
    BY <2>1, <2>2 DEF RowHasOneWriter, TypeOK
  <2>3. ASSUME NEW q \in Txs, pc'[q] = "flushed"
        PROVE  (lock[period[q]] = q /\ pending[q] = Plus(usage[period[q]], q))'
    <3>1. q # r /\ pc[q] = "flushed" /\ (q \in Runs => owed'[q] = owed[q])
      BY <2>1, <2>3 DEF TypeOK, Txs
    <3> QED BY <2>1, <3>1, PlusStays DEF RowHasOneWriter
  <2> QED BY <2>1, <2>2, <2>3 DEF RowHasOneWriter, CountersMatchRows
<1>13. ASSUME NEW r \in Runs, CommitPaid(r) PROVE RowHasOneWriter' /\ CountersMatchRows'
  BY <1>13, CommitKeeps DEF CommitPaid, Goto, TypeOK, Txs
<1>14. CASE DeleteAnalysis
  BY <1>14, Untouched DEF DeleteAnalysis, CountersMatchRows
<1>15. CASE NextMonth
  BY <1>15, Untouched DEF NextMonth, CountersMatchRows
<1>16. CASE UNCHANGED vars
  BY <1>16, Untouched DEF vars, CountersMatchRows
<1> QED
  BY <1>1, <1>2, <1>3, <1>4, <1>5, <1>6, <1>7, <1>8, <1>9, <1>10, <1>11, <1>12, <1>13,
     <1>14, <1>15, <1>16 DEF Next, Take, Go

LEMMA InvInit == Init => RowHasOneWriter /\ CountersMatchRows
BY DEF Init, RowHasOneWriter, CountersMatchRows, Txs

LEMMA Inductive == Spec => []IInv
<1>1. Init => IInv
  BY InvInit, TypeInit DEF IInv
<1>2. IInv /\ [Next]_vars => IInv'
  BY InvStep, TypeStep DEF IInv
<1> QED BY <1>1, <1>2, PTL DEF Spec

\* Whoever has written a usage row holds it, alone, until the transaction ends.
THEOREM RowsHaveOneWriter == Spec => []RowHasOneWriter
<1>1. IInv => RowHasOneWriter
  BY DEF IInv
<1> QED BY <1>1, Inductive, PTL

\* "Concurrent requests never lose updates": counters and rows agree however many
\* requests and runs count at once, create the row or are rolled back.
THEOREM CountersAlwaysMatchRows == Spec => []CountersMatchRows
<1>1. IInv => CountersMatchRows
  BY DEF IInv
<1> QED BY <1>1, Inductive, PTL

-----------------------------------------------------------------------------
(* How far the limits are exceeded *)


\* A month that has not come yet has no counters, and nobody counts in it.
Unused ==
    /\ \A m \in Months : m > month => usage[m] = Zero
    /\ \A t \in Txs : period[t] <= month

\* The month a transaction will count in, as far as that is known now.
CountsIn(t, m) ==
    \/ pc[t] \in {"calling", "recording"} /\ m = month
    \/ pc[t] \in Open \ {"recording"} /\ m = period[t]

Admitted == {u \in Uploaders : pc[u] \in Open}
AdmittedIn(m) == {u \in Uploaders : CountsIn(u, m)}

\* Calls under way, and searches a run has still ahead.
CallsIn(m) == {r \in Runs : CountsIn(r, m)}
SearchAhead(r) ==
    /\ pc[r] # "failed"
    /\ \/ step[r] = 1
       \/ step[r] = 2 /\ pc[r] \notin {"calling"} \cup Open
SearchesAhead == {r \in Runs : SearchAhead(r)}

U == Cardinality(Uploaders)
R == Cardinality(Runs)

StorageInv == StorageLimit > 0 => held + Cardinality(Admitted) <= StorageLimit + U - 1
AnalysisInv ==
    AnalysisLimit > 0 => \A m \in Months :
        usage[m].analyses + Cardinality(AdmittedIn(m)) <= AnalysisLimit + U - 1
BudgetInv ==
    Budget > 0 => \A m \in Months :
        usage[m].cost + MaxCost * (Cardinality(CallsIn(m)) + Cardinality(SearchesAhead))
            <= Budget - 1 + MaxCost * (2 * R)

BoundsInv == IInv /\ Unused /\ StorageInv /\ AnalysisInv /\ BudgetInv

-----------------------------------------------------------------------------
(* Arithmetic and cardinalities *)

LEMMA TimesGrows ==
    ASSUME NEW c \in Nat, NEW i \in Nat, NEW j \in Nat, i <= j
    PROVE  c * i <= c * j /\ c * i \in Nat /\ c * j \in Nat
<1>1. PICK d \in Nat : j = i + d  BY j - i \in Nat
<1>2. c * j = c * i + c * d  BY <1>1
<1>3. c * d \in Nat /\ c * i \in Nat  OBVIOUS
<1>4. QED  BY <1>2, <1>3

LEMMA TimesSteps == ASSUME NEW c \in Nat, NEW i \in Nat PROVE c * (i + 1) = c * i + c
  OBVIOUS

LEMMA Cardinals ==
    /\ U \in Nat /\ R \in Nat
    /\ \A T \in SUBSET Uploaders :
          IsFiniteSet(T) /\ Cardinality(T) \in Nat /\ Cardinality(T) <= U
    /\ \A T \in SUBSET Runs :
          IsFiniteSet(T) /\ Cardinality(T) \in Nat /\ Cardinality(T) <= R
<1>1. IsFiniteSet(Uploaders) /\ IsFiniteSet(Runs)  OBVIOUS
<1>2. U \in Nat /\ R \in Nat  BY <1>1, FS_CardinalityType DEF U, R
<1>3. \A T \in SUBSET Uploaders : IsFiniteSet(T) /\ Cardinality(T) <= U
  BY <1>1, FS_Subset DEF U
<1>4. \A T \in SUBSET Runs : IsFiniteSet(T) /\ Cardinality(T) <= R
  BY <1>1, FS_Subset DEF R
<1>5. \A T : IsFiniteSet(T) => Cardinality(T) \in Nat  BY FS_CardinalityType
<1>6. QED  BY <1>2, <1>3, <1>4, <1>5

\* The two sets of runs, before and after.
LEMMA ExposureFits ==
    ASSUME NEW A \in SUBSET Runs, NEW B \in SUBSET Runs, NEW cost \in Nat,
           Budget > 0, cost <= Budget - 1
    PROVE  cost + MaxCost * (Cardinality(A) + Cardinality(B)) <= Budget - 1 + MaxCost * (2 * R)
<1> DEFINE n == Cardinality(A) + Cardinality(B)
<1>1. n \in Nat /\ 2 * R \in Nat /\ n <= 2 * R  BY Cardinals
<1> HIDE DEF n
<1>2. MaxCost * n <= MaxCost * (2 * R) /\ MaxCost * n \in Nat /\ MaxCost * (2 * R) \in Nat
  BY <1>1, TimesGrows
<1> DEFINE x == MaxCost * n
           y == MaxCost * (2 * R)
<1>3. x \in Nat /\ y \in Nat /\ x <= y  BY <1>2
<1> HIDE DEF x, y
<1>4. cost + x <= Budget - 1 + y  BY <1>3
<1>5. QED  BY <1>4 DEF x, y, n

-----------------------------------------------------------------------------
(* What the steps do to counters and months *)

LEMMA CommitCounts ==
    ASSUME IInv, NEW t \in Txs, CommitUsage(t)
    PROVE  /\ pc[t] = "flushed" /\ period[t] \in Months
           /\ usage' = [usage EXCEPT ![period[t]] = Plus(usage[period[t]], t)]
           /\ UNCHANGED <<month, period, owed>>
<1>1. pc[t] = "flushed" /\ UNCHANGED <<month, period, owed>>
      /\ usage' = [usage EXCEPT ![period[t]] = pending[t]]
  BY DEF CommitUsage
<1>2. pending[t] = Plus(usage[period[t]], t)  BY <1>1 DEF IInv, RowHasOneWriter
<1>3. period[t] \in Months  BY DEF IInv, TypeInv, TypeOK
<1>4. QED  BY <1>1, <1>2, <1>3

LEMMA PlusCounts ==
    ASSUME NEW c \in Counters, NEW t \in Txs
    PROVE  /\ t \in Uploaders => Plus(c, t).analyses = c.analyses + 1 /\ Plus(c, t).cost = c.cost
           /\ t \notin Uploaders => Plus(c, t).analyses = c.analyses
           /\ t \in Runs => Plus(c, t).cost = c.cost + owed[t]
           /\ t \notin Runs => Plus(c, t).cost = c.cost
<1>1. CASE t \in Uploaders
  <2>1. Plus(c, t) = [c EXCEPT !.analyses = @ + 1] /\ t \notin Runs  BY <1>1 DEF Plus
  <2>2. QED  BY <1>1, <2>1 DEF Counters
<1>2. CASE t \in Reports
  <2>1. Plus(c, t) = [c EXCEPT !.reports = @ + 1] /\ t \notin Runs /\ t \notin Uploaders
    BY <1>2 DEF Plus
  <2>2. QED  BY <1>2, <2>1 DEF Counters
<1>3. CASE t \in Runs
  <2>1. Plus(c, t) = [c EXCEPT !.calls = @ + 1, !.cost = @ + owed[t]] /\ t \notin Uploaders
    BY <1>3 DEF Plus
  <2>2. QED  BY <1>3, <2>1 DEF Counters
<1>4. QED  BY <1>1, <1>2, <1>3 DEF Txs

\* What a commit does to the counters that are limited.
LEMMA CommitLimited ==
    ASSUME IInv, NEW t \in Txs, CommitUsage(t), NEW m \in Months
    PROVE  /\ usage'[m].analyses = IF t \in Uploaders /\ m = period[t]
                                   THEN usage[m].analyses + 1 ELSE usage[m].analyses
           /\ usage'[m].cost = IF t \in Runs /\ m = period[t]
                               THEN usage[m].cost + owed[t] ELSE usage[m].cost
<1>1. usage[m] \in Counters /\ usage \in [Months -> Counters]
  BY DEF IInv, TypeInv, TypeOK
<1>2. usage'[m] = IF m = period[t] THEN Plus(usage[m], t) ELSE usage[m]
  BY <1>1, CommitCounts
<1>3. QED  BY <1>1, <1>2, PlusCounts

\* The steps that commit nothing and change no month.
Small ==
    \/ \E t \in Txs : GetUsage(t) \/ Take(t) \/ Interrupted(t)
    \/ \E r \in Runs : SkipPaid(r) \/ StartPaid(r) \/ \E cost \in 0 .. MaxCost : CallProvider(r, cost)
    \/ \E u \in Uploaders : Admit(u) \/ Retry(u)
    \/ \E p \in Reports : StartReport(p)
    \/ DeleteAnalysis

LEMMA KindsOfSteps ==
    ASSUME Next
    PROVE  \/ Small \/ NextMonth
           \/ \E u \in Uploaders : CommitUpload(u)
           \/ \E p \in Reports : CommitReport(p)
           \/ \E r \in Runs : CommitPaid(r)
  BY DEF Next, Go, Small

LEMMA SmallKeeps == ASSUME IInv, Small PROVE usage' = usage /\ month' = month
  BY DEF Small, Take, GetUsage, InsertUsage, InsertConflict, UpdateUsage, Interrupted,
         SkipPaid, StartPaid, CallProvider, Admit, Retry, StartReport, DeleteAnalysis

LEMMA UnusedStep == ASSUME IInv, Unused, Next PROVE Unused'
<1>0. TypeOK  BY DEF IInv, TypeInv
<1>1. ASSUME NEW t \in Txs, CommitUsage(t) PROVE Unused'
  <2>1. period[t] <= month /\ month' = month /\ period' = period
    BY <1>1, CommitCounts DEF Unused
  <2>2. \A m \in Months : m > month => usage'[m] = usage[m]
    <3>1. \A m \in Months : m > month => m # period[t]  BY <1>0, <2>1 DEF TypeOK, Months
    <3>2. QED  BY <1>0, <1>1, <3>1, CommitCounts DEF TypeOK
  <2>3. QED  BY <2>1, <2>2 DEF Unused
<1>2. CASE Small
  <2>1. usage' = usage /\ month' = month  BY <1>2, SmallKeeps
  <2>2. period' = period \/ \E t \in Txs : period' = [period EXCEPT ![t] = month]
    BY <1>2
    DEF Small, Take, GetUsage, InsertUsage, InsertConflict, UpdateUsage, Interrupted,
        SkipPaid, StartPaid, CallProvider, Admit, Retry, StartReport, DeleteAnalysis
  <2>3. \A t \in Txs : period'[t] = period[t] \/ period'[t] = month
    BY <1>0, <2>2 DEF TypeOK
  <2>4. month <= month  BY <1>0 DEF TypeOK, Months
  <2>5. QED  BY <2>1, <2>3, <2>4 DEF Unused
<1>3. CASE NextMonth
  BY <1>0, <1>3 DEF NextMonth, Unused, TypeOK, Months
<1>4. QED
  BY <1>1, <1>2, <1>3, KindsOfSteps DEF CommitUpload, CommitReport, CommitPaid, Txs

-----------------------------------------------------------------------------
(* Uploads *)

\* A step that admits and commits no upload only takes uploads away.
LEMMA FewerAdmitted ==
    ASSUME IInv, StorageInv, AnalysisInv,
           \A u \in Uploaders : pc'[u] \in Open => pc[u] \in Open,
           \A u \in Uploaders, m \in Months : CountsIn(u, m)' => CountsIn(u, m),
           \A m \in Months : usage'[m].analyses = usage[m].analyses,
           held' <= held, held' \in Nat
    PROVE  StorageInv' /\ AnalysisInv'
<1>0. TypeOK /\ \A m \in Months : usage[m].analyses \in Nat
  BY DEF IInv, TypeInv, TypeOK, Counters
<1>1. StorageInv'
  <2>1. Admitted' \in SUBSET Admitted /\ Admitted \in SUBSET Uploaders  BY DEF Admitted
  <2>2. /\ Cardinality(Admitted') <= Cardinality(Admitted)
        /\ Cardinality(Admitted') \in Nat /\ Cardinality(Admitted) \in Nat /\ U \in Nat
    BY <2>1, Cardinals, FS_Subset
  <2>3. QED  BY <1>0, <2>2 DEF StorageInv, TypeOK, U
<1>2. AnalysisInv'
  <2> SUFFICES ASSUME AnalysisLimit > 0, NEW m \in Months
               PROVE  usage'[m].analyses + Cardinality(AdmittedIn(m)') <= AnalysisLimit + U - 1
    BY DEF AnalysisInv, U
  <2>1. AdmittedIn(m)' \in SUBSET AdmittedIn(m) /\ AdmittedIn(m) \in SUBSET Uploaders
    BY DEF AdmittedIn
  <2>2. /\ Cardinality(AdmittedIn(m)') <= Cardinality(AdmittedIn(m))
        /\ Cardinality(AdmittedIn(m)') \in Nat /\ Cardinality(AdmittedIn(m)) \in Nat /\ U \in Nat
    BY <2>1, Cardinals, FS_Subset
  <2>3. usage[m].analyses + Cardinality(AdmittedIn(m)) <= AnalysisLimit + U - 1
    BY DEF AnalysisInv
  <2>4. QED  BY <1>0, <2>2, <2>3
<1>3. QED  BY <1>1, <1>2

LEMMA AdmitBounded ==
    ASSUME IInv, Unused, StorageInv, AnalysisInv, NEW u \in Uploaders, Admit(u)
    PROVE  StorageInv' /\ AnalysisInv'
<1>0. TypeOK /\ \A m \in Months : usage[m].analyses \in Nat
  BY DEF IInv, TypeInv, TypeOK, Counters
<1>1. StorageInv'
  <2> SUFFICES ASSUME StorageLimit > 0
               PROVE  held' + Cardinality(Admitted') <= StorageLimit + U - 1
    BY DEF StorageInv, U
  <2>1. held' = held /\ held + 1 <= StorageLimit /\ held \in Nat
    BY <1>0 DEF Admit, CanCreate, TypeOK
  <2>2. Admitted' \in SUBSET Uploaders  BY DEF Admitted
  <2>3. Cardinality(Admitted') \in Nat /\ Cardinality(Admitted') <= U /\ U \in Nat
    BY <2>2, Cardinals
  <2>4. QED  BY <2>1, <2>3
<1>2. AnalysisInv'
  <2> SUFFICES ASSUME AnalysisLimit > 0, NEW m \in Months
               PROVE  usage'[m].analyses + Cardinality(AdmittedIn(m)') <= AnalysisLimit + U - 1
    BY DEF AnalysisInv, U
  <2>1. usage' = usage /\ month' = month /\ period' = period /\ pc' = [pc EXCEPT ![u] = "recording"]
    BY DEF Admit, Goto
  <2>2. AdmittedIn(m)' \in SUBSET Uploaders /\ AdmittedIn(m) \in SUBSET Uploaders
    BY DEF AdmittedIn
  <2>3. CASE m = month
    <3>1. usage[m].analyses < AnalysisLimit  BY <2>3 DEF Admit, CanCreate
    <3>2. Cardinality(AdmittedIn(m)') \in Nat /\ Cardinality(AdmittedIn(m)') <= U /\ U \in Nat
      BY <2>2, Cardinals
    <3>3. QED  BY <1>0, <2>1, <3>1, <3>2
  <2>4. CASE m # month
    <3>1. AdmittedIn(m)' \in SUBSET AdmittedIn(m)
      BY <1>0, <2>1, <2>4 DEF AdmittedIn, CountsIn, TypeOK, Txs
    <3>2. Cardinality(AdmittedIn(m)') <= Cardinality(AdmittedIn(m)) /\ U \in Nat
          /\ Cardinality(AdmittedIn(m)') \in Nat /\ Cardinality(AdmittedIn(m)) \in Nat
      BY <2>2, <3>1, Cardinals, FS_Subset
    <3>3. usage[m].analyses + Cardinality(AdmittedIn(m)) <= AnalysisLimit + U - 1
      BY DEF AnalysisInv
    <3>4. QED  BY <1>0, <2>1, <3>2, <3>3
  <2>5. QED  BY <2>3, <2>4
<1>3. QED  BY <1>1, <1>2

LEMMA CommitUploadBounded ==
    ASSUME IInv, Unused, StorageInv, AnalysisInv, NEW u \in Uploaders, CommitUpload(u)
    PROVE  StorageInv' /\ AnalysisInv'
<1>0. TypeOK /\ u \in Txs /\ \A m \in Months : usage[m].analyses \in Nat
  BY DEF IInv, TypeInv, TypeOK, Counters, Txs
<1>1. /\ CommitUsage(u) /\ held' = held + 1 /\ pc' = [pc EXCEPT ![u] = "idle"]
      /\ pc[u] = "flushed" /\ period' = period /\ month' = month
  BY <1>0, CommitCounts DEF CommitUpload, Goto
<1>2. StorageInv'
  <2>1. u \in Admitted /\ Admitted' = Admitted \ {u} /\ Admitted \in SUBSET Uploaders
    BY <1>0, <1>1 DEF Admitted, TypeOK, Open, Txs
  <2>2. /\ Cardinality(Admitted') = Cardinality(Admitted) - 1
        /\ Cardinality(Admitted) \in Nat /\ U \in Nat
    BY <2>1, Cardinals, FS_RemoveElement
  <2>3. QED  BY <1>0, <1>1, <2>2 DEF StorageInv, TypeOK, U
<1>3. AnalysisInv'
  <2> SUFFICES ASSUME AnalysisLimit > 0, NEW m \in Months
               PROVE  usage'[m].analyses + Cardinality(AdmittedIn(m)') <= AnalysisLimit + U - 1
    BY DEF AnalysisInv, U
  <2>1. AdmittedIn(m) \in SUBSET Uploaders /\ AdmittedIn(m)' = AdmittedIn(m) \ {u}
    BY <1>0, <1>1 DEF AdmittedIn, CountsIn, TypeOK, Open, Txs
  <2>2. u \in AdmittedIn(m) <=> m = period[u]
    BY <1>0, <1>1 DEF AdmittedIn, CountsIn, Open
  <2>3. /\ Cardinality(AdmittedIn(m)') = IF m = period[u] THEN Cardinality(AdmittedIn(m)) - 1
                                        ELSE Cardinality(AdmittedIn(m))
        /\ Cardinality(AdmittedIn(m)) \in Nat /\ U \in Nat
    BY <2>1, <2>2, Cardinals, FS_RemoveElement
  <2>4. usage'[m].analyses = IF m = period[u] THEN usage[m].analyses + 1 ELSE usage[m].analyses
    BY <1>0, <1>1, CommitLimited
  <2>5. usage[m].analyses + Cardinality(AdmittedIn(m)) <= AnalysisLimit + U - 1
    BY DEF AnalysisInv
  <2>6. QED  BY <1>0, <2>3, <2>4, <2>5
<1>4. QED  BY <1>2, <1>3

LEMMA NextMonthBounded ==
    ASSUME IInv, Unused, StorageInv, AnalysisInv, NextMonth
    PROVE  StorageInv' /\ AnalysisInv'
<1>0. TypeOK /\ \A m \in Months : usage[m].analyses \in Nat
  BY DEF IInv, TypeInv, TypeOK, Counters
<1>1. month' = month + 1 /\ UNCHANGED <<usage, pc, period, held>>  BY DEF NextMonth
<1>2. StorageInv'  BY <1>1 DEF StorageInv, Admitted
<1>3. AnalysisInv'
  <2> SUFFICES ASSUME AnalysisLimit > 0, NEW m \in Months
               PROVE  usage'[m].analyses + Cardinality(AdmittedIn(m)') <= AnalysisLimit + U - 1
    BY DEF AnalysisInv, U
  <2>1. AdmittedIn(m)' \in SUBSET Uploaders /\ AdmittedIn(m) \in SUBSET Uploaders
    BY DEF AdmittedIn
  <2>2. /\ Cardinality(AdmittedIn(m)') \in Nat /\ Cardinality(AdmittedIn(m)') <= U
        /\ Cardinality(AdmittedIn(m)) \in Nat /\ U \in Nat
    BY <2>1, Cardinals
  <2>3. CASE m = month'
    <3>1. m > month  BY <1>0, <1>1, <2>3 DEF TypeOK, Months
    <3>2. usage[m].analyses = 0  BY <3>1 DEF Unused, Zero
    <3>3. QED  BY <1>1, <2>2, <3>2
  <2>4. CASE m # month'
    <3>1. AdmittedIn(m)' \in SUBSET AdmittedIn(m)
      BY <1>1, <2>4 DEF AdmittedIn, CountsIn
    <3>2. Cardinality(AdmittedIn(m)') <= Cardinality(AdmittedIn(m))
      BY <2>1, <3>1, Cardinals, FS_Subset
    <3>3. usage[m].analyses + Cardinality(AdmittedIn(m)) <= AnalysisLimit + U - 1
      BY DEF AnalysisInv
    <3>4. QED  BY <1>0, <1>1, <2>2, <3>2, <3>3
  <2>5. QED  BY <2>3, <2>4
<1>4. QED  BY <1>2, <1>3

LEMMA SmallUploadSteps ==
    ASSUME IInv, Unused, StorageInv, AnalysisInv, Small
    PROVE  StorageInv' /\ AnalysisInv'
<1>0. TypeOK /\ held \in Nat  BY DEF IInv, TypeInv, TypeOK
<1>1. CASE \E u \in Uploaders : Admit(u)  BY <1>1, AdmitBounded
<1> DEFINE Fewer == /\ \A u \in Uploaders : pc'[u] \in Open => pc[u] \in Open
                    /\ \A u \in Uploaders, m \in Months : CountsIn(u, m)' => CountsIn(u, m)
<1>2. CASE Fewer /\ held' <= held /\ held' \in Nat
  BY <1>2, SmallKeeps, FewerAdmitted
<1>3. ASSUME NEW t \in Txs, GetUsage(t) PROVE Fewer /\ held' = held
  BY <1>0, <1>3 DEF GetUsage, Goto, CountsIn, Open, TypeOK, Txs
<1>4. ASSUME NEW t \in Txs, Take(t) \/ Interrupted(t) PROVE Fewer /\ held' = held
  <2>1. /\ UNCHANGED <<month, period, held>> /\ pc[t] \in Open
        /\ \/ pc' = [pc EXCEPT ![t] = "failed"]
           \/ /\ pc[t] \in {"insert", "update"}
              /\ pc' = [pc EXCEPT ![t] = "update"] \/ pc' = [pc EXCEPT ![t] = "flushed"]
    BY <1>4 DEF Take, InsertUsage, InsertConflict, UpdateUsage, Interrupted, Goto, Open
  <2>2. QED  BY <1>0, <2>1 DEF CountsIn, Open, TypeOK, Txs
<1>5. ASSUME NEW r \in Runs,
             SkipPaid(r) \/ StartPaid(r) \/ \E cost \in 0 .. MaxCost : CallProvider(r, cost)
      PROVE  Fewer /\ held' = held
  <2>1. /\ UNCHANGED <<month, period, held>>
        /\ pc' = pc \/ \E label : pc' = [pc EXCEPT ![r] = label]
    BY <1>5 DEF SkipPaid, StartPaid, CallProvider, Goto
  <2>2. \A u \in Uploaders : u # r /\ u \in Txs  BY DEF Txs
  <2>3. \A u \in Uploaders : pc'[u] = pc[u]
    <3>1. \A label : \A u \in Uploaders : [pc EXCEPT ![r] = label][u] = pc[u]
      BY <1>0, <2>2 DEF TypeOK
    <3>2. QED  BY <2>1, <3>1
  <2>4. QED  BY <2>1, <2>3 DEF CountsIn
<1>6. ASSUME NEW u \in Uploaders, Retry(u) PROVE Fewer /\ held' = held
  BY <1>0, <1>6 DEF Retry, Goto, CountsIn, Open, TypeOK, Txs
<1>7. ASSUME NEW p \in Reports, StartReport(p) PROVE Fewer /\ held' = held
  <2>1. \A u \in Uploaders : pc'[u] = pc[u]  BY <1>0, <1>7 DEF StartReport, Goto, TypeOK
  <2>2. QED  BY <1>7, <2>1 DEF StartReport, CountsIn
<1>8. CASE DeleteAnalysis
  <2>1. Fewer  BY <1>8 DEF DeleteAnalysis, CountsIn
  <2>2. held' <= held /\ held' \in Nat  BY <1>0, <1>8 DEF DeleteAnalysis
  <2>3. QED  BY <1>2, <2>1, <2>2
<1>9. held <= held  BY <1>0
<1> HIDE DEF Fewer
<1>10. QED  BY <1>0, <1>1, <1>2, <1>3, <1>4, <1>5, <1>6, <1>7, <1>8, <1>9 DEF Small

LEMMA UploadsStep ==
    ASSUME IInv, Unused, StorageInv, AnalysisInv, Next
    PROVE  StorageInv' /\ AnalysisInv'
<1>0. TypeOK /\ held \in Nat /\ held <= held  BY DEF IInv, TypeInv, TypeOK
<1>1. ASSUME NEW t \in Txs \ Uploaders, NEW label \in {"between", "done"}, CommitUsage(t),
             pc' = [pc EXCEPT ![t] = label], held' = held
      PROVE  StorageInv' /\ AnalysisInv'
  <2>1. \A m \in Months : usage'[m].analyses = usage[m].analyses  BY <1>1, CommitLimited
  <2>2. \A u \in Uploaders : pc'[u] = pc[u]  BY <1>0, <1>1 DEF TypeOK
  <2>3. month' = month /\ period' = period  BY <1>1, CommitCounts
  <2>4. \A u \in Uploaders, m \in Months : CountsIn(u, m)' => CountsIn(u, m)
    BY <2>2, <2>3 DEF CountsIn
  <2>5. QED  BY <1>0, <1>1, <2>1, <2>2, <2>4, FewerAdmitted
<1>2. ASSUME NEW p \in Reports, CommitReport(p) PROVE StorageInv' /\ AnalysisInv'
  BY <1>1, <1>2 DEF CommitReport, Goto, Txs
<1>3. ASSUME NEW r \in Runs, CommitPaid(r) PROVE StorageInv' /\ AnalysisInv'
  BY <1>1, <1>3 DEF CommitPaid, Goto, Txs
<1>4. QED
  BY <1>2, <1>3, KindsOfSteps, SmallUploadSteps, CommitUploadBounded, NextMonthBounded

-----------------------------------------------------------------------------
(* Paid calls *)

Exposed(m) == Cardinality(CallsIn(m)) + Cardinality(SearchesAhead)

LEMMA ExposedType ==
    \A m \in Months : /\ CallsIn(m) \in SUBSET Runs /\ SearchesAhead \in SUBSET Runs
                      /\ IsFiniteSet(CallsIn(m)) /\ IsFiniteSet(SearchesAhead)
                      /\ Cardinality(CallsIn(m)) \in Nat /\ Cardinality(SearchesAhead) \in Nat
                      /\ Exposed(m) \in Nat
<1> SUFFICES ASSUME NEW m \in Months
             PROVE  /\ CallsIn(m) \in SUBSET Runs /\ SearchesAhead \in SUBSET Runs
                    /\ IsFiniteSet(CallsIn(m)) /\ IsFiniteSet(SearchesAhead)
                    /\ Cardinality(CallsIn(m)) \in Nat /\ Cardinality(SearchesAhead) \in Nat
                    /\ Exposed(m) \in Nat
  OBVIOUS
<1>1. CallsIn(m) \in SUBSET Runs /\ SearchesAhead \in SUBSET Runs
  BY DEF CallsIn, SearchesAhead
<1>2. /\ IsFiniteSet(CallsIn(m)) /\ IsFiniteSet(SearchesAhead)
      /\ Cardinality(CallsIn(m)) \in Nat /\ Cardinality(SearchesAhead) \in Nat
  BY <1>1, Cardinals
<1>3. Exposed(m) \in Nat  BY <1>2 DEF Exposed
<1>4. QED  BY <1>1, <1>2, <1>3

\* One month at a time.
InBudget(m) == usage[m].cost + MaxCost * Exposed(m) <= Budget - 1 + MaxCost * (2 * R)

LEMMA Products ==
    ASSUME NEW c \in Nat, NEW m \in Months, NEW n \in Nat, NEW b \in Nat,
           c + MaxCost * n <= b, NEW k \in Nat, k <= n
    PROVE  c + MaxCost * k <= b
<1> DEFINE x == MaxCost * n
           y == MaxCost * k
<1>1. x \in Nat /\ y \in Nat /\ y <= x  BY TimesGrows
<1>2. c + x <= b  OBVIOUS
<1> HIDE DEF x, y
<1>3. c + y <= b  BY <1>1, <1>2
<1>4. QED  BY <1>3 DEF y

LEMMA BudgetBound == Budget > 0 => Budget - 1 + MaxCost * (2 * R) \in Nat
<1>1. 2 * R \in Nat  BY Cardinals
<1>2. MaxCost * (2 * R) \in Nat  BY <1>1, TimesGrows
<1> DEFINE y == MaxCost * (2 * R)
<1>3. y \in Nat  BY <1>2
<1> HIDE DEF y
<1>4. Budget > 0 => Budget - 1 + y \in Nat  BY <1>3
<1>5. QED  BY <1>4 DEF y

\* A month in which nothing was counted, and no more may come.
LEMMA LessExposed ==
    ASSUME IInv, Budget > 0, NEW m \in Months, InBudget(m),
           usage'[m].cost = usage[m].cost,
           Exposed(m)' <= Exposed(m), Exposed(m)' \in Nat
    PROVE  InBudget(m)'
<1>1. usage[m].cost \in Nat  BY DEF IInv, TypeInv, TypeOK, Counters
<1>2. Exposed(m) \in Nat  BY ExposedType
<1> DEFINE b == Budget - 1 + MaxCost * (2 * R)
<1>3. b \in Nat /\ usage[m].cost + MaxCost * Exposed(m) <= b  BY BudgetBound DEF InBudget
<1> HIDE DEF b
<1>4. usage[m].cost + MaxCost * Exposed(m)' <= b  BY <1>1, <1>2, <1>3, Products
<1>5. QED  BY <1>4 DEF b, InBudget, R

\* A month whose budget is not exhausted, whatever the runs may do.
LEMMA RoomForAll ==
    ASSUME TypeOK', NEW m \in Months, Budget > 0, usage'[m].cost <= Budget - 1
    PROVE  InBudget(m)'
<1>1. usage'[m].cost \in Nat  BY DEF TypeOK, Counters
<1>2. CallsIn(m)' \in SUBSET Runs /\ SearchesAhead' \in SUBSET Runs
  BY DEF CallsIn, SearchesAhead
<1>3. usage'[m].cost + MaxCost * (Cardinality(CallsIn(m)') + Cardinality(SearchesAhead'))
        <= Budget - 1 + MaxCost * (2 * R)
  BY <1>1, <1>2, ExposureFits
<1>4. QED  BY <1>3 DEF InBudget, Exposed, R

\* The exposure of a month when the runs' sets change by at most one run.
LEMMA ExposureShrinks ==
    ASSUME NEW m \in Months,
           \/ /\ \A r \in Runs : CountsIn(r, m)' => CountsIn(r, m)
              /\ \A r \in Runs : SearchAhead(r)' => SearchAhead(r)
           \/ \E r \in Runs :
                 /\ SearchAhead(r) /\ SearchesAhead' = SearchesAhead \ {r}
                 /\ CallsIn(m)' \in SUBSET (CallsIn(m) \cup {r})
    PROVE  Exposed(m)' <= Exposed(m) /\ Exposed(m)' \in Nat
<1>0. /\ CallsIn(m) \in SUBSET Runs /\ SearchesAhead \in SUBSET Runs
      /\ CallsIn(m)' \in SUBSET Runs /\ SearchesAhead' \in SUBSET Runs
  BY DEF CallsIn, SearchesAhead
<1>1. /\ Cardinality(CallsIn(m)) \in Nat /\ Cardinality(SearchesAhead) \in Nat
      /\ Cardinality(CallsIn(m)') \in Nat /\ Cardinality(SearchesAhead') \in Nat
      /\ IsFiniteSet(CallsIn(m)) /\ IsFiniteSet(SearchesAhead)
  BY <1>0, Cardinals
<1>2. CASE /\ \A r \in Runs : CountsIn(r, m)' => CountsIn(r, m)
           /\ \A r \in Runs : SearchAhead(r)' => SearchAhead(r)
  <2>1. CallsIn(m)' \in SUBSET CallsIn(m) /\ SearchesAhead' \in SUBSET SearchesAhead
    BY <1>2 DEF CallsIn, SearchesAhead
  <2>2. /\ Cardinality(CallsIn(m)') <= Cardinality(CallsIn(m))
        /\ Cardinality(SearchesAhead') <= Cardinality(SearchesAhead)
    BY <1>1, <2>1, FS_Subset
  <2>3. QED  BY <1>1, <2>2 DEF Exposed
<1>3. ASSUME NEW r \in Runs, SearchAhead(r), SearchesAhead' = SearchesAhead \ {r},
             CallsIn(m)' \in SUBSET (CallsIn(m) \cup {r})
      PROVE  Exposed(m)' <= Exposed(m) /\ Exposed(m)' \in Nat
  <2>1. r \in SearchesAhead  BY <1>3 DEF SearchesAhead
  <2>2. Cardinality(SearchesAhead') = Cardinality(SearchesAhead) - 1
    BY <1>1, <1>3, <2>1, FS_RemoveElement
  <2>3. /\ IsFiniteSet(CallsIn(m) \cup {r})
        /\ Cardinality(CallsIn(m) \cup {r}) \in Nat
        /\ Cardinality(CallsIn(m) \cup {r}) <= Cardinality(CallsIn(m)) + 1
    <3>1. /\ IsFiniteSet(CallsIn(m) \cup {r})
          /\ Cardinality(CallsIn(m) \cup {r})
               = IF r \in CallsIn(m) THEN Cardinality(CallsIn(m)) ELSE Cardinality(CallsIn(m)) + 1
      BY <1>1, FS_AddElement
    <3>2. QED  BY <1>1, <3>1
  <2>4. Cardinality(CallsIn(m)') <= Cardinality(CallsIn(m) \cup {r})
    BY <1>3, <2>3, FS_Subset
  <2>5. QED  BY <1>1, <2>2, <2>3, <2>4 DEF Exposed
<1>4. QED  BY <1>2, <1>3

\* A call is committed: it costs no more than what it had been counted for.
LEMMA CommitPaidInBudget ==
    ASSUME IInv, TypeOK', Budget > 0, NEW r \in Runs, CommitPaid(r), NEW m \in Months, InBudget(m)
    PROVE  InBudget(m)'
<1>0. TypeOK /\ r \in Txs /\ usage[m].cost \in Nat /\ step[r] \in 1 .. 3
  BY DEF IInv, TypeInv, TypeOK, Counters, Txs, CommitPaid, CommitUsage, Open
<1>1. /\ CommitUsage(r) /\ pc[r] = "flushed" /\ period' = period /\ month' = month
      /\ pc' = [pc EXCEPT ![r] = "between"] /\ step' = [step EXCEPT ![r] = @ + 1]
  BY <1>0, CommitCounts DEF CommitPaid, Goto
<1>2. \A q \in Runs : SearchAhead(q)' => SearchAhead(q)
  <2>1. SearchAhead(r)' => SearchAhead(r)
    <3>1. step'[r] = step[r] + 1  BY <1>0, <1>1 DEF TypeOK
    <3>2. step'[r] # 1 /\ (step'[r] = 2 => step[r] = 1)  BY <1>0, <3>1
    <3>3. QED  BY <1>1, <3>2 DEF SearchAhead
  <2>2. \A q \in Runs \ {r} : pc'[q] = pc[q] /\ step'[q] = step[q]
    BY <1>0, <1>1 DEF TypeOK
  <2>3. QED  BY <2>1, <2>2 DEF SearchAhead
<1>3. \A q \in Runs : CountsIn(q, m)' <=> CountsIn(q, m) /\ q # r
  BY <1>0, <1>1 DEF CountsIn, TypeOK, Open, Txs
<1>4. CASE m # period[r]
  <2>1. usage'[m].cost = usage[m].cost  BY <1>0, <1>1, <1>4, CommitLimited
  <2>2. Exposed(m)' <= Exposed(m) /\ Exposed(m)' \in Nat  BY <1>2, <1>3, ExposureShrinks
  <2>3. QED  BY <2>1, <2>2, LessExposed
<1>5. CASE m = period[r]
  <2>1. usage'[m].cost = usage[m].cost + owed[r] /\ owed[r] \in Nat /\ owed[r] <= MaxCost
    <3>1. owed[r] \in 0 .. MaxCost  BY <1>0 DEF TypeOK
    <3>2. usage'[m].cost = usage[m].cost + owed[r]  BY <1>0, <1>1, <1>5, CommitLimited
    <3>3. QED  BY <3>1, <3>2
  <2>2. CallsIn(m)' = CallsIn(m) \ {r} /\ r \in CallsIn(m)
    BY <1>1, <1>3, <1>5 DEF CallsIn, CountsIn, Open
  <2>3. SearchesAhead' \in SUBSET SearchesAhead /\ SearchesAhead' \in SUBSET Runs
    BY <1>2 DEF SearchesAhead
  <2>4. /\ Cardinality(CallsIn(m)') = Cardinality(CallsIn(m)) - 1
        /\ Cardinality(SearchesAhead') <= Cardinality(SearchesAhead)
        /\ Cardinality(SearchesAhead') \in Nat /\ Cardinality(CallsIn(m)') \in Nat
    <3>1. CallsIn(m)' \in SUBSET Runs  BY DEF CallsIn
    <3>2. QED  BY <2>2, <2>3, <3>1, Cardinals, ExposedType, FS_RemoveElement, FS_Subset
  <2>5. Exposed(m)' \in Nat /\ Exposed(m)' + 1 <= Exposed(m) /\ Exposed(m) \in Nat
    BY <2>4, ExposedType DEF Exposed
  <2> DEFINE b == Budget - 1 + MaxCost * (2 * R)
             n == Exposed(m)'
             x == MaxCost * n
  <2>6. b \in Nat /\ usage[m].cost + MaxCost * Exposed(m) <= b  BY BudgetBound DEF InBudget
  <2> HIDE DEF b, n
  <2>7. n \in Nat /\ n + 1 \in Nat /\ n + 1 <= Exposed(m)  BY <2>5 DEF n
  <2>8. usage[m].cost + MaxCost * (n + 1) <= b  BY <1>0, <2>5, <2>6, <2>7, Products
  <2>9. MaxCost * (n + 1) = x + MaxCost /\ x \in Nat  BY <2>7, TimesSteps, TimesGrows
  <2> HIDE DEF x
  <2>10. usage'[m].cost + x <= b  BY <1>0, <2>1, <2>6, <2>8, <2>9
  <2>11. QED  BY <2>10 DEF b, n, x, InBudget, R
<1>6. QED  BY <1>4, <1>5

\* A run starts a call: one that looked at the budget, or the search it had ahead.
LEMMA StartPaidInBudget ==
    ASSUME IInv, TypeOK', Budget > 0, NEW r \in Runs, StartPaid(r), NEW m \in Months, InBudget(m)
    PROVE  InBudget(m)'
<1>0. TypeOK /\ r \in Txs /\ usage[m].cost \in Nat
  BY DEF IInv, TypeInv, TypeOK, Counters, Txs
<1>1. /\ pc[r] = "between" /\ step[r] \in 1 .. 3 /\ pc' = [pc EXCEPT ![r] = "calling"]
      /\ UNCHANGED <<month, usage, period, step>>
  BY DEF StartPaid, AtPaidStep, Goto
<1>2. \A q \in Runs : q # r => pc'[q] = pc[q] /\ month' = month /\ period' = period
                              /\ step'[q] = step[q]
  BY <1>0, <1>1 DEF TypeOK
<1>7. \A q \in Runs : q # r => (CountsIn(q, m)' => CountsIn(q, m))
  BY <1>2 DEF CountsIn
<1>8. \A q \in Runs : q # r => (SearchAhead(q)' => SearchAhead(q))
  BY <1>2 DEF SearchAhead
<1>9. \A q \in Runs : q # r => (SearchAhead(q) => SearchAhead(q)')
  BY <1>2 DEF SearchAhead
<1>3. CASE step[r] = 2
  <2>1. SearchAhead(r) /\ ~SearchAhead(r)'
    BY <1>0, <1>1, <1>3 DEF SearchAhead, Open, TypeOK
  <2>2. SearchesAhead' = SearchesAhead \ {r}
    <3>1. \A q : q \in SearchesAhead' <=> q \in Runs /\ SearchAhead(q)'
      BY DEF SearchesAhead
    <3>2. \A q : q \in SearchesAhead <=> q \in Runs /\ SearchAhead(q)
      BY DEF SearchesAhead
    <3>3. \A q : q \in SearchesAhead' <=> q \in SearchesAhead /\ q # r
      BY <1>8, <1>9, <2>1, <3>1, <3>2
    <3>4. QED  BY <3>3
  <2>3. CallsIn(m)' \in SUBSET (CallsIn(m) \cup {r})
    <3>1. \A q : q \in CallsIn(m)' <=> q \in Runs /\ CountsIn(q, m)'  BY DEF CallsIn
    <3>2. \A q : q \in CallsIn(m) <=> q \in Runs /\ CountsIn(q, m)  BY DEF CallsIn
    <3>3. QED  BY <1>7, <3>1, <3>2
  <2>4. Exposed(m)' <= Exposed(m) /\ Exposed(m)' \in Nat  BY <2>1, <2>2, <2>3, ExposureShrinks
  <2>5. QED  BY <1>1, <2>4, LessExposed
<1>4. CASE step[r] # 2 /\ m = month
  <2>1. PaidStep[step[r]] # "search"
    BY <1>1, <1>4 DEF PaidStep
  <2>2. usage[month].cost < Budget
    <3>1. ~(Budget > 0 /\ usage[month].cost >= Budget)
      BY <2>1 DEF StartPaid, ChecksFirst, Exhausted
    <3>2. QED  BY <1>0, <1>4, <3>1
  <2>3. usage'[m].cost <= Budget - 1  BY <1>0, <1>1, <1>4, <2>2
  <2>4. QED  BY <2>3, RoomForAll
<1>5. CASE step[r] # 2 /\ m # month
  <2>1. CountsIn(r, m)' => CountsIn(r, m)
    BY <1>0, <1>1, <1>5 DEF CountsIn, Open, TypeOK
  <2>2. SearchAhead(r)' => SearchAhead(r)  BY <1>1, <1>5 DEF SearchAhead
  <2>3. \A q \in Runs : (CountsIn(q, m)' => CountsIn(q, m)) /\ (SearchAhead(q)' => SearchAhead(q))
    BY <1>7, <1>8, <2>1, <2>2
  <2>4. Exposed(m)' <= Exposed(m) /\ Exposed(m)' \in Nat  BY <2>3, ExposureShrinks
  <2>5. QED  BY <1>1, <2>4, LessExposed
<1>6. QED  BY <1>3, <1>4, <1>5

\* Every other step that commits nothing exposes no month to more than before.
LEMMA SmallInBudget ==
    ASSUME IInv, TypeOK', Budget > 0, Small, NEW m \in Months, InBudget(m)
    PROVE  InBudget(m)'
<1>0. TypeOK /\ Runs \subseteq Txs  BY DEF IInv, TypeInv, Txs
<1> DEFINE Fewer == \A q \in Runs : /\ CountsIn(q, m)' => CountsIn(q, m)
                                    /\ SearchAhead(q)' => SearchAhead(q)
<1>1. CASE Fewer
  <2>1. Exposed(m)' <= Exposed(m) /\ Exposed(m)' \in Nat  BY <1>1, ExposureShrinks
  <2>2. usage' = usage  BY SmallKeeps
  <2>3. QED  BY <2>1, <2>2, LessExposed
<1>2. CASE \E r \in Runs : StartPaid(r)  BY <1>2, StartPaidInBudget
<1>3. ASSUME NEW t \in Txs, GetUsage(t) PROVE Fewer
  <2>1. /\ pc[t] = "recording" /\ UNCHANGED <<month, step>>
        /\ period' = [period EXCEPT ![t] = month]
        /\ pc' = [pc EXCEPT ![t] = "update"] \/ pc' = [pc EXCEPT ![t] = "insert"]
    BY <1>3 DEF GetUsage, Goto
  <2>2. QED  BY <1>0, <2>1 DEF CountsIn, SearchAhead, Open, TypeOK
<1>4. ASSUME NEW t \in Txs, Take(t) \/ Interrupted(t) PROVE Fewer
  <2>1. /\ UNCHANGED <<month, period, step>> /\ pc[t] \in Open
        /\ \/ pc' = [pc EXCEPT ![t] = "failed"]
           \/ /\ pc[t] \in {"insert", "update"}
              /\ pc' = [pc EXCEPT ![t] = "update"] \/ pc' = [pc EXCEPT ![t] = "flushed"]
    BY <1>4 DEF Take, InsertUsage, InsertConflict, UpdateUsage, Interrupted, Goto, Open
  <2>2. QED  BY <1>0, <2>1 DEF CountsIn, SearchAhead, Open, TypeOK
<1>5. ASSUME NEW r \in Runs, SkipPaid(r) PROVE Fewer
  <2>1. /\ pc[r] = "between" /\ step' = [step EXCEPT ![r] = @ + 1] /\ step[r] \in 1 .. 3
        /\ UNCHANGED <<pc, month, period>>
    BY <1>5 DEF SkipPaid, AtPaidStep
  <2>2. \A q \in Runs \ {r} : step'[q] = step[q]  BY <1>0, <2>1 DEF TypeOK
  <2>3. step'[r] # 1 /\ (step'[r] = 2 => step[r] = 1)
    <3>1. step'[r] = step[r] + 1  BY <1>0, <2>1 DEF TypeOK
    <3>2. QED  BY <2>1, <3>1
  <2>4. SearchAhead(r)' => SearchAhead(r)  BY <2>1, <2>3 DEF SearchAhead
  <2>5. QED  BY <2>1, <2>2, <2>4 DEF CountsIn, SearchAhead
<1>6. ASSUME NEW r \in Runs, NEW cost \in 0 .. MaxCost, CallProvider(r, cost) PROVE Fewer
  <2>1. /\ pc[r] = "calling" /\ pc' = [pc EXCEPT ![r] = "recording"]
        /\ UNCHANGED <<month, period, step>>
    BY <1>6 DEF CallProvider, Goto
  <2>2. QED  BY <1>0, <2>1 DEF CountsIn, SearchAhead, Open, TypeOK
<1>7. ASSUME NEW t \in Uploaders \cup Reports, UNCHANGED <<month, period, step>>,
             NEW label, pc' = [pc EXCEPT ![t] = label]
      PROVE  Fewer
  <2>1. \A q \in Runs : q # t  OBVIOUS
  <2>2. \A q \in Runs : pc'[q] = pc[q]  BY <1>0, <1>7, <2>1 DEF TypeOK
  <2>3. QED  BY <1>7, <2>2 DEF CountsIn, SearchAhead
<1>8. ASSUME NEW u \in Uploaders, Admit(u) \/ Retry(u) PROVE Fewer
  <2>1. /\ UNCHANGED <<month, period, step>>
        /\ pc' = [pc EXCEPT ![u] = "recording"] \/ pc' = [pc EXCEPT ![u] = "idle"]
    BY <1>8 DEF Admit, Retry, Goto
  <2>2. QED  BY <1>7, <2>1
<1>9. ASSUME NEW p \in Reports, StartReport(p) PROVE Fewer
  BY <1>7, <1>9 DEF StartReport, Goto
<1>10. CASE DeleteAnalysis  BY <1>1, <1>10 DEF DeleteAnalysis, CountsIn, SearchAhead
<1> HIDE DEF Fewer
<1>11. QED  BY <1>1, <1>2, <1>3, <1>4, <1>5, <1>6, <1>8, <1>9, <1>10 DEF Small

LEMMA BudgetStep ==
    ASSUME IInv, TypeOK', Unused, Budget > 0, Next, NEW m \in Months, InBudget(m)
    PROVE  InBudget(m)'
<1>0. TypeOK  BY DEF IInv, TypeInv
<1>1. CASE Small  BY <1>1, SmallInBudget
<1>2. CASE \E r \in Runs : CommitPaid(r)  BY <1>2, CommitPaidInBudget
<1>3. ASSUME NEW t \in Uploaders \cup Reports, CommitUsage(t), UNCHANGED step,
             NEW label, pc' = [pc EXCEPT ![t] = label]
      PROVE  InBudget(m)'
  <2>1. t \in Txs /\ t \notin Runs  BY DEF Txs
  <2>2. usage'[m].cost = usage[m].cost  BY <1>3, <2>1, CommitLimited
  <2>3. month' = month /\ period' = period  BY <1>3, <2>1, CommitCounts
  <2>4. \A q \in Runs : pc'[q] = pc[q]  BY <1>0, <1>3, <2>1 DEF TypeOK
  <2>5. \A q \in Runs : (CountsIn(q, m)' => CountsIn(q, m)) /\ (SearchAhead(q)' => SearchAhead(q))
    BY <1>3, <2>3, <2>4 DEF CountsIn, SearchAhead
  <2>6. Exposed(m)' <= Exposed(m) /\ Exposed(m)' \in Nat  BY <2>5, ExposureShrinks
  <2>7. QED  BY <2>2, <2>6, LessExposed
<1>4. CASE \E u \in Uploaders : CommitUpload(u)  BY <1>3, <1>4 DEF CommitUpload, Goto
<1>5. CASE \E p \in Reports : CommitReport(p)  BY <1>3, <1>5 DEF CommitReport, Goto
<1>6. CASE NextMonth
  <2>1. month' = month + 1 /\ UNCHANGED <<usage, pc, period, step>>  BY <1>6 DEF NextMonth
  <2>2. CASE m = month'
    <3>1. m > month  BY <1>0, <2>1, <2>2 DEF TypeOK, Months
    <3>2. usage'[m].cost = 0  BY <2>1, <3>1 DEF Unused, Zero
    <3>3. usage'[m].cost <= Budget - 1  BY <3>2
    <3>4. QED  BY <3>3, RoomForAll
  <2>3. CASE m # month'
    <3>1. \A q \in Runs : (CountsIn(q, m)' => CountsIn(q, m)) /\ (SearchAhead(q)' => SearchAhead(q))
      BY <2>1, <2>3 DEF CountsIn, SearchAhead
    <3>2. Exposed(m)' <= Exposed(m) /\ Exposed(m)' \in Nat  BY <3>1, ExposureShrinks
    <3>3. QED  BY <2>1, <3>2, LessExposed
  <2>4. QED  BY <2>2, <2>3
<1>7. QED  BY <1>1, <1>2, <1>4, <1>5, <1>6, KindsOfSteps

-----------------------------------------------------------------------------
(* The theorems *)

LEMMA BudgetByMonth == BudgetInv <=> (Budget > 0 => \A m \in Months : InBudget(m))
  BY DEF BudgetInv, InBudget, Exposed

LEMMA BoundsInit == Init => BoundsInv
<1> SUFFICES ASSUME Init PROVE BoundsInv
  OBVIOUS
<1>1. IInv  BY InvInit, TypeInit DEF IInv
<1>2. Unused  BY DEF Init, Unused, Months, Txs
<1>3. /\ \A m \in Months : usage[m].analyses = 0 /\ usage[m].cost = 0
      /\ held = 0 /\ Admitted = {} /\ \A m \in Months : AdmittedIn(m) = {}
  BY DEF Init, Zero, Admitted, AdmittedIn, CountsIn, Open, Txs
<1>4. U \in Nat /\ Cardinality({}) = 0  BY Cardinals, FS_EmptySet
<1>5. StorageInv /\ AnalysisInv
  <2>1. Cardinality(Admitted) = 0 /\ \A m \in Months : Cardinality(AdmittedIn(m)) = 0
    BY <1>3, <1>4
  <2>2. StorageLimit > 0 => 0 + 0 <= StorageLimit + U - 1  BY <1>4
  <2>3. AnalysisLimit > 0 => 0 + 0 <= AnalysisLimit + U - 1  BY <1>4
  <2>4. StorageInv  BY <1>3, <2>1, <2>2 DEF StorageInv
  <2>5. AnalysisInv  BY <1>3, <2>1, <2>3 DEF AnalysisInv
  <2>6. QED  BY <2>4, <2>5
<1>6. BudgetInv
  <2> SUFFICES ASSUME Budget > 0, NEW m \in Months PROVE InBudget(m)
    BY BudgetByMonth
  <2>1. CallsIn(m) \in SUBSET Runs /\ SearchesAhead \in SUBSET Runs
    BY DEF CallsIn, SearchesAhead
  <2>2. usage[m].cost \in Nat /\ usage[m].cost <= Budget - 1  BY <1>3
  <2>3. QED  BY <2>1, <2>2, ExposureFits DEF InBudget, Exposed
<1>7. QED  BY <1>1, <1>2, <1>5, <1>6 DEF BoundsInv

LEMMA BoundsStep == BoundsInv /\ [Next]_vars => BoundsInv'
<1> SUFFICES ASSUME BoundsInv, [Next]_vars PROVE BoundsInv'
  OBVIOUS
<1>0. IInv'  BY InvStep, TypeStep DEF IInv, BoundsInv
<1>1. CASE Next
  <2>1. Unused' /\ StorageInv' /\ AnalysisInv'  BY <1>1, UnusedStep, UploadsStep DEF BoundsInv
  <2>2. BudgetInv'
    <3>1. TypeOK'  BY <1>0 DEF IInv, TypeInv
    <3>2. ASSUME Budget > 0, NEW m \in Months PROVE InBudget(m)'
      <4>1. InBudget(m)  BY <3>2, BudgetByMonth DEF BoundsInv
      <4>2. QED  BY <1>1, <3>1, <3>2, <4>1, BudgetStep DEF BoundsInv
    <3>3. QED  BY <3>2 DEF BudgetInv, InBudget, Exposed
  <2>3. QED  BY <1>0, <2>1, <2>2 DEF BoundsInv
<1>2. CASE UNCHANGED vars
  BY <1>0, <1>2
  DEF vars, BoundsInv, Unused, StorageInv, AnalysisInv, BudgetInv, Admitted, AdmittedIn, CallsIn,
      SearchesAhead, SearchAhead, CountsIn, U, R
<1>3. QED  BY <1>1, <1>2

LEMMA AlwaysBounded == Spec => []BoundsInv
BY BoundsInit, BoundsStep, PTL DEF Spec

\* n clients exceed the limit of analyses and the limit of storage by at most n - 1.
THEOREM OvershootBound == Spec => []OvershootIsBounded
<1>1. BoundsInv => OvershootIsBounded
  <2> SUFFICES ASSUME BoundsInv PROVE OvershootIsBounded
    OBVIOUS
  <2>0. TypeOK /\ held \in Nat /\ \A m \in Months : usage[m].analyses \in Nat
    BY DEF BoundsInv, IInv, TypeInv, TypeOK, Counters
  <2>1. Admitted \in SUBSET Uploaders /\ \A m \in Months : AdmittedIn(m) \in SUBSET Uploaders
    BY DEF Admitted, AdmittedIn
  <2>2. /\ U \in Nat /\ Cardinality(Admitted) \in Nat
        /\ \A m \in Months : Cardinality(AdmittedIn(m)) \in Nat
    BY <2>1, Cardinals
  <2>3. StorageLimit > 0 => held <= StorageLimit + U - 1
    BY <2>0, <2>2 DEF BoundsInv, StorageInv
  <2>4. ASSUME AnalysisLimit > 0, NEW m \in Months
        PROVE  usage[m].analyses <= AnalysisLimit + U - 1
    BY <2>0, <2>2, <2>4 DEF BoundsInv, AnalysisInv
  <2>5. /\ StorageLimit + U - 1 = StorageLimit + (U - 1)
        /\ AnalysisLimit + U - 1 = AnalysisLimit + (U - 1)
    BY <2>2
  <2>6. QED  BY <2>3, <2>4, <2>5 DEF OvershootIsBounded, U
<1> QED BY <1>1, AlwaysBounded, PTL

\* What is recorded for a month exceeds the budget by no more than one checked call
\* and one search of each run.
THEOREM BudgetOvershootBound == Spec => []BudgetOvershootIsBounded
<1>1. BoundsInv => BudgetOvershootIsBounded
  <2> SUFFICES ASSUME BoundsInv, Budget > 0, NEW m \in Months
               PROVE  usage[m].cost <= Budget - 1 + 2 * MaxCost * Cardinality(Runs)
    BY DEF BudgetOvershootIsBounded
  <2> DEFINE x == MaxCost * Exposed(m)
             b == Budget - 1 + MaxCost * (2 * R)
  <2>1. usage[m].cost \in Nat  BY DEF BoundsInv, IInv, TypeInv, TypeOK, Counters
  <2>2. Exposed(m) \in Nat /\ R \in Nat  BY ExposedType, Cardinals
  <2>3. x \in Nat  BY <2>2, TimesGrows
  <2>4. b \in Nat  BY BudgetBound
  <2>5. usage[m].cost + x <= b  BY BudgetByMonth DEF BoundsInv, InBudget
  <2> HIDE DEF x, b
  <2>6. usage[m].cost <= b  BY <2>1, <2>3, <2>4, <2>5
  <2>7. MaxCost * (2 * R) = 2 * MaxCost * R  BY <2>2
  <2>8. QED  BY <2>6, <2>7 DEF b, R
<1> QED BY <1>1, AlwaysBounded, PTL
=============================================================================
