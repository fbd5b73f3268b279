----------------------------- MODULE UsageLimits -----------------------------
(***************************************************************************)
(* Usage accounting of one user: uploads that are admitted by a limit they *)
(* read and counted later, reports, and pipeline runs whose paid steps     *)
(* look at the month's budget.  Each of them is a transaction on the usage *)
(* row of a calendar month, which the first one of the month creates.  The *)
(* database is read committed: a reader sees committed counters and its    *)
(* own, an UPDATE waits for the row's lock and reads what it then finds.   *)
(*                                                                         *)
(* Sizes, costs and limits are small numbers of the same unit; a provider  *)
(* call costs 0 (cached, free or failed) up to MaxCost.                    *)
(***************************************************************************)
EXTENDS Naturals, FiniteSets

CONSTANTS Uploaders,        \* clients that upload one file after the other
          Reports,          \* report requests
          Runs,             \* pipeline runs
          Providers,        \* paid steps that have a provider configured
          AnalysisLimit,    \* usage_monthly_analysis_limit
          StorageLimit,     \* usage_storage_limit_bytes
          Budget,           \* usage_monthly_provider_cost_limit
          MaxCost,          \* bound: cost of one provider call
          MaxMonth,         \* bound: calendar months
          MaxInterrupts     \* bound: transactions that are rolled back

ASSUME LimitsAssumption ==
    /\ {AnalysisLimit, StorageLimit, Budget, MaxCost, MaxInterrupts} \subseteq Nat
    /\ MaxMonth \in Nat \ {0}
    /\ Providers \subseteq {"ai", "search", "synthesis"}

ASSUME RolesAssumption ==
    /\ Uploaders \cap Reports = {} /\ Uploaders \cap Runs = {} /\ Reports \cap Runs = {}
    /\ "free" \notin Uploaders \cup Reports \cup Runs
    /\ IsFiniteSet(Uploaders) /\ IsFiniteSet(Runs)

VARIABLES month,        \* the calendar month (UTC)
          rows,         \* months with a committed usage row
          usage,        \* its counters
          lock,         \* who holds the row, or its unique key, uncommitted
          pending,      \* the counters the holder has written
          audit,        \* analyses, reports and provider_calls rows, committed
          held,         \* live originals, in units of storage
          pc, period,   \* each transaction's position, and the month it counts in
          step, owed,   \* each run's paid step, and the cost of the call it made
          interrupts

vars == <<month, rows, usage, lock, pending, audit, held, pc, period, step, owed,
          interrupts>>

Months == 1 .. MaxMonth
Txs == Uploaders \cup Reports \cup Runs
PaidStep == <<"ai", "search", "synthesis">>
Zero == [analyses |-> 0, reports |-> 0, calls |-> 0, cost |-> 0]

\* Positions at which a transaction is under way.
Open == {"recording", "insert", "update", "flushed"}

Init ==
    /\ month = 1
    /\ rows = {}
    /\ usage = [m \in Months |-> Zero]
    /\ lock = [m \in Months |-> "free"]
    /\ pending = [t \in Txs |-> Zero]
    /\ audit = [m \in Months |-> Zero]
    /\ held = 0
    /\ pc = [t \in Txs |-> IF t \in Runs THEN "between" ELSE "idle"]
    /\ period = [t \in Txs |-> 1]
    /\ step = [r \in Runs |-> 1]
    /\ owed = [r \in Runs |-> 0]
    /\ interrupts = 0

Goto(t, label) == pc' = [pc EXCEPT ![t] = label]

\* The end of a transaction, committed or rolled back.
ReleaseNothing(t) == lock' = lock /\ pending' = [pending EXCEPT ![t] = Zero]  \* mutant
Release(t) ==
    /\ lock' = [m \in Months |-> IF lock[m] = t THEN "free" ELSE lock[m]]
    /\ pending' = [pending EXCEPT ![t] = Zero]

-----------------------------------------------------------------------------
(* Limits.  A limit of 0 is no limit. *)

\* assert_can_create, for a file of one unit.
CanCreateOneMore ==                                                         \* mutant
    /\ AnalysisLimit = 0 \/ usage[month].analyses <= AnalysisLimit
    /\ StorageLimit = 0 \/ held + 1 <= StorageLimit
CanCreate ==
    /\ AnalysisLimit = 0 \/ usage[month].analyses < AnalysisLimit
    /\ StorageLimit = 0 \/ held + 1 <= StorageLimit

Exhausted == Budget > 0 /\ usage[month].cost >= Budget

-----------------------------------------------------------------------------
(* Recording, the same for everybody *)

\* What a transaction adds to the counters, and to the rows they summarise.
Plus(c, t) ==
    CASE t \in Uploaders -> [c EXCEPT !.analyses = @ + 1]
      [] t \in Reports   -> [c EXCEPT !.reports = @ + 1]
      [] t \in Runs      -> [c EXCEPT !.calls = @ + 1, !.cost = @ + owed[t]]

\* get_or_create reads the row of the month it is now ...
GetUsage(t) ==
    /\ pc[t] = "recording"
    /\ period' = [period EXCEPT ![t] = month]
    /\ Goto(t, IF month \in rows THEN "update" ELSE "insert")
    /\ UNCHANGED <<month, rows, usage, lock, pending, audit, held, step, owed,
                   interrupts>>

\* ... and inserts it when there is none.  Another uncommitted insert of the
\* same key is waited for.
InsertUsage(t) ==
    /\ pc[t] = "insert"
    /\ lock[period[t]] = "free"
    /\ period[t] \notin rows
    /\ lock' = [lock EXCEPT ![period[t]] = t]
    /\ Goto(t, "update")
    /\ UNCHANGED <<month, rows, usage, pending, audit, held, period, step, owed,
                   interrupts>>

\* The key was taken meanwhile: the transaction is lost.  create_report catches
\* the error, but the row it then adds is refused by the same session.
InsertConflict(t) ==
    /\ pc[t] = "insert"
    /\ lock[period[t]] = "free"
    /\ period[t] \in rows
    /\ Goto(t, "failed")
    /\ UNCHANGED <<month, rows, usage, lock, pending, audit, held, period, step, owed, interrupts>>

\* UPDATE usage SET counter = counter + delta, on the row as it is once locked.
UpdateUsageUnlocked(t) ==                                                   \* mutant
    /\ pc[t] = "update"
    /\ pending' = [pending EXCEPT ![t] = Plus(usage[period[t]], t)]
    /\ Goto(t, "flushed")
    /\ UNCHANGED <<month, rows, usage, lock, audit, held, period, step, owed, interrupts>>

UpdateUsage(t) ==
    /\ pc[t] = "update"
    /\ lock[period[t]] \in {"free", t}
    /\ lock' = [lock EXCEPT ![period[t]] = t]
    /\ pending' = [pending EXCEPT ![t] = Plus(usage[period[t]], t)]
    /\ Goto(t, "flushed")
    /\ UNCHANGED <<month, rows, usage, audit, held, period, step, owed, interrupts>>

CommitUsage(t) ==
    /\ pc[t] = "flushed"
    /\ rows' = rows \cup {period[t]}
    /\ usage' = [usage EXCEPT ![period[t]] = pending[t]]
    /\ audit' = [audit EXCEPT ![period[t]] = Plus(@, t)]
    /\ Release(t)
    /\ UNCHANGED <<month, period, owed, interrupts>>

Interrupted(t) ==
    /\ pc[t] \in Open
    /\ interrupts < MaxInterrupts
    /\ interrupts' = interrupts + 1
    /\ Release(t)
    /\ Goto(t, "failed")
    /\ UNCHANGED <<month, rows, usage, audit, held, period, step, owed>>

-----------------------------------------------------------------------------
(* Uploads and reports *)

\* The limits are read, then the object is stored.
Admit(u) ==
    /\ pc[u] = "idle"
    /\ CanCreate
    /\ Goto(u, "recording")
    /\ UNCHANGED <<month, rows, usage, lock, pending, audit, held, period, step, owed, interrupts>>

CommitUpload(u) ==
    /\ CommitUsage(u)
    /\ held' = held + 1
    /\ Goto(u, "idle")
    /\ UNCHANGED step

\* The client goes on after an error.
Retry(u) ==
    /\ pc[u] = "failed"
    /\ Goto(u, "idle")
    /\ UNCHANGED <<month, rows, usage, lock, pending, audit, held, period, step, owed, interrupts>>

\* Deleting an analysis frees its storage and none of its activity counters.
DeleteAgain ==                                                              \* mutant
    /\ held' = held - 1
    /\ UNCHANGED <<month, rows, usage, lock, pending, audit, pc, period, step, owed,
                   interrupts>>
DeleteAnalysis ==
    /\ held > 0
    /\ held' = held - 1
    /\ UNCHANGED <<month, rows, usage, lock, pending, audit, pc, period, step, owed, interrupts>>

\* No limit applies to a report: it is rendered, stored and counted.
StartReport(p) ==
    /\ pc[p] = "idle"
    /\ Goto(p, "recording")
    /\ UNCHANGED <<month, rows, usage, lock, pending, audit, held, period, step, owed, interrupts>>

CommitReport(p) ==
    /\ CommitUsage(p)
    /\ Goto(p, "done")
    /\ UNCHANGED <<held, step>>

-----------------------------------------------------------------------------
(* Paid steps of a run *)

AtPaidStep(r) == pc[r] = "between" /\ step[r] \in 1 .. 3
\* The search step asks for the budget only after its call, to drop the result.
ChecksNever(r) == FALSE                                                     \* mutant
ChecksFirst(r) == PaidStep[step[r]] # "search"

SkipPaid(r) ==
    /\ AtPaidStep(r)
    /\ PaidStep[step[r]] \notin Providers \/ (ChecksFirst(r) /\ Exhausted)
    /\ step' = [step EXCEPT ![r] = @ + 1]
    /\ UNCHANGED <<month, rows, usage, lock, pending, audit, held, pc, period, owed, interrupts>>

StartPaid(r) ==
    /\ AtPaidStep(r)
    /\ PaidStep[step[r]] \in Providers
    /\ ~(ChecksFirst(r) /\ Exhausted)
    /\ Goto(r, "calling")
    /\ UNCHANGED <<month, rows, usage, lock, pending, audit, held, period, step, owed, interrupts>>

\* The provider answers, or fails, and has charged the call.
CallProvider(r, cost) ==
    /\ pc[r] = "calling"
    /\ owed' = [owed EXCEPT ![r] = cost]
    /\ Goto(r, "recording")
    /\ UNCHANGED <<month, rows, usage, lock, pending, audit, held, period, step, interrupts>>

\* The call is committed with the step's record.
CommitPaid(r) ==
    /\ CommitUsage(r)
    /\ step' = [step EXCEPT ![r] = @ + 1]
    /\ Goto(r, "between")
    /\ UNCHANGED held

-----------------------------------------------------------------------------

NextMonth ==
    /\ month < MaxMonth
    /\ month' = month + 1
    /\ UNCHANGED <<rows, usage, lock, pending, audit, held, pc, period, step, owed, interrupts>>

Take(t) == InsertUsage(t) \/ InsertConflict(t) \/ UpdateUsage(t)

Go(t) ==
    \/ GetUsage(t)
    \/ t \in Uploaders /\ CommitUpload(t)
    \/ t \in Reports /\ CommitReport(t)
    \/ t \in Runs /\ \/ CommitPaid(t)
                     \/ SkipPaid(t)
                     \/ StartPaid(t)
                     \/ \E cost \in 0 .. MaxCost : CallProvider(t, cost)

Next ==
    \/ \E t \in Txs : Take(t) \/ Go(t) \/ Interrupted(t)
    \/ \E u \in Uploaders : Admit(u) \/ Retry(u)
    \/ \E p \in Reports : StartReport(p)
    \/ DeleteAnalysis
    \/ NextMonth

Spec == Init /\ [][Next]_vars

\* A request or run that has begun goes on; the database grants a row lock to
\* those who wait for it in turn.
FairSpec ==
    /\ Spec
    /\ \A t \in Txs : WF_vars(Go(t)) /\ SF_vars(Take(t))
-----------------------------------------------------------------------------

Counters == [analyses : Nat, reports : Nat, calls : Nat, cost : Nat]

TypeOK ==
    /\ month \in Months
    /\ rows \subseteq Months
    /\ usage \in [Months -> Counters]
    /\ lock \in [Months -> Txs \cup {"free"}]
    /\ pending \in [Txs -> Counters]
    /\ audit \in [Months -> Counters]
    /\ held \in Nat
    /\ pc \in [Txs -> {"idle", "between", "calling", "failed", "done"} \cup Open]
    /\ period \in [Txs -> Months]
    /\ step \in [Runs -> 1 .. 4]
    /\ owed \in [Runs -> 0 .. MaxCost]
    /\ interrupts \in 0 .. MaxInterrupts

\* What the agreement of counters and rows rests on: whoever holds a usage row is
\* about to write or to commit its own month, and whoever has written holds the
\* row, with counters that go one step beyond the committed ones.
RowHasOneWriter ==
    /\ \A m \in Months : lock[m] # "free" =>
            period[lock[m]] = m /\ pc[lock[m]] \in {"update", "flushed"}
    /\ \A t \in Txs : pc[t] = "flushed" =>
            lock[period[t]] = t /\ pending[t] = Plus(usage[period[t]], t)

\* "Atomic counter = counter + delta so concurrent requests never lose updates":
\* the counters agree with the analyses, reports and provider_calls rows they
\* summarise, also when the first requests of a month race to create the row,
\* when the month turns in the middle, and when transactions are rolled back.
CountersMatchRows == usage = audit

\* The limits are read long before the request counts itself: with n clients at
\* work they are exceeded by at most n - 1, in every month.
OvershootIsBounded ==
    LET slack == Cardinality(Uploaders) - 1
    IN  /\ AnalysisLimit > 0 =>
            \A m \in Months : usage[m].analyses <= AnalysisLimit + slack
        /\ StorageLimit > 0 => held <= StorageLimit + slack

\* What is recorded for a month goes beyond the budget by no more than one
\* checked call and one search of each run.
BudgetOvershootIsBounded ==
    Budget > 0 => \A m \in Months :
        usage[m].cost <= Budget - 1 + 2 * MaxCost * Cardinality(Runs)

\* Nobody waits forever for the usage row, although a run keeps it locked until
\* its step is committed.
EveryTransactionEnds == \A t \in Txs : pc[t] \in Open ~> pc[t] \notin Open
=============================================================================
