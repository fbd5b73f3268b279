------------------------- MODULE AnalysisLifecycle -------------------------
(***************************************************************************)
(* What a client polling one analysis is promised, without workers,        *)
(* sessions or in-memory results: the legal status transitions of          *)
(* services/analysis/service.py and step records that settle one by one,   *)
(* in pipeline order, and never change again.  Pipeline implements it.     *)
(***************************************************************************)
EXTENDS Naturals

CONSTANTS Analyses,     \* analyses that may be uploaded
          NSteps,       \* length of the pipeline
          Critical      \* positions of its critical steps

VARIABLES phase,        \* status of the stored analysis, as a client sees it
          results       \* settled step records, "pending" when there is none yet

vars == <<phase, results>>

Steps == 1 .. NSteps
Settled == {"completed", "skipped", "failed"}
Phases == {"absent", "queued", "processing", "completed", "failed", "purged"}

\* Legal status transitions. Terminal states have no successors.
Transitions == { <<"queued", "processing">>, <<"queued", "failed">>,
                 <<"processing", "completed">>, <<"processing", "failed">> }

NoResults == [s \in Steps |-> "pending"]

Broken(a) == \E c \in Critical : results[a][c] = "failed"
Whole(a)  == \A s \in Steps : results[a][s] # "pending"

Init ==
    /\ phase = [a \in Analyses |-> "absent"]
    /\ results = [a \in Analyses |-> NoResults]

Upload(a) ==
    /\ phase[a] = "absent"
    /\ phase' = [phase EXCEPT ![a] = "queued"]
    /\ UNCHANGED results

Move(a, to) ==
    /\ <<phase[a], to>> \in Transitions
    /\ to = "completed" => Whole(a) /\ ~Broken(a)
    /\ phase' = [phase EXCEPT ![a] = to]
    /\ UNCHANGED results

\* The next step in pipeline order settles; once a critical step has failed
\* the only thing left for a later step is to be skipped.
Settle(a, s, r) ==
    /\ phase[a] = "processing"
    /\ results[a][s] = "pending"
    /\ \A t \in 1 .. s - 1 : results[a][t] # "pending"
    /\ Broken(a) => r = "skipped"
    /\ results' = [results EXCEPT ![a][s] = r]
    /\ UNCHANGED phase

Remove(a) ==
    /\ phase[a] # "absent"
    /\ phase' = [phase EXCEPT ![a] = "purged"]
    /\ results' = [results EXCEPT ![a] = NoResults]

Next == \E a \in Analyses :
    \/ Upload(a)
    \/ \E to \in {"processing", "completed", "failed"} : Move(a, to)
    \/ \E s \in Steps, r \in Settled : Settle(a, s, r)
    \/ Remove(a)

Spec == Init /\ [][Next]_vars
=============================================================================
