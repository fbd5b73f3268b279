---------------------------- MODULE ProviderCache ----------------------------
(***************************************************************************)
(* The provider results that pipeline runs share: one row per content and  *)
(* model, looked up before a paid call, replaced after it, in the          *)
(* transaction of the step that goes on to record the call on its owner's  *)
(* usage row.  Runs of different users meet at the cache row, runs of one  *)
(* user at the usage row as well, and each row stays locked until the      *)
(* step's commit.  The database is read committed: a DELETE takes the rows *)
(* its snapshot sees, waits for those that are locked and skips those that *)
(* are gone by then; an INSERT waits for an uncommitted one of its key and *)
(* fails if that is committed.                                             *)
(***************************************************************************)
EXTENDS Naturals, FiniteSets

CONSTANTS Runs,         \* pipeline workers, each with one paid step at a time
          Users,        \* owners of the analyses
          Keys,         \* sha256(provider | operation | model | content)
          MaxInterrupts \* bound: steps whose process stops

ASSUME RunsAssumption ==
    /\ IsFiniteSet(Runs) /\ "free" \notin Runs
    /\ MaxInterrupts \in Nat

VARIABLES entry,        \* the committed row of a key
          cacheLock,    \* who has changed it and not committed
          usageLock,    \* who has changed the user's usage row and not committed
          pc, key, user,\* each run's position, and what its step is about
          found,        \* the row a run has read or its DELETE has seen
          paid,         \* complete answers paid for since the key last expired
          interrupts

vars == <<entry, cacheLock, usageLock, pc, key, user, found, paid, interrupts>>

Positions == {"idle", "lookup", "touch", "calling", "replace", "delete", "insert",
              "record", "commit", "lost"}
Under(r) == pc[r] \notin {"idle", "lost"}

Init ==
    /\ entry = [k \in Keys |-> "none"]
    /\ cacheLock = [k \in Keys |-> "free"]
    /\ usageLock = [u \in Users |-> "free"]
    /\ pc = [r \in Runs |-> "idle"]
    /\ key \in [Runs -> Keys] /\ user \in [Runs -> Users]
    /\ found = [r \in Runs |-> "nothing"]
    /\ paid = [k \in Keys |-> 0]
    /\ interrupts = 0

Goto(r, label) == pc' = [pc EXCEPT ![r] = label]

\* The end of a transaction, committed or rolled back.
Release(r) ==
    /\ cacheLock' = [k \in Keys |-> IF cacheLock[k] = r THEN "free" ELSE cacheLock[k]]
    /\ usageLock' = [u \in Users |-> IF usageLock[u] = r THEN "free" ELSE usageLock[u]]

\* A flush the database refuses: the session is unusable, the run is over.
Lose(r) ==
    /\ Goto(r, "lost")
    /\ Release(r)
    /\ UNCHANGED <<entry, key, user, found, paid, interrupts>>

-----------------------------------------------------------------------------
(* get *)

Begin(r, k, u) ==
    /\ pc[r] \in {"idle", "lost"}
    /\ Goto(r, "lookup")
    /\ key' = [key EXCEPT ![r] = k]
    /\ user' = [user EXCEPT ![r] = u]
    /\ found' = [found EXCEPT ![r] = "nothing"]
    /\ UNCHANGED <<entry, cacheLock, usageLock, paid, interrupts>>

HitNever(k) == FALSE                                                        \* mutant
\* There is a row for the key and its expires_at lies ahead.
Hit(k) == entry[k] = "fresh"

Lookup(r) ==
    /\ pc[r] = "lookup"
    /\ IF Hit(key[r])
       THEN Goto(r, "touch") /\ found' = [found EXCEPT ![r] = "row"]
       ELSE Goto(r, "calling") /\ UNCHANGED found
    /\ UNCHANGED <<entry, cacheLock, usageLock, key, user, paid, interrupts>>

\* hit_count and last_hit_at are written to the row that was read; when it has
\* been replaced meanwhile no row matches, and the flush fails.
Touch(r) ==
    /\ pc[r] = "touch"
    /\ cacheLock[key[r]] = "free"
    /\ found[r] = "row"
    /\ cacheLock' = [cacheLock EXCEPT ![key[r]] = r]
    /\ Goto(r, "record")
    /\ UNCHANGED <<entry, usageLock, key, user, found, paid, interrupts>>

TouchFails(r) ==
    /\ pc[r] = "touch"
    /\ cacheLock[key[r]] = "free"
    /\ found[r] = "gone"
    /\ Lose(r)

-----------------------------------------------------------------------------
(* The paid call, and set *)

CallAfterRecord(r, complete) ==                                             \* mutant
    /\ pc[r] = "calling"
    /\ usageLock[user[r]] = "free"
    /\ usageLock' = [usageLock EXCEPT ![user[r]] = r]
    /\ paid' = [paid EXCEPT ![key[r]] = @ + (IF complete THEN 1 ELSE 0)]
    /\ Goto(r, IF complete THEN "replace" ELSE "record")
    /\ UNCHANGED <<entry, cacheLock, key, user, found, interrupts>>

\* Failures and incomplete search results are recorded and not cached.
Call(r, complete) ==
    /\ pc[r] = "calling"
    /\ paid' = [paid EXCEPT ![key[r]] = @ + (IF complete THEN 1 ELSE 0)]
    /\ Goto(r, IF complete THEN "replace" ELSE "record")
    /\ UNCHANGED <<entry, cacheLock, usageLock, key, user, found, interrupts>>

DeleteSeesStatus(r) ==                                                      \* mutant
    /\ pc[r] = "replace"
    /\ Goto(r, "delete") /\ found' = [found EXCEPT ![r] = entry[key[r]]]
    /\ UNCHANGED <<entry, cacheLock, usageLock, key, user, paid, interrupts>>

\* DELETE WHERE cache_key = key: the row it sees ...
DeleteSees(r) ==
    /\ pc[r] = "replace"
    /\ IF entry[key[r]] = "none"
       THEN Goto(r, "insert") /\ UNCHANGED found
       ELSE Goto(r, "delete") /\ found' = [found EXCEPT ![r] = "row"]
    /\ UNCHANGED <<entry, cacheLock, usageLock, key, user, paid, interrupts>>

\* ... is locked and deleted, unless somebody else has done so.
Delete(r) ==
    /\ pc[r] = "delete"
    /\ cacheLock[key[r]] = "free"
    /\ cacheLock' = [cacheLock EXCEPT ![key[r]] = IF found[r] = "row" THEN r ELSE "free"]
    /\ Goto(r, "insert")
    /\ UNCHANGED <<entry, usageLock, key, user, found, paid, interrupts>>

Vacant(r) ==
    \/ cacheLock[key[r]] = r
    \/ cacheLock[key[r]] = "free" /\ entry[key[r]] = "none"

Insert(r) ==
    /\ pc[r] = "insert"
    /\ Vacant(r)
    /\ cacheLock' = [cacheLock EXCEPT ![key[r]] = r]
    /\ Goto(r, "record")
    /\ found' = [found EXCEPT ![r] = "mine"]
    /\ UNCHANGED <<entry, usageLock, key, user, paid, interrupts>>

InsertFails(r) ==
    /\ pc[r] = "insert"
    /\ cacheLock[key[r]] = "free" /\ ~Vacant(r)
    /\ Lose(r)

-----------------------------------------------------------------------------
(* The step's record and commit *)

\* record_provider_call: the usage row is there already.
Record(r) ==
    /\ pc[r] = "record"
    /\ usageLock[user[r]] \in {"free", r}
    /\ usageLock' = [usageLock EXCEPT ![user[r]] = r]
    /\ Goto(r, "commit")
    /\ UNCHANGED <<entry, cacheLock, key, user, found, paid, interrupts>>

\* A replaced row is gone for those who have read it.
Commit(r) ==
    /\ pc[r] = "commit"
    /\ IF found[r] = "mine"
       THEN /\ entry' = [entry EXCEPT ![key[r]] = "fresh"]
            /\ found' = [q \in Runs |-> IF q # r /\ key[q] = key[r] /\ found[q] = "row"
                                        THEN "gone" ELSE found[q]]
       ELSE UNCHANGED <<entry, found>>
    /\ Release(r)
    /\ Goto(r, "idle")
    /\ UNCHANGED <<key, user, paid, interrupts>>

Interrupted(r) ==
    /\ Under(r)
    /\ interrupts < MaxInterrupts
    /\ interrupts' = interrupts + 1
    /\ Goto(r, "lost")
    /\ Release(r)
    /\ UNCHANGED <<entry, key, user, found, paid>>

-----------------------------------------------------------------------------

\* provider_cache_ttl_hours after the write.
Expire(k) ==
    /\ entry[k] = "fresh"
    /\ entry' = [entry EXCEPT ![k] = "expired"]
    /\ paid' = [paid EXCEPT ![k] = 0]
    /\ UNCHANGED <<cacheLock, usageLock, pc, key, user, found, interrupts>>

Locks(r) ==
    \/ Touch(r) \/ TouchFails(r)
    \/ Delete(r)
    \/ Insert(r) \/ InsertFails(r)
    \/ Record(r)

Proceed(r) ==
    \/ Lookup(r)
    \/ \E complete \in BOOLEAN : Call(r, complete)
    \/ DeleteSees(r)
    \/ Commit(r)

Next ==
    \/ \E r \in Runs : \/ \E k \in Keys, u \in Users : Begin(r, k, u)
                       \/ Locks(r) \/ Proceed(r) \/ Interrupted(r)
    \/ \E k \in Keys : Expire(k)

Spec == Init /\ [][Next]_vars

\* Steps go on, providers answer or time out, and the database grants a lock to
\* those who wait for it in turn.
FairSpec ==
    /\ Spec
    /\ \A r \in Runs : WF_vars(Proceed(r)) /\ SF_vars(Locks(r))
-----------------------------------------------------------------------------

TypeOK ==
    /\ entry \in [Keys -> {"none", "fresh", "expired"}]
    /\ cacheLock \in [Keys -> Runs \cup {"free"}]
    /\ usageLock \in [Users -> Runs \cup {"free"}]
    /\ pc \in [Runs -> Positions]
    /\ key \in [Runs -> Keys]
    /\ user \in [Runs -> Users]
    /\ found \in [Runs -> {"nothing", "row", "gone", "mine"}]
    /\ paid \in [Keys -> Nat]
    /\ interrupts \in 0 .. MaxInterrupts

\* "Repeats of the same content through the same model cost nothing": between two
\* expiries of a key nobody pays a second complete answer, except those whose
\* lookup came before the first one was committed, at most once per worker, and
\* those whose step was interrupted; losing the race for the row does not make a
\* worker pay again.
RepeatsAreFree == \A k \in Keys : paid[k] <= Cardinality(Runs) + interrupts

\* A step that holds the cache row waits for the usage row, and others wait for
\* both: every step ends, because all of them take the two rows in this order.
EveryStepEnds == \A r \in Runs : Under(r) ~> ~Under(r)
=============================================================================
