------------------------- MODULE ProviderCacheProofs -------------------------
(***************************************************************************)
(* What is paid for a key, for any number of runs, users and keys.  The    *)
(* bound does not look at the past, so the invariant finds the payers in   *)
(* the present: while no fresh row exists, whoever has paid since the key  *)
(* expired still holds an answer it will be able to insert, or was         *)
(* interrupted; once there is a fresh row, only those that are calling     *)
(* already pay.                                                            *)
(***************************************************************************)
EXTENDS ProviderCache, TLAPS, FiniteSetTheorems

USE RunsAssumption

\* Runs that hold an answer for k and will be able to insert it: their DELETE has
\* still to look, or will find the row it has seen, or has made room.
Holds(r, k) ==
    /\ key[r] = k
    /\ \/ pc[r] = "replace"
       \/ pc[r] = "delete" /\ found[r] = "row"
       \/ pc[r] = "insert" /\ (cacheLock[k] = r \/ entry[k] = "none")
       \/ pc[r] \in {"record", "commit"} /\ found[r] = "mine"
Calls(r, k) == key[r] = k /\ pc[r] = "calling"

Holders(k) == {r \in Runs : Holds(r, k)}
Callers(k) == {r \in Runs : Calls(r, k)}
N == Cardinality(Runs)

PaidInv(k) ==
    /\ entry[k] # "fresh" => paid[k] <= Cardinality(Holders(k)) + interrupts
    /\ entry[k] = "fresh" => paid[k] + Cardinality(Callers(k)) <= N + interrupts

CacheInv == TypeOK /\ \A k \in Keys : PaidInv(k)

-----------------------------------------------------------------------------
(* Types *)

LEMMA TypeInit == Init => TypeOK
  BY DEF Init, TypeOK, Positions

LEMMA ReleaseTypes ==
    ASSUME TypeOK, NEW r \in Runs, Release(r)
    PROVE  /\ cacheLock' \in [Keys -> Runs \cup {"free"}]
           /\ usageLock' \in [Users -> Runs \cup {"free"}]
  BY DEF TypeOK, Release

LEMMA LoseTypes == ASSUME TypeOK, NEW r \in Runs, Lose(r) PROVE TypeOK'
<1>1. Release(r)  BY DEF Lose
<1>2. pc' \in [Runs -> Positions]  BY DEF Lose, Goto, TypeOK, Positions
<1>3. UNCHANGED <<entry, key, user, found, paid, interrupts>>  BY DEF Lose
<1>4. QED  BY <1>1, <1>2, <1>3, ReleaseTypes DEF TypeOK

LEMMA TypeStep == TypeOK /\ [Next]_vars => TypeOK'
<1> SUFFICES ASSUME TypeOK, [Next]_vars PROVE TypeOK'
  OBVIOUS
<1>1. ASSUME NEW r \in Runs, NEW k \in Keys, NEW u \in Users, Begin(r, k, u) PROVE TypeOK'
  BY <1>1 DEF TypeOK, Begin, Goto, Positions
<1>2. ASSUME NEW r \in Runs, Touch(r) PROVE TypeOK'
  BY <1>2 DEF TypeOK, Touch, Goto, Positions
<1>3. ASSUME NEW r \in Runs, TouchFails(r) \/ InsertFails(r) PROVE TypeOK'
  BY <1>3, LoseTypes DEF TouchFails, InsertFails
<1>4. ASSUME NEW r \in Runs, Delete(r) PROVE TypeOK'
  BY <1>4 DEF TypeOK, Delete, Goto, Positions
<1>5. ASSUME NEW r \in Runs, Insert(r) PROVE TypeOK'
  BY <1>5 DEF TypeOK, Insert, Goto, Positions
<1>6. ASSUME NEW r \in Runs, Record(r) PROVE TypeOK'
  BY <1>6 DEF TypeOK, Record, Goto, Positions
<1>7. ASSUME NEW r \in Runs, Lookup(r) PROVE TypeOK'
  BY <1>7 DEF TypeOK, Lookup, Goto, Positions
<1>8. ASSUME NEW r \in Runs, NEW complete \in BOOLEAN, Call(r, complete) PROVE TypeOK'
  <2>1. pc' \in [Runs -> Positions]  BY <1>8 DEF TypeOK, Call, Goto, Positions
  <2>2. paid' \in [Keys -> Nat]  BY <1>8 DEF TypeOK, Call
  <2>3. UNCHANGED <<entry, cacheLock, usageLock, key, user, found, interrupts>>  BY <1>8 DEF Call
  <2>4. QED  BY <2>1, <2>2, <2>3 DEF TypeOK
<1>9. ASSUME NEW r \in Runs, DeleteSees(r) PROVE TypeOK'
  BY <1>9 DEF TypeOK, DeleteSees, Goto, Positions
<1>10. ASSUME NEW r \in Runs, Commit(r) PROVE TypeOK'
  <2>1. pc' \in [Runs -> Positions] /\ Release(r)  BY <1>10 DEF TypeOK, Commit, Goto, Positions
  <2>2. entry' \in [Keys -> {"none", "fresh", "expired"}]  BY <1>10 DEF TypeOK, Commit
  <2>3. found' \in [Runs -> {"nothing", "row", "gone", "mine"}]  BY <1>10 DEF TypeOK, Commit
  <2>4. UNCHANGED <<key, user, paid, interrupts>>  BY <1>10 DEF Commit
  <2>5. QED  BY <2>1, <2>2, <2>3, <2>4, ReleaseTypes DEF TypeOK
<1>11. ASSUME NEW r \in Runs, Interrupted(r) PROVE TypeOK'
  <2>1. pc' \in [Runs -> Positions] /\ Release(r)  BY <1>11 DEF TypeOK, Interrupted, Goto, Positions
  <2>2. interrupts' \in 0 .. MaxInterrupts  BY <1>11 DEF TypeOK, Interrupted
  <2>3. UNCHANGED <<entry, key, user, found, paid>>  BY <1>11 DEF Interrupted
  <2>4. QED  BY <2>1, <2>2, <2>3, ReleaseTypes DEF TypeOK
<1>12. ASSUME NEW k \in Keys, Expire(k) PROVE TypeOK'
  BY <1>12 DEF TypeOK, Expire
<1>13. CASE UNCHANGED vars  BY <1>13 DEF vars, TypeOK
<1>14. QED
  BY <1>1, <1>2, <1>3, <1>4, <1>5, <1>6, <1>7, <1>8, <1>9, <1>10, <1>11, <1>12, <1>13
  DEF Next, Locks, Proceed

\* Every variable keeps to its type, for any runs, users and keys.
THEOREM TypeCorrect == Spec => []TypeOK
BY TypeInit, TypeStep, PTL DEF Spec

-----------------------------------------------------------------------------
(* Counting *)

LEMMA Counts ==
    /\ N \in Nat
    /\ \A T \in SUBSET Runs : /\ IsFiniteSet(T) /\ Cardinality(T) \in Nat /\ Cardinality(T) <= N
    /\ \A S, T \in SUBSET Runs : S \subseteq T => Cardinality(S) <= Cardinality(T)
    /\ \A S \in SUBSET Runs, r \in Runs :
          /\ r \notin S => Cardinality(S \cup {r}) = Cardinality(S) + 1
          /\ r \in S => Cardinality(S \ {r}) = Cardinality(S) - 1
    /\ \A S, T \in SUBSET Runs :
          S \cap T = {} => Cardinality(S) + Cardinality(T) <= N
<1>1. N \in Nat  BY FS_CardinalityType DEF N
<1>2. \A T \in SUBSET Runs : IsFiniteSet(T) /\ Cardinality(T) <= N  BY FS_Subset DEF N
<1>3. \A T \in SUBSET Runs : Cardinality(T) \in Nat  BY <1>2, FS_CardinalityType
<1>4. \A S, T \in SUBSET Runs : S \subseteq T => Cardinality(S) <= Cardinality(T)
  BY <1>2, FS_Subset
<1>5. \A S \in SUBSET Runs, r \in Runs : r \notin S => Cardinality(S \cup {r}) = Cardinality(S) + 1
  BY <1>2, FS_AddElement
<1>6. \A S \in SUBSET Runs, r \in Runs : r \in S => Cardinality(S \ {r}) = Cardinality(S) - 1
  BY <1>2, FS_RemoveElement
<1>7. ASSUME NEW S \in SUBSET Runs, NEW T \in SUBSET Runs, S \cap T = {}
      PROVE  Cardinality(S) + Cardinality(T) <= N
  <2>1. IsFiniteSet(S) /\ IsFiniteSet(T) /\ S \cup T \in SUBSET Runs  BY <1>2
  <2>2. Cardinality(S \cup T) = Cardinality(S) + Cardinality(T) - Cardinality(S \cap T)
    BY <2>1, FS_Union
  <2>3. Cardinality(S \cap T) = 0  BY <1>7, FS_EmptySet
  <2>4. Cardinality(S \cup T) <= N  BY <1>2, <2>1
  <2>5. QED  BY <1>3, <2>2, <2>3, <2>4
<1>8. QED  BY <1>1, <1>2, <1>3, <1>4, <1>5, <1>6, <1>7

\* A step that takes nobody out of the holders and nobody into the callers.
LEMMA NobodyPays ==
    ASSUME TypeOK, TypeOK', NEW k \in Keys, PaidInv(k),
           entry'[k] = entry[k], paid'[k] = paid[k], interrupts' >= interrupts,
           entry[k] # "fresh" => \A q \in Runs : Holds(q, k) => Holds(q, k)',
           entry[k] = "fresh" => \A q \in Runs : Calls(q, k)' => Calls(q, k)
    PROVE  PaidInv(k)'
<1>0. /\ Holders(k) \in SUBSET Runs /\ Callers(k) \in SUBSET Runs
      /\ Holders(k)' \in SUBSET Runs /\ Callers(k)' \in SUBSET Runs
  BY DEF Holders, Callers
<1>1. /\ paid[k] \in Nat /\ interrupts \in Nat /\ interrupts' \in Nat
      /\ N \in Nat
      /\ Cardinality(Holders(k)) \in Nat /\ Cardinality(Callers(k)) \in Nat
      /\ Cardinality(Holders(k)') \in Nat /\ Cardinality(Callers(k)') \in Nat
  BY <1>0, Counts DEF TypeOK
<1>2. CASE entry[k] # "fresh"
  <2>1. Holders(k) \subseteq Holders(k)'  BY <1>2 DEF Holders
  <2>2. Cardinality(Holders(k)) <= Cardinality(Holders(k)')  BY <1>0, <2>1, Counts
  <2>3. paid[k] <= Cardinality(Holders(k)) + interrupts  BY <1>2 DEF PaidInv
  <2>4. paid'[k] <= Cardinality(Holders(k)') + interrupts'  BY <1>1, <2>2, <2>3
  <2>5. QED  BY <1>2, <2>4 DEF PaidInv
<1>3. CASE entry[k] = "fresh"
  <2>1. Callers(k)' \subseteq Callers(k)  BY <1>3 DEF Callers
  <2>2. Cardinality(Callers(k)') <= Cardinality(Callers(k))  BY <1>0, <2>1, Counts
  <2>3. paid[k] + Cardinality(Callers(k)) <= N + interrupts  BY <1>3 DEF PaidInv
  <2>4. paid'[k] + Cardinality(Callers(k)') <= N + interrupts'  BY <1>1, <2>2, <2>3
  <2>5. N' = N  BY DEF N
  <2>6. QED  BY <1>3, <2>4, <2>5 DEF PaidInv
<1>4. QED  BY <1>2, <1>3

-----------------------------------------------------------------------------
(* Steps *)

\* What only moves run r, without taking an answer from it, is seen by nobody else.
LEMMA OneMoves ==
    ASSUME TypeOK, TypeOK', NEW r \in Runs, NEW k \in Keys, PaidInv(k),
           UNCHANGED <<entry, paid, interrupts>>,
           \A q \in Runs \ {r} : /\ pc'[q] = pc[q] /\ key'[q] = key[q] /\ found'[q] = found[q]
                                 /\ cacheLock[k] = q => cacheLock'[k] = q,
           Holds(r, k) => Holds(r, k)',
           entry[k] = "fresh" => (Calls(r, k)' => Calls(r, k))
    PROVE  PaidInv(k)'
<1>1. \A q \in Runs \ {r} : Holds(q, k) => Holds(q, k)'  BY DEF Holds
<1>2. \A q \in Runs \ {r} : Calls(q, k)' => Calls(q, k)  BY DEF Calls
<1>3. \A q \in Runs : Holds(q, k) => Holds(q, k)'  BY <1>1
<1>4. entry[k] = "fresh" => \A q \in Runs : Calls(q, k)' => Calls(q, k)  BY <1>2
<1>5. entry'[k] = entry[k] /\ paid'[k] = paid[k] /\ interrupts' >= interrupts  BY DEF TypeOK
<1>6. QED  BY <1>3, <1>4, <1>5, NobodyPays

\* A release takes rows from nobody but the one who ends.
LEMMA OthersKeepRows ==
    ASSUME TypeOK, NEW r \in Runs, Release(r), NEW k \in Keys, NEW q \in Runs \ {r}
    PROVE  cacheLock[k] = q => cacheLock'[k] = q
  BY DEF Release, TypeOK

LEMMA QuietSteps ==
    ASSUME TypeOK, TypeOK', NEW r \in Runs, NEW k \in Keys, PaidInv(k),
           \/ \E j \in Keys, u \in Users : Begin(r, j, u)
           \/ Touch(r) \/ TouchFails(r) \/ InsertFails(r) \/ Delete(r) \/ Insert(r) \/ Record(r)
           \/ Lookup(r) \/ DeleteSees(r)
    PROVE  PaidInv(k)'
<1>1. ASSUME NEW j \in Keys, NEW u \in Users, Begin(r, j, u) PROVE PaidInv(k)'
  <2>1. \A q \in Runs \ {r} : /\ pc'[q] = pc[q] /\ key'[q] = key[q] /\ found'[q] = found[q]
                              /\ cacheLock' = cacheLock
    BY <1>1 DEF Begin, Goto, TypeOK
  <2>2. pc[r] \in {"idle", "lost"} /\ pc'[r] = "lookup" /\ UNCHANGED <<entry, paid, interrupts>>
    BY <1>1 DEF Begin, Goto, TypeOK
  <2>3. ~Holds(r, k) /\ ~Calls(r, k)'  BY <2>2 DEF Holds, Calls
  <2>4. QED  BY <2>1, <2>2, <2>3, OneMoves
<1>2. ASSUME Touch(r) PROVE PaidInv(k)'
  <2>1. \A q \in Runs \ {r} : /\ pc'[q] = pc[q] /\ key'[q] = key[q] /\ found'[q] = found[q]
                              /\ cacheLock[k] = q => cacheLock'[k] = q
    <3>1. \A q \in Runs \ {r} : pc'[q] = pc[q]  BY <1>2 DEF Touch, Goto, TypeOK
    <3>2. UNCHANGED <<key, found>>  BY <1>2 DEF Touch
    <3>3. cacheLock[k] # "free" => cacheLock'[k] = cacheLock[k]  BY <1>2 DEF Touch, TypeOK
    <3>4. QED  BY <3>1, <3>2, <3>3
  <2>2. pc[r] = "touch" /\ pc'[r] = "record" /\ UNCHANGED <<entry, paid, interrupts>>
    BY <1>2 DEF Touch, Goto, TypeOK
  <2>3. ~Holds(r, k) /\ ~Calls(r, k)'  BY <2>2 DEF Holds, Calls
  <2>4. QED  BY <2>1, <2>2, <2>3, OneMoves
<1>3. ASSUME TouchFails(r) \/ InsertFails(r) PROVE PaidInv(k)'
  <2>1. Lose(r)  BY <1>3 DEF TouchFails, InsertFails
  <2>2. \A q \in Runs \ {r} : /\ pc'[q] = pc[q] /\ key'[q] = key[q] /\ found'[q] = found[q]
                              /\ cacheLock[k] = q => cacheLock'[k] = q
    BY <2>1, OthersKeepRows DEF Lose, Goto, TypeOK
  <2>3. pc'[r] = "lost" /\ UNCHANGED <<entry, paid, interrupts>>
    BY <2>1 DEF Lose, Goto, TypeOK
  <2>4. ~Holds(r, k)
    BY <1>3 DEF Holds, TouchFails, InsertFails, Vacant
  <2>5. ~Calls(r, k)'  BY <2>3 DEF Calls
  <2>6. QED  BY <2>2, <2>3, <2>4, <2>5, OneMoves
<1>4. ASSUME Delete(r) PROVE PaidInv(k)'
  <2>1. \A q \in Runs \ {r} : /\ pc'[q] = pc[q] /\ key'[q] = key[q] /\ found'[q] = found[q]
                              /\ cacheLock[k] = q => cacheLock'[k] = q
    <3>1. \A q \in Runs \ {r} : pc'[q] = pc[q]  BY <1>4 DEF Delete, Goto, TypeOK
    <3>2. UNCHANGED <<key, found>>  BY <1>4 DEF Delete
    <3>3. cacheLock[k] # "free" => cacheLock'[k] = cacheLock[k]  BY <1>4 DEF Delete, TypeOK
    <3>4. QED  BY <3>1, <3>2, <3>3
  <2>2. pc[r] = "delete" /\ pc'[r] = "insert" /\ UNCHANGED <<entry, paid, interrupts, key>>
    BY <1>4 DEF Delete, Goto, TypeOK
  <2>3. Holds(r, k) => Holds(r, k)'
    <3>1. found[r] = "row" /\ key[r] = k => cacheLock'[k] = r  BY <1>4 DEF Delete, TypeOK
    <3>2. QED  BY <2>2, <3>1 DEF Holds
  <2>4. ~Calls(r, k)'  BY <2>2 DEF Calls
  <2>5. QED  BY <2>1, <2>2, <2>3, <2>4, OneMoves
<1>5. ASSUME Insert(r) PROVE PaidInv(k)'
  <2>1. \A q \in Runs \ {r} : /\ pc'[q] = pc[q] /\ key'[q] = key[q] /\ found'[q] = found[q]
                              /\ cacheLock[k] = q => cacheLock'[k] = q
    <3>1. \A q \in Runs \ {r} : pc'[q] = pc[q] /\ found'[q] = found[q]
      BY <1>5 DEF Insert, Goto, TypeOK
    <3>2. UNCHANGED key  BY <1>5 DEF Insert
    <3>3. cacheLock[k] # "free" => cacheLock'[k] = cacheLock[k]  BY <1>5 DEF Insert, Vacant, TypeOK
    <3>4. QED  BY <3>1, <3>2, <3>3
  <2>2. pc'[r] = "record" /\ found'[r] = "mine" /\ UNCHANGED <<entry, paid, interrupts, key>>
    BY <1>5 DEF Insert, Goto, TypeOK
  <2>3. Holds(r, k) => Holds(r, k)'  BY <2>2 DEF Holds
  <2>4. ~Calls(r, k)'  BY <2>2 DEF Calls
  <2>5. QED  BY <2>1, <2>2, <2>3, <2>4, OneMoves
<1>6. ASSUME Record(r) PROVE PaidInv(k)'
  <2>1. \A q \in Runs \ {r} : pc'[q] = pc[q]  BY <1>6 DEF Record, Goto, TypeOK
  <2>2. /\ pc[r] = "record" /\ pc'[r] = "commit"
        /\ UNCHANGED <<entry, paid, interrupts, key, found, cacheLock>>
    BY <1>6 DEF Record, Goto, TypeOK
  <2>3. Holds(r, k) => Holds(r, k)'  BY <2>2 DEF Holds
  <2>4. ~Calls(r, k)'  BY <2>2 DEF Calls
  <2>5. QED  BY <2>1, <2>2, <2>3, <2>4, OneMoves
<1>7. ASSUME Lookup(r) PROVE PaidInv(k)'
  <2>1. \A q \in Runs \ {r} : pc'[q] = pc[q] /\ found'[q] = found[q]
    BY <1>7 DEF Lookup, Goto, TypeOK
  <2>2. /\ pc[r] = "lookup" /\ UNCHANGED <<entry, paid, interrupts, key, cacheLock>>
        /\ entry[key[r]] = "fresh" => pc'[r] = "touch"
    BY <1>7 DEF Lookup, Hit, Goto, TypeOK
  <2>3. ~Holds(r, k) /\ (entry[k] = "fresh" => ~Calls(r, k)')
    BY <2>2 DEF Holds, Calls
  <2>4. QED  BY <2>1, <2>2, <2>3, OneMoves
<1>8. ASSUME DeleteSees(r) PROVE PaidInv(k)'
  <2>1. \A q \in Runs \ {r} : pc'[q] = pc[q] /\ found'[q] = found[q]
    BY <1>8 DEF DeleteSees, Goto, TypeOK
  <2>2. /\ pc[r] = "replace" /\ UNCHANGED <<entry, paid, interrupts, key, cacheLock>>
        /\ \/ entry[key[r]] = "none" /\ pc'[r] = "insert"
           \/ pc'[r] = "delete" /\ found'[r] = "row"
    BY <1>8 DEF DeleteSees, Goto, TypeOK
  <2>3. (Holds(r, k) => Holds(r, k)') /\ ~Calls(r, k)'
    BY <2>2 DEF Holds, Calls
  <2>4. QED  BY <2>1, <2>2, <2>3, OneMoves
<1>9. QED  BY <1>1, <1>2, <1>3, <1>4, <1>5, <1>6, <1>7, <1>8

LEMMA CallStep ==
    ASSUME TypeOK, TypeOK', NEW r \in Runs, NEW complete \in BOOLEAN, Call(r, complete),
           NEW k \in Keys, PaidInv(k)
    PROVE  PaidInv(k)'
<1>1. /\ pc[r] = "calling" /\ pc'[r] \in {"replace", "record"} /\ (complete => pc'[r] = "replace")
      /\ UNCHANGED <<entry, cacheLock, key, found, interrupts>>
      /\ \A q \in Runs \ {r} : pc'[q] = pc[q]
  BY DEF Call, Goto, TypeOK
<1>2. \A q \in Runs \ {r} : (Holds(q, k) => Holds(q, k)') /\ (Calls(q, k)' => Calls(q, k))
  BY <1>1 DEF Holds, Calls
<1>3. ~Holds(r, k) /\ ~Calls(r, k)'  BY <1>1 DEF Holds, Calls
<1>4. CASE key[r] = k /\ complete
  <2>1. paid'[k] = paid[k] + 1  BY <1>4 DEF Call, TypeOK
  <2>2. Holds(r, k)' /\ Calls(r, k)  BY <1>1, <1>4 DEF Holds, Calls
  <2>3. /\ Holders(k) \in SUBSET Runs /\ Callers(k) \in SUBSET Runs
        /\ Holders(k)' \in SUBSET Runs /\ Callers(k)' \in SUBSET Runs
    BY DEF Holders, Callers
  <2>4. r \notin Holders(k) /\ Holders(k) \cup {r} \subseteq Holders(k)'
    BY <1>2, <1>3, <2>2 DEF Holders
  <2>5. r \in Callers(k) /\ Callers(k)' \subseteq Callers(k) \ {r}
    BY <1>2, <1>3, <2>2 DEF Callers
  <2>6. Holders(k) \cup {r} \in SUBSET Runs /\ Callers(k) \ {r} \in SUBSET Runs  BY <2>3
  <2>7. Cardinality(Holders(k)) + 1 <= Cardinality(Holders(k)')
    <3>1. Cardinality(Holders(k) \cup {r}) = Cardinality(Holders(k)) + 1  BY <2>3, <2>4, Counts
    <3>2. Cardinality(Holders(k) \cup {r}) <= Cardinality(Holders(k)')  BY <2>3, <2>4, <2>6, Counts
    <3>3. QED  BY <3>1, <3>2
  <2>8. Cardinality(Callers(k)') <= Cardinality(Callers(k)) - 1
    <3>1. Cardinality(Callers(k) \ {r}) = Cardinality(Callers(k)) - 1  BY <2>3, <2>5, Counts
    <3>2. Cardinality(Callers(k)') <= Cardinality(Callers(k) \ {r})  BY <2>3, <2>5, <2>6, Counts
    <3>3. QED  BY <3>1, <3>2
  <2>9. /\ paid[k] \in Nat /\ interrupts \in Nat /\ N \in Nat
        /\ Cardinality(Holders(k)) \in Nat /\ Cardinality(Callers(k)) \in Nat
        /\ Cardinality(Holders(k)') \in Nat /\ Cardinality(Callers(k)') \in Nat
    BY <2>3, Counts DEF TypeOK
  <2>10. entry[k] # "fresh" => paid'[k] <= Cardinality(Holders(k)') + interrupts
    BY <2>1, <2>7, <2>9 DEF PaidInv
  <2>11. entry[k] = "fresh" => paid'[k] + Cardinality(Callers(k)') <= N + interrupts
    BY <2>1, <2>8, <2>9 DEF PaidInv
  <2>12. entry' = entry /\ interrupts' = interrupts /\ N' = N  BY <1>1 DEF N
  <2>13. QED  BY <2>10, <2>11, <2>12 DEF PaidInv
<1>5. CASE ~(key[r] = k /\ complete)
  <2>1. paid'[k] = paid[k]
    <3>1. paid' = [paid EXCEPT ![key[r]] = @ + (IF complete THEN 1 ELSE 0)]  BY DEF Call
    <3>2. CASE key[r] # k  BY <3>1, <3>2 DEF TypeOK
    <3>3. CASE key[r] = k /\ ~complete
      <4>1. paid'[k] = paid[k] + 0  BY <3>1, <3>3 DEF TypeOK
      <4>2. QED  BY <4>1 DEF TypeOK
    <3>4. QED  BY <1>5, <3>2, <3>3
  <2>2. \A q \in Runs : (Holds(q, k) => Holds(q, k)') /\ (Calls(q, k)' => Calls(q, k))
    BY <1>2, <1>3
  <2>3. entry'[k] = entry[k] /\ interrupts' >= interrupts  BY <1>1 DEF TypeOK
  <2>4. QED  BY <2>1, <2>2, <2>3, NobodyPays
<1>6. QED  BY <1>4, <1>5

\* The commit of a row makes the key fresh: its holders, and those that still
\* call, are different runs.
LEMMA CommitStep ==
    ASSUME TypeOK, TypeOK', NEW r \in Runs, Commit(r), NEW k \in Keys, PaidInv(k)
    PROVE  PaidInv(k)'
<1>1. /\ pc[r] = "commit" /\ pc'[r] = "idle" /\ Release(r)
      /\ UNCHANGED <<key, paid, interrupts>>
      /\ \A q \in Runs \ {r} : pc'[q] = pc[q]
  BY DEF Commit, Goto, TypeOK
<1>2. ~Calls(r, k)' /\ \A q \in Runs \ {r} : Calls(q, k)' => Calls(q, k)
  BY <1>1 DEF Calls
<1>3. CASE found[r] = "mine" /\ key[r] = k
  <2>1. entry'[k] = "fresh"  BY <1>3 DEF Commit, TypeOK
  <2>2. /\ Holders(k) \in SUBSET Runs /\ Callers(k) \in SUBSET Runs /\ Callers(k)' \in SUBSET Runs
        /\ Holders(k) \cap Callers(k) = {} /\ Callers(k)' \subseteq Callers(k)
    BY <1>2 DEF Holders, Callers, Holds, Calls
  <2>3. /\ Cardinality(Holders(k)) + Cardinality(Callers(k)) <= N
        /\ Cardinality(Callers(k)') <= Cardinality(Callers(k))
        /\ Cardinality(Holders(k)) \in Nat /\ Cardinality(Callers(k)) \in Nat
        /\ Cardinality(Callers(k)') \in Nat /\ N \in Nat
    BY <2>2, Counts
  <2>4. paid[k] \in Nat /\ interrupts \in Nat  BY DEF TypeOK
  <2>5. paid[k] + Cardinality(Callers(k)') <= N + interrupts
    BY <2>3, <2>4 DEF PaidInv
  <2>6. N' = N  BY DEF N
  <2>7. QED  BY <1>1, <2>1, <2>5, <2>6 DEF PaidInv
<1>4. CASE ~(found[r] = "mine" /\ key[r] = k)
  <2>1. entry'[k] = entry[k]  BY <1>4 DEF Commit, TypeOK
  <2>2. \A q \in Runs : key[q] = k => found'[q] = found[q]
    BY <1>4 DEF Commit, TypeOK
  <2>3. ~Holds(r, k)  BY <1>1, <1>4 DEF Holds
  <2>4. \A q \in Runs \ {r} : Holds(q, k) => Holds(q, k)'
    BY <1>1, <2>1, <2>2, OthersKeepRows DEF Holds
  <2>5. \A q \in Runs : (Holds(q, k) => Holds(q, k)') /\ (Calls(q, k)' => Calls(q, k))
    BY <1>2, <2>3, <2>4
  <2>6. paid'[k] = paid[k] /\ interrupts' >= interrupts  BY <1>1 DEF TypeOK
  <2>7. QED  BY <2>1, <2>5, <2>6, NobodyPays
<1>5. QED  BY <1>3, <1>4

\* An interrupted run may have paid in vain: the bound grows with it.
LEMMA InterruptStep ==
    ASSUME TypeOK, TypeOK', NEW r \in Runs, Interrupted(r), NEW k \in Keys, PaidInv(k)
    PROVE  PaidInv(k)'
<1>1. /\ pc'[r] = "lost" /\ Release(r) /\ interrupts' = interrupts + 1
      /\ UNCHANGED <<entry, key, found, paid>>
      /\ \A q \in Runs \ {r} : pc'[q] = pc[q]
  BY DEF Interrupted, Goto, TypeOK
<1>2. \A q \in Runs \ {r} : (Holds(q, k) => Holds(q, k)') /\ (Calls(q, k)' => Calls(q, k))
  BY <1>1, OthersKeepRows DEF Holds, Calls
<1>3. ~Calls(r, k)'  BY <1>1 DEF Calls
<1>4. /\ Holders(k) \in SUBSET Runs /\ Callers(k) \in SUBSET Runs
      /\ Holders(k)' \in SUBSET Runs /\ Callers(k)' \in SUBSET Runs
      /\ Holders(k) \ {r} \in SUBSET Runs
      /\ Holders(k) \ {r} \subseteq Holders(k)' /\ Callers(k)' \subseteq Callers(k)
  BY <1>2, <1>3 DEF Holders, Callers
<1>5. /\ Cardinality(Holders(k)) \in Nat /\ Cardinality(Callers(k)) \in Nat
      /\ Cardinality(Holders(k)') \in Nat /\ Cardinality(Callers(k)') \in Nat /\ N \in Nat
      /\ Cardinality(Holders(k) \ {r}) <= Cardinality(Holders(k)')
      /\ Cardinality(Callers(k)') <= Cardinality(Callers(k))
  BY <1>4, Counts
<1>6. Cardinality(Holders(k)) <= Cardinality(Holders(k)') + 1
  <2>1. CASE r \in Holders(k)
    <3>1. Cardinality(Holders(k) \ {r}) = Cardinality(Holders(k)) - 1  BY <1>4, <2>1, Counts
    <3>2. QED  BY <1>5, <3>1
  <2>2. CASE r \notin Holders(k)
    <3>1. Holders(k) \ {r} = Holders(k)  BY <2>2
    <3>2. QED  BY <1>5, <3>1
  <2>3. QED  BY <2>1, <2>2
<1>7. paid[k] \in Nat /\ interrupts \in Nat  BY DEF TypeOK
<1>8. entry[k] # "fresh" => paid[k] <= Cardinality(Holders(k)') + (interrupts + 1)
  BY <1>5, <1>6, <1>7 DEF PaidInv
<1>9. entry[k] = "fresh" => paid[k] + Cardinality(Callers(k)') <= N + (interrupts + 1)
  BY <1>5, <1>7 DEF PaidInv
<1>10. N' = N  BY DEF N
<1>11. QED  BY <1>1, <1>8, <1>9, <1>10 DEF PaidInv

LEMMA ExpireStep ==
    ASSUME TypeOK, TypeOK', NEW j \in Keys, Expire(j), NEW k \in Keys, PaidInv(k)
    PROVE  PaidInv(k)'
<1>1. UNCHANGED <<cacheLock, pc, key, found, interrupts>>  BY DEF Expire
<1>2. CASE j = k
  <2>1. entry'[k] = "expired" /\ paid'[k] = 0  BY <1>2 DEF Expire, TypeOK
  <2>2. Holders(k)' \in SUBSET Runs  BY DEF Holders
  <2>3. 0 <= Cardinality(Holders(k)') + interrupts'
    <3>1. Cardinality(Holders(k)') \in Nat  BY <2>2, Counts
    <3>2. QED  BY <3>1 DEF TypeOK
  <2>4. QED  BY <2>1, <2>3 DEF PaidInv
<1>3. CASE j # k
  <2>1. entry'[k] = entry[k] /\ paid'[k] = paid[k]  BY <1>3 DEF Expire, TypeOK
  <2>2. \A q \in Runs : (Holds(q, k) => Holds(q, k)') /\ (Calls(q, k)' => Calls(q, k))
    BY <1>1, <2>1 DEF Holds, Calls
  <2>3. interrupts' >= interrupts  BY <1>1 DEF TypeOK
  <2>4. QED  BY <2>1, <2>2, <2>3, NobodyPays
<1>4. QED  BY <1>2, <1>3

-----------------------------------------------------------------------------
(* The theorem *)

LEMMA CacheInit == Init => CacheInv
<1> SUFFICES ASSUME Init, NEW k \in Keys PROVE PaidInv(k)
  BY TypeInit DEF CacheInv
<1>1. entry[k] = "none" /\ paid[k] = 0 /\ interrupts = 0  BY DEF Init
<1>2. Cardinality(Holders(k)) \in Nat
  <2>1. Holders(k) \in SUBSET Runs  BY DEF Holders
  <2>2. QED  BY <2>1, Counts
<1>3. QED  BY <1>1, <1>2 DEF PaidInv

LEMMA CacheStep == CacheInv /\ [Next]_vars => CacheInv'
<1> SUFFICES ASSUME CacheInv, [Next]_vars PROVE CacheInv'
  OBVIOUS
<1>0. TypeOK /\ TypeOK'  BY TypeStep DEF CacheInv
<1>1. ASSUME NEW k \in Keys PROVE PaidInv(k)'
  <2>0. PaidInv(k)  BY DEF CacheInv
  <2>1. CASE \E r \in Runs : Locks(r) \/ \E j \in Keys, u \in Users : Begin(r, j, u)
    BY <1>0, <2>0, <2>1, QuietSteps DEF Locks
  <2>2. CASE \E r \in Runs : Proceed(r)
    BY <1>0, <2>0, <2>2, QuietSteps, CallStep, CommitStep DEF Proceed
  <2>3. CASE \E r \in Runs : Interrupted(r)  BY <1>0, <2>0, <2>3, InterruptStep
  <2>4. CASE \E j \in Keys : Expire(j)  BY <1>0, <2>0, <2>4, ExpireStep
  <2>5. CASE UNCHANGED vars
    BY <2>0, <2>5 DEF vars, PaidInv, Holders, Callers, Holds, Calls, N
  <2>6. QED  BY <2>1, <2>2, <2>3, <2>4, <2>5 DEF Next
<1>2. QED  BY <1>0, <1>1 DEF CacheInv

\* Between two expiries of a key at most one complete answer is paid for per worker,
\* and one more per interrupted step, however many steps each worker runs.
THEOREM RepeatsStayFree == Spec => []RepeatsAreFree
<1>1. CacheInv => RepeatsAreFree
  <2> SUFFICES ASSUME CacheInv, NEW k \in Keys PROVE paid[k] <= N + interrupts
    BY DEF RepeatsAreFree, N
  <2>1. Holders(k) \in SUBSET Runs /\ Callers(k) \in SUBSET Runs  BY DEF Holders, Callers
  <2>2. /\ Cardinality(Holders(k)) \in Nat /\ Cardinality(Holders(k)) <= N /\ N \in Nat
        /\ Cardinality(Callers(k)) \in Nat /\ paid[k] \in Nat /\ interrupts \in Nat
    BY <2>1, Counts DEF CacheInv, TypeOK
  <2>3. QED  BY <2>2 DEF CacheInv, PaidInv
<1> QED BY <1>1, CacheInit, CacheStep, PTL DEF Spec
=============================================================================
