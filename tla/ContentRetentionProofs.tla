----------------------- MODULE ContentRetentionProofs -----------------------
(***************************************************************************)
(* What ContentRetention says about originals and other objects holds for  *)
(* any number of analyses, reports and concurrent sweeps, and any number   *)
(* of interrupted actors and failed removals.                              *)
(***************************************************************************)
EXTENDS ContentRetention, TLAPS

USE SettingsAssumption

\* The keys rows list are kinds of objects.
LEMMA KeysType ==
    ASSUME TypeOK, NEW a \in Analyses
    PROVE  ObjectKeys(a) \subseteq Kinds
BY DEF TypeOK, ObjectKeys, Kinds

\* A removal takes at most one object, or counts one more failure.
LEMMA RemoveType ==
    ASSUME TypeOK, NEW a, NEW k, Remove(a, k)
    PROVE  store' \subseteq Analyses \X Kinds /\ storageFaults' \in 0 .. MaxStorageFaults
BY DEF TypeOK, Remove

\* An interruption is counted.
LEMMA InterruptType ==
    ASSUME TypeOK, Interrupt
    PROVE  interrupts' \in 0 .. MaxInterrupts
BY DEF TypeOK, Interrupt

\* What the upload, the run and the owner change.
LEMMA RowType ==
    ASSUME TypeOK, NEW a \in Analyses,
           \/ Upload(a) \/ Work(a) \/ WorkerInterrupted(a)
           \/ SoftDelete(a) \/ DeleteObjects(a) \/ DeleteInterrupted(a)
           \/ \E keep \in BOOLEAN : Keep(a, keep)
           \/ \E d \in Deadlines : Reaches(a, d)
    PROVE  TypeOK'
<1> USE DEF TypeOK
<1>1. CASE UploadPut(a)
  BY <1>1 DEF UploadPut, Kinds
<1>2. CASE UploadCommit(a)
  BY <1>2 DEF UploadCommit, Kinds
<1>3. CASE UploadInterrupted(a)
  BY <1>3, InterruptType DEF UploadInterrupted
<1>4. CASE WorkerStart(a) \/ WorkerRaises(a)
  BY <1>4 DEF WorkerStart, WorkerRaises, WorkerStates
<1>5. CASE WorkerPut(a)
  BY <1>5 DEF WorkerPut, WorkerStates, Kinds
<1>6. CASE WorkerCommit(a)
  BY <1>6 DEF WorkerCommit, WorkerStates, Kinds
<1>7. CASE WorkerInterrupted(a)
  BY <1>7, InterruptType DEF WorkerInterrupted, WorkerStates
<1>8. CASE SoftDelete(a)
  BY <1>8 DEF SoftDelete
<1>9. CASE DeleteList(a)
  BY <1>9, KeysType DEF DeleteList
<1>10. CASE DeleteRemove(a)
  <2>1. PICK k \in deleter[a].keys :
            Remove(a, k) /\ deleter' = [deleter EXCEPT ![a].keys = @ \ {k}]
    BY <1>10 DEF DeleteRemove
  <2>2. deleter' \in [Analyses -> [phase : {"idle", "list", "remove"}, keys : SUBSET Kinds]]
    BY <2>1
  <2> QED BY <1>10, <2>1, <2>2, RemoveType DEF DeleteRemove
<1>11. CASE DeleteInterrupted(a)
  BY <1>11, InterruptType DEF DeleteInterrupted
<1>12. ASSUME NEW keep \in BOOLEAN, Keep(a, keep) PROVE TypeOK'
  <2>1. kept' \in [Analyses -> {"no", "inTime", "late"}]
    BY <1>12 DEF Keep
  <2> QED BY <1>12, <2>1 DEF Keep
<1>13. ASSUME NEW d \in Deadlines, Reaches(a, d) PROVE TypeOK'
  BY <1>13 DEF Reaches
<1> QED
  BY <1>1, <1>2, <1>3, <1>4, <1>5, <1>6, <1>7, <1>8, <1>9, <1>10, <1>11, <1>12, <1>13
  DEF Upload, Work, DeleteObjects

\* What a report request changes.
LEMMA ReportType ==
    ASSUME TypeOK, NEW a \in Analyses, NEW r \in Reports,
           ReportStart(a, r) \/ RenderReport(a, r) \/ ReportInterrupted(a, r)
    PROVE  TypeOK'
<1>1. ASSUME NEW s \in ReportStates, SetReport(a, r, s)
      PROVE  reports' \in [Analyses -> [Reports -> ReportStates]]
  BY <1>1 DEF SetReport, TypeOK
<1> USE DEF TypeOK
<1>2. CASE ReportStart(a, r)
  BY <1>1, <1>2 DEF ReportStart, ReportStates
<1>3. CASE ReportPut(a, r)
  BY <1>1, <1>3 DEF ReportPut, ReportStates, Kinds
<1>4. CASE ReportCommit(a, r)
  <2>1. (IF row[a] = "purged" THEN "lost" ELSE "completed") \in ReportStates
    BY DEF ReportStates
  <2> QED BY <1>1, <1>4, <2>1 DEF ReportCommit
<1>5. CASE ReportInterrupted(a, r)
  BY <1>1, <1>5, InterruptType DEF ReportInterrupted, ReportStates
<1> QED BY <1>2, <1>3, <1>4, <1>5 DEF RenderReport

\* What a sweep changes.
LEMMA SweepType ==
    ASSUME TypeOK, NEW w \in Sweepers, Sweep(w) \/ SweepInterrupted(w)
    PROVE  TypeOK'
<1>0. ASSUME NEW new \in SweepStates, sweep' = [sweep EXCEPT ![w] = new]
      PROVE  sweep' \in [Sweepers -> SweepStates]
  BY <1>0 DEF TypeOK
<1>10. sweep[w] \in SweepStates
  BY DEF TypeOK
<1>1. ASSUME NEW p \in {"idle", "expire", "retire", "purge"}
      PROVE  Begin(p) \in SweepStates
  BY DEF Begin, SweepStates
<1>2. CASE SweepStart(w)
  BY <1>0, <1>1, <1>2 DEF SweepStart, TypeOK
<1>3. CASE SweepList(w)
  <2>1. sweep[w].phase \in {"expire", "retire", "purge"}
    BY <1>3, <1>10 DEF SweepList, SweepStates
  <2>2. Listed(sweep[w].phase) \subseteq Analyses
    BY <2>1 DEF Listed
  <2>3. sweep' = [sweep EXCEPT ![w] = [sweep[w] EXCEPT !.listed = TRUE,
                                                       !.todo = Listed(sweep[w].phase)]]
    BY <1>3 DEF SweepList
  <2>4. [sweep[w] EXCEPT !.listed = TRUE, !.todo = Listed(sweep[w].phase)] \in SweepStates
    BY <1>10, <2>2 DEF SweepStates
  <2>5. sweep' \in [Sweepers -> SweepStates]
    BY <1>0, <2>3, <2>4
  <2> QED BY <1>3, <2>5 DEF SweepList, TypeOK
<1>4. ASSUME NEW a \in Analyses, SweepItem(w, a) PROVE TypeOK'
  <2> DEFINE new == [sweep[w] EXCEPT !.cur = {a}, !.todo = @ \ {a},
                                     !.keys = ObjectKeys(a), !.failed = FALSE]
  <2>1. sweep' = [sweep EXCEPT ![w] = new]
    BY <1>4 DEF SweepItem
  <2>2. new \in SweepStates
    BY <1>10, KeysType DEF SweepStates
  <2>3. sweep' \in [Sweepers -> SweepStates]
    BY <1>0, <2>1, <2>2
  <2> QED BY <1>4, <2>3 DEF SweepItem, TypeOK
<1>5. ASSUME NEW a \in Analyses, SweepRemove(w, a) PROVE TypeOK'
  <2>1. PICK k \in sweep[w].keys :
            /\ Remove(a, k)
            /\ sweep' = [sweep EXCEPT ![w].keys = @ \ {k},
                                      ![w].failed = @ \/ storageFaults' # storageFaults]
    BY <1>5 DEF SweepRemove
  <2> DEFINE bad == sweep[w].failed \/ storageFaults' # storageFaults
             new == [sweep[w] EXCEPT !.keys = @ \ {k}, !.failed = bad]
  <2>2. sweep' = [sweep EXCEPT ![w] = new]
    BY <2>1
  <2>3. bad \in BOOLEAN
    BY <1>10 DEF SweepStates
  <2> HIDE DEF bad
  <2>4. new \in SweepStates
    BY <1>10, <2>3 DEF SweepStates
  <2>5. sweep' \in [Sweepers -> SweepStates]
    BY <1>0, <2>2, <2>4
  <2> QED BY <1>5, <2>1, <2>5, RemoveType DEF SweepRemove, TypeOK
<1>6. ASSUME NEW a \in Analyses, SweepMark(w, a) PROVE TypeOK'
  <2> DEFINE filed == {r \in Reports : reports[a][r] = "completed"}
             m == IF ItemDone(w) THEN sweep[w].marks \cup {a} ELSE sweep[w].marks
             t == IF ItemDone(w) /\ sweep[w].phase = "expire"
                  THEN sweep[w].stale \cup ({a} \X filed) ELSE sweep[w].stale
             new == [sweep[w] EXCEPT !.cur = {}, !.marks = m, !.stale = t]
  <2>1. sweep' = [sweep EXCEPT ![w] = new]
    BY <1>6 DEF SweepMark
  <2>2. m \subseteq Analyses
    BY <1>10 DEF SweepStates
  <2>3. t \subseteq Analyses \X Reports
    BY <1>10 DEF SweepStates
  <2> HIDE DEF m, t
  <2>4. new \in SweepStates
    BY <1>10, <2>2, <2>3 DEF SweepStates
  <2>5. sweep' \in [Sweepers -> SweepStates]
    BY <1>0, <2>1, <2>4
  <2> QED BY <1>6, <2>5 DEF SweepMark, TypeOK
<1>7. CASE SweepCommit(w)
  <2>1. sweep[w].phase \in {"expire", "retire", "purge"}
    BY <1>7, <1>10 DEF SweepCommit, PassDone, SweepStates
  <2>2. After(sweep[w].phase) \in {"idle", "retire", "purge"}
    BY <2>1 DEF After
  <2>3. sweep' = [sweep EXCEPT ![w] = Begin(After(sweep[w].phase))]
        /\ UNCHANGED <<kept, store, worker, deleter, interrupts, storageFaults>>
    BY <1>7 DEF SweepCommit
  <2>4. sweep' \in [Sweepers -> SweepStates]
    BY <1>0, <1>1, <2>2, <2>3
  <2>5. ASSUME NEW marks, NEW stale, CommitExpire(marks, stale)
        PROVE  /\ expired' \in [Analyses -> BOOLEAN]
               /\ reports' \in [Analyses -> [Reports -> ReportStates]]
               /\ UNCHANGED <<row, time, files>>
    BY <2>5 DEF CommitExpire, ReportStates, TypeOK
  <2>6. ASSUME NEW marks, CommitRetire(marks)
        PROVE  /\ row' \in [Analyses -> {"absent", "uploading", "abandoned", "live",
                                         "deleted", "purged"}]
               /\ expired' \in [Analyses -> BOOLEAN]
               /\ time' \in [Analyses -> SUBSET Deadlines]
               /\ UNCHANGED <<files, reports>>
    BY <2>6 DEF CommitRetire, TypeOK
  <2>7. ASSUME NEW marks, CommitPurge(marks)
        PROVE  /\ row' \in [Analyses -> {"absent", "uploading", "abandoned", "live",
                                         "deleted", "purged"}]
               /\ files' \in [Analyses -> SUBSET Kinds]
               /\ reports' \in [Analyses -> [Reports -> ReportStates]]
               /\ UNCHANGED <<expired, time>>
    BY <2>7 DEF CommitPurge, ReportStates, TypeOK
  <2>8. CASE sweep[w].phase = "expire"
    BY <1>7, <2>3, <2>4, <2>5, <2>8 DEF SweepCommit, TypeOK
  <2>9. CASE sweep[w].phase = "retire"
    BY <1>7, <2>3, <2>4, <2>6, <2>9 DEF SweepCommit, TypeOK
  <2>10. CASE sweep[w].phase = "purge"
    BY <1>7, <2>3, <2>4, <2>7, <2>10 DEF SweepCommit, TypeOK
  <2> QED BY <2>1, <2>8, <2>9, <2>10
<1>8. CASE SweepFails(w)
  BY <1>0, <1>1, <1>8 DEF SweepFails, Idle, TypeOK
<1>9. CASE SweepInterrupted(w)
  BY <1>0, <1>1, <1>9, InterruptType DEF SweepInterrupted, Idle, TypeOK
<1> QED BY <1>2, <1>3, <1>4, <1>5, <1>6, <1>7, <1>8, <1>9 DEF Sweep

\* Every step keeps the variables in their types.
LEMMA TypeStep == TypeOK /\ [Next]_vars => TypeOK'
<1> SUFFICES ASSUME TypeOK, [Next]_vars PROVE TypeOK'
  OBVIOUS
<1>1. ASSUME NEW a \in Analyses,
             \/ Upload(a) \/ Work(a) \/ WorkerInterrupted(a)
             \/ SoftDelete(a) \/ DeleteObjects(a) \/ DeleteInterrupted(a)
             \/ \E keep \in BOOLEAN : Keep(a, keep)
             \/ \E d \in Deadlines : Reaches(a, d)
      PROVE  TypeOK'
  BY <1>1, RowType
<1>2. ASSUME NEW a \in Analyses, NEW r \in Reports,
             ReportStart(a, r) \/ RenderReport(a, r) \/ ReportInterrupted(a, r)
      PROVE  TypeOK'
  BY <1>2, ReportType
<1>3. ASSUME NEW w \in Sweepers, Sweep(w) \/ SweepInterrupted(w) PROVE TypeOK'
  BY <1>3, SweepType
<1>4. CASE UNCHANGED vars
  BY <1>4 DEF vars, TypeOK
<1> QED BY <1>1, <1>2, <1>3, <1>4 DEF Next

LEMMA TypeInit == Init => TypeOK
BY DEF Init, TypeOK, Kinds, ReportStates, WorkerStates, SweepStates, Idle, Begin

\* The variables of the model keep their types: rows, objects, requests and
\* sweeps are always in one of their states.
THEOREM TypeCorrect == Spec => []TypeOK
BY TypeInit, TypeStep, PTL DEF Spec
-----------------------------------------------------------------------------

\* MarksAreTrue and ExpiredOriginalIsGone by analysis and by sweep, and a sweep
\* works on one item at a time.
RowTrue(a) ==
    /\ row[a] \in {"live", "deleted"} => "original" \in files[a]
    /\ row[a] = "purged" => Gone(a)
    /\ expired[a] => Uploaded(a)
    /\ Visible(a) /\ expired[a] => Gone(a)

ItemTrue(w, a) ==
    /\ a \in sweep[w].todo \cup sweep[w].cur \cup sweep[w].marks => Uploaded(a)
    /\ sweep[w].phase \in {"expire", "purge"} /\ a \in sweep[w].marks => Gone(a)
    /\ sweep[w].phase \in {"expire", "purge"} /\ a \in sweep[w].cur /\ ~sweep[w].failed =>
        "original" \in sweep[w].keys \/ Gone(a)

SweepTrue(w) ==
    /\ \A a, b \in sweep[w].cur : a = b
    /\ \A a \in Analyses : ItemTrue(w, a)

Inv ==
    /\ TypeOK
    /\ \A a \in Analyses : RowTrue(a)
    /\ \A w \in Sweepers : SweepTrue(w)

\* Nothing takes an upload back, or stores an original a second time.
Lasting(a) == Uploaded(a) => Uploaded(a)' /\ (Gone(a) => Gone(a)')

LEMMA InvInit == Init => Inv
<1> SUFFICES ASSUME Init PROVE Inv
  OBVIOUS
<1>1. \A a \in Analyses : RowTrue(a)
  BY DEF Init, RowTrue, Uploaded, Visible
<1>2. \A w \in Sweepers : SweepTrue(w)
  BY DEF Init, SweepTrue, ItemTrue, Idle, Begin
<1> QED BY <1>1, <1>2, TypeInit DEF Inv

\* Steps of the upload, the run and the owner, seen by one analysis.
LEMMA RowSteps ==
    ASSUME TypeOK, NEW b \in Analyses, RowTrue(b), NEW a \in Analyses,
           \/ Upload(a) \/ Work(a) \/ WorkerInterrupted(a)
           \/ SoftDelete(a) \/ DeleteObjects(a) \/ DeleteInterrupted(a)
           \/ \E keep \in BOOLEAN : Keep(a, keep)
           \/ \E d \in Deadlines : Reaches(a, d)
    PROVE  RowTrue(b)' /\ Lasting(b) /\ UNCHANGED sweep
<1> USE DEF TypeOK, RowTrue, Lasting, Uploaded, Gone, Visible
<1>1. CASE UploadPut(a)
  BY <1>1 DEF UploadPut
<1>2. CASE UploadCommit(a)
  BY <1>2 DEF UploadCommit
<1>3. CASE UploadInterrupted(a)
  BY <1>3 DEF UploadInterrupted
<1>4. CASE WorkerStart(a) \/ WorkerRaises(a) \/ WorkerInterrupted(a)
  BY <1>4 DEF WorkerStart, WorkerRaises, WorkerInterrupted
<1>5. CASE WorkerPut(a)
  BY <1>5 DEF WorkerPut
<1>6. CASE WorkerCommit(a)
  BY <1>6 DEF WorkerCommit
<1>7. CASE SoftDelete(a)
  BY <1>7 DEF SoftDelete
<1>8. CASE DeleteList(a) \/ DeleteInterrupted(a)
  BY <1>8 DEF DeleteList, DeleteInterrupted
<1>9. CASE DeleteRemove(a)
  BY <1>9 DEF DeleteRemove, Remove
<1>10. ASSUME NEW keep \in BOOLEAN, Keep(a, keep)
       PROVE  RowTrue(b)' /\ Lasting(b) /\ UNCHANGED sweep
  BY <1>10 DEF Keep
<1>11. ASSUME NEW d \in Deadlines, Reaches(a, d)
       PROVE  RowTrue(b)' /\ Lasting(b) /\ UNCHANGED sweep
  BY <1>11 DEF Reaches
<1> QED
  BY <1>1, <1>2, <1>3, <1>4, <1>5, <1>6, <1>7, <1>8, <1>9, <1>10, <1>11
  DEF Upload, Work, DeleteObjects

\* Report requests store no original.
LEMMA ReportSteps ==
    ASSUME TypeOK, NEW b \in Analyses, RowTrue(b), NEW a \in Analyses, NEW r \in Reports,
           ReportStart(a, r) \/ RenderReport(a, r) \/ ReportInterrupted(a, r)
    PROVE  RowTrue(b)' /\ Lasting(b) /\ UNCHANGED sweep
BY DEF RowTrue, Lasting, Uploaded, Gone, Visible, ReportStart, RenderReport, ReportPut,
       ReportCommit, ReportInterrupted

\* A sweep whose session does not change stays right about lasting facts.
LEMMA OtherSweep ==
    ASSUME NEW v \in Sweepers, SweepTrue(v), sweep'[v] = sweep[v],
           \A a \in Analyses : Lasting(a)
    PROVE  SweepTrue(v)'
<1>1. \A a, b \in sweep'[v].cur : a = b
  BY DEF SweepTrue
<1>2. ASSUME NEW a \in Analyses PROVE ItemTrue(v, a)'
  <2>1. ItemTrue(v, a) /\ Lasting(a)
    BY DEF SweepTrue
  <2> QED BY <2>1 DEF ItemTrue, Lasting
<1> QED BY <1>1, <1>2 DEF SweepTrue

\* Between two sweeps and at the beginning of a pass nothing is claimed.
LEMMA FreshSweep ==
    ASSUME TypeOK, NEW w \in Sweepers, NEW p, sweep' = [sweep EXCEPT ![w] = Begin(p)]
    PROVE  SweepTrue(w)'
<1>1. sweep'[w] = Begin(p)
  BY DEF TypeOK
<1> QED BY <1>1 DEF SweepTrue, ItemTrue, Begin

\* A pass takes up rows that have been uploaded ...
LEMMA ListStep ==
    ASSUME Inv, NEW w \in Sweepers, SweepList(w)
    PROVE  SweepTrue(w)'
<1>1. sweep[w].phase \in {"expire", "retire", "purge"}
  BY DEF SweepList, Inv, TypeOK, SweepStates
<1>2. \A a \in Listed(sweep[w].phase) : Uploaded(a)
  BY <1>1 DEF Listed, Expirable, Retirable, Purgeable, Uploaded, Visible
<1>3. sweep'[w] = [sweep[w] EXCEPT !.listed = TRUE, !.todo = Listed(sweep[w].phase)]
  BY DEF SweepList, Inv, TypeOK
<1>4. /\ sweep'[w].cur = sweep[w].cur /\ sweep'[w].marks = sweep[w].marks
      /\ sweep'[w].keys = sweep[w].keys /\ sweep'[w].failed = sweep[w].failed
      /\ sweep'[w].phase = sweep[w].phase /\ sweep'[w].todo = Listed(sweep[w].phase)
  BY <1>3 DEF Inv, TypeOK, SweepStates
<1>5. SweepTrue(w) /\ UNCHANGED <<row, store>>
  BY DEF Inv, SweepList
<1> QED BY <1>2, <1>4, <1>5 DEF SweepTrue, ItemTrue, Uploaded, Gone

\* ... whose keys name the original while the row is there.
LEMMA ItemStep ==
    ASSUME Inv, NEW w \in Sweepers, NEW a \in Analyses, SweepItem(w, a)
    PROVE  SweepTrue(w)'
<1>1. Uploaded(a) /\ RowTrue(a) /\ SweepTrue(w)
  BY DEF SweepItem, Inv, SweepTrue, ItemTrue
<1>2. "original" \in ObjectKeys(a) \/ Gone(a)
  BY <1>1 DEF RowTrue, Uploaded, ObjectKeys
<1>3. sweep'[w] = [sweep[w] EXCEPT !.cur = {a}, !.todo = @ \ {a},
                                   !.keys = ObjectKeys(a), !.failed = FALSE]
  BY DEF SweepItem, Inv, TypeOK
<1>4. /\ sweep'[w].cur = {a} /\ sweep'[w].todo = sweep[w].todo \ {a}
      /\ sweep'[w].keys = ObjectKeys(a) /\ sweep'[w].marks = sweep[w].marks
      /\ sweep'[w].phase = sweep[w].phase
  BY <1>3 DEF Inv, TypeOK, SweepStates
<1>5. UNCHANGED <<row, store>>
  BY DEF SweepItem
<1> QED BY <1>1, <1>2, <1>4, <1>5 DEF SweepTrue, ItemTrue, Uploaded, Gone

\* A removal that takes the original's key off the list has removed the
\* original, or has failed.
LEMMA RemoveStep ==
    ASSUME Inv, NEW w \in Sweepers, NEW a \in Analyses, SweepRemove(w, a)
    PROVE  SweepTrue(w)' /\ \A b \in Analyses : Gone(b) => Gone(b)'
<1>1. PICK k \in sweep[w].keys :
          /\ Remove(a, k)
          /\ sweep' = [sweep EXCEPT ![w].keys = @ \ {k},
                                    ![w].failed = @ \/ storageFaults' # storageFaults]
  BY DEF SweepRemove
<1>2. storageFaults \in Nat /\ sweep \in [Sweepers -> SweepStates]
  BY DEF Inv, TypeOK
<1>3. \/ store' = store \ {<<a, k>>}
      \/ store' = store /\ storageFaults' # storageFaults
  BY <1>1, <1>2 DEF Remove
<1> DEFINE bad == sweep[w].failed \/ storageFaults' # storageFaults
<1>4. sweep'[w] = [sweep[w] EXCEPT !.keys = @ \ {k}, !.failed = bad]
  BY <1>1, <1>2
<1>5. /\ sweep'[w].cur = sweep[w].cur /\ sweep'[w].marks = sweep[w].marks
      /\ sweep'[w].phase = sweep[w].phase /\ sweep'[w].todo = sweep[w].todo
      /\ sweep'[w].keys = sweep[w].keys \ {k} /\ sweep'[w].failed = bad
  BY <1>2, <1>4 DEF SweepStates
<1>6. UNCHANGED row /\ a \in sweep[w].cur /\ SweepTrue(w)
  BY DEF SweepRemove, Inv
<1>7. \A b \in Analyses : Gone(b) => Gone(b)'
  BY <1>3 DEF Gone
<1>8. \A b, c \in sweep'[w].cur : b = c
  BY <1>5, <1>6 DEF SweepTrue
<1>9. ASSUME NEW b \in Analyses PROVE ItemTrue(w, b)'
  <2>1. ItemTrue(w, b)
    BY <1>6 DEF SweepTrue
  <2>2. Uploaded(b) => Uploaded(b)'
    BY <1>6 DEF Uploaded
  <2>3. CASE b # a
    <3>1. b \notin sweep'[w].cur
      BY <1>5, <1>6, <2>3 DEF SweepTrue
    <3> QED BY <1>5, <1>7, <2>1, <2>2, <3>1 DEF ItemTrue
  <2>4. CASE b = a
    <3>1. k = "original" /\ ~bad => Gone(a)'
      BY <1>3 DEF Gone
    <3> QED BY <1>5, <1>7, <2>1, <2>2, <2>4, <3>1 DEF ItemTrue
  <2> QED BY <2>3, <2>4
<1> QED BY <1>7, <1>8, <1>9 DEF SweepTrue

\* An item is marked when no key is left and no removal failed.
LEMMA MarkStep ==
    ASSUME Inv, NEW w \in Sweepers, NEW a \in Analyses, SweepMark(w, a)
    PROVE  SweepTrue(w)'
<1> DEFINE filed == {r \in Reports : reports[a][r] = "completed"}
           m == IF ItemDone(w) THEN sweep[w].marks \cup {a} ELSE sweep[w].marks
           t == IF ItemDone(w) /\ sweep[w].phase = "expire"
                THEN sweep[w].stale \cup ({a} \X filed) ELSE sweep[w].stale
<1>1. sweep \in [Sweepers -> SweepStates] /\ SweepTrue(w)
  BY DEF Inv, TypeOK
<1>2. sweep'[w] = [sweep[w] EXCEPT !.cur = {}, !.marks = m, !.stale = t]
  BY <1>1 DEF SweepMark
<1>3. UNCHANGED <<row, store>> /\ a \in sweep[w].cur /\ sweep[w].keys = {}
  BY DEF SweepMark
<1>4. Uploaded(a)
  BY <1>1, <1>3 DEF SweepTrue, ItemTrue
<1>5. ItemDone(w) /\ sweep[w].phase \in {"expire", "purge"} => Gone(a)
  BY <1>1, <1>3 DEF SweepTrue, ItemTrue, ItemDone
<1>6. m \subseteq sweep[w].marks \cup {a} /\ (~ItemDone(w) => m = sweep[w].marks)
  OBVIOUS
<1> HIDE DEF m, t
<1>7. /\ sweep'[w].cur = {} /\ sweep'[w].marks = m
      /\ sweep'[w].phase = sweep[w].phase /\ sweep'[w].todo = sweep[w].todo
  BY <1>1, <1>2 DEF SweepStates
<1> QED BY <1>1, <1>3, <1>4, <1>5, <1>6, <1>7 DEF SweepTrue, ItemTrue, Uploaded, Gone

\* What a pass commits is true of every analysis.
LEMMA CommitStep ==
    ASSUME Inv, NEW w \in Sweepers, SweepCommit(w), NEW b \in Analyses
    PROVE  RowTrue(b)' /\ Lasting(b)
<1>1. RowTrue(b) /\ ItemTrue(w, b) /\ UNCHANGED store
  BY DEF Inv, SweepTrue, SweepCommit
<1>2. sweep[w].phase \in {"expire", "retire", "purge"}
  BY DEF SweepCommit, PassDone, Inv, TypeOK, SweepStates
<1>3. ~Vanished(w) /\ row \in [Analyses -> {"absent", "uploading", "abandoned", "live",
                                            "deleted", "purged"}]
  BY DEF SweepCommit, Inv, TypeOK
<1> USE DEF RowTrue, ItemTrue, Lasting, Uploaded, Gone, Visible
<1>4. CASE sweep[w].phase = "expire"
  <2>1. expired'[b] = (expired[b] \/ b \in sweep[w].marks) /\ UNCHANGED <<row, files>>
    BY <1>4 DEF SweepCommit, CommitExpire
  <2> QED BY <1>1, <1>4, <2>1
<1>5. CASE sweep[w].phase = "retire"
  <2>1. /\ row'[b] = IF b \in sweep[w].marks THEN "deleted" ELSE row[b]
        /\ expired'[b] = (expired[b] \/ b \in sweep[w].marks) /\ expired[b] \in BOOLEAN
        /\ UNCHANGED files
    BY <1>5 DEF SweepCommit, CommitRetire, Inv, TypeOK
  <2>2. b \in sweep[w].marks => row[b] \in {"live", "deleted"}
    BY <1>1, <1>3, <1>5 DEF Vanished
  <2>3. CASE b \in sweep[w].marks
    BY <1>1, <2>1, <2>2, <2>3
  <2>4. CASE b \notin sweep[w].marks
    BY <1>1, <2>1, <2>4
  <2> QED BY <2>3, <2>4
<1>6. CASE sweep[w].phase = "purge"
  <2>1. /\ row'[b] = IF b \in sweep[w].marks THEN "purged" ELSE row[b]
        /\ files'[b] = IF b \in sweep[w].marks THEN {} ELSE files[b]
        /\ UNCHANGED expired
    BY <1>6 DEF SweepCommit, CommitPurge
  <2> QED BY <1>1, <1>6, <2>1
<1> QED BY <1>2, <1>4, <1>5, <1>6

\* One step of one sweep.
LEMMA SweepSteps ==
    ASSUME Inv, NEW w \in Sweepers, Sweep(w) \/ SweepInterrupted(w)
    PROVE  /\ \A b \in Analyses : RowTrue(b)' /\ Lasting(b)
           /\ \A v \in Sweepers : SweepTrue(v)'
<1>1. TypeOK /\ \A b \in Analyses : RowTrue(b)
  BY DEF Inv
<1>2. SweepTrue(w)'
  <2>1. CASE SweepStart(w) \/ SweepCommit(w) \/ SweepFails(w) \/ SweepInterrupted(w)
    <3>1. PICK p : sweep' = [sweep EXCEPT ![w] = Begin(p)]
      BY <2>1 DEF SweepStart, SweepCommit, SweepFails, SweepInterrupted, Idle
    <3> QED BY <1>1, <3>1, FreshSweep
  <2> QED BY <2>1, ListStep, ItemStep, RemoveStep, MarkStep DEF Sweep
<1>3. \A b \in Analyses : RowTrue(b)' /\ Lasting(b)
  <2>1. CASE SweepCommit(w)
    BY <2>1, CommitStep
  <2>2. CASE UNCHANGED <<row, files, expired, store>>
    BY <1>1, <2>2 DEF RowTrue, Lasting, Uploaded, Gone, Visible
  <2>3. ASSUME NEW a \in Analyses, SweepRemove(w, a), NEW b \in Analyses
        PROVE  RowTrue(b)' /\ Lasting(b)
    <3>1. UNCHANGED <<row, files, expired>> /\ (Gone(b) => Gone(b)')
      BY <2>3, RemoveStep DEF SweepRemove
    <3>2. RowTrue(b)
      BY <1>1
    <3> QED BY <3>1, <3>2 DEF RowTrue, Lasting, Uploaded, Visible
  <2>4. SweepStart(w) \/ SweepList(w) \/ SweepFails(w) \/ SweepInterrupted(w)
        => UNCHANGED <<row, files, expired, store>>
    BY DEF SweepStart, SweepList, SweepFails, SweepInterrupted
  <2>5. \A a \in Analyses : SweepItem(w, a) \/ SweepMark(w, a)
        => UNCHANGED <<row, files, expired, store>>
    BY DEF SweepItem, SweepMark
  <2> QED BY <2>1, <2>2, <2>3, <2>4, <2>5 DEF Sweep
<1>4. ASSUME NEW v \in Sweepers PROVE SweepTrue(v)'
  <2>1. CASE v = w
    BY <1>2, <2>1
  <2>2. CASE v # w
    <3>1. sweep'[v] = sweep[v]
      BY <1>1, <2>2
      DEF TypeOK, Sweep, SweepStart, SweepList, SweepItem, SweepRemove, SweepMark,
          SweepCommit, SweepFails, SweepInterrupted
    <3>2. SweepTrue(v)
      BY DEF Inv
    <3> QED BY <1>3, <3>1, <3>2, OtherSweep
  <2> QED BY <2>1, <2>2
<1> QED BY <1>3, <1>4

\* A step that leaves every session alone.
LEMMA StillSweeps ==
    ASSUME Inv, UNCHANGED sweep, \A b \in Analyses : Lasting(b)
    PROVE  \A v \in Sweepers : SweepTrue(v)'
<1> SUFFICES ASSUME NEW v \in Sweepers PROVE SweepTrue(v)'
  OBVIOUS
<1>1. SweepTrue(v) /\ sweep'[v] = sweep[v]
  BY DEF Inv
<1> QED BY <1>1, OtherSweep

LEMMA InvStep == Inv /\ [Next]_vars => Inv'
<1> SUFFICES ASSUME Inv, [Next]_vars
             PROVE  /\ \A b \in Analyses : RowTrue(b)'
                    /\ \A v \in Sweepers : SweepTrue(v)'
  BY TypeStep DEF Inv
<1>0. TypeOK /\ \A b \in Analyses : RowTrue(b)
  BY DEF Inv
<1> DEFINE Goal == /\ \A b \in Analyses : RowTrue(b)'
                   /\ \A v \in Sweepers : SweepTrue(v)'
<1>1. ASSUME NEW a \in Analyses,
             \/ Upload(a) \/ Work(a) \/ WorkerInterrupted(a)
             \/ SoftDelete(a) \/ DeleteObjects(a) \/ DeleteInterrupted(a)
             \/ \E keep \in BOOLEAN : Keep(a, keep)
             \/ \E d \in Deadlines : Reaches(a, d)
      PROVE  Goal
  <2>1. \A b \in Analyses : RowTrue(b)' /\ Lasting(b) /\ UNCHANGED sweep
    BY <1>0, <1>1, RowSteps
  <2> QED BY <2>1, StillSweeps
<1>2. ASSUME NEW a \in Analyses, NEW r \in Reports,
             ReportStart(a, r) \/ RenderReport(a, r) \/ ReportInterrupted(a, r)
      PROVE  Goal
  <2>1. \A b \in Analyses : RowTrue(b)' /\ Lasting(b) /\ UNCHANGED sweep
    BY <1>0, <1>2, ReportSteps
  <2> QED BY <2>1, StillSweeps
<1>3. ASSUME NEW w \in Sweepers, Sweep(w) \/ SweepInterrupted(w) PROVE Goal
  BY <1>3, SweepSteps
<1>4. CASE UNCHANGED vars
  <2>1. UNCHANGED <<row, files, expired, store, sweep>>
    BY <1>4 DEF vars
  <2>2. \A b \in Analyses : RowTrue(b)' /\ Lasting(b)
    BY <1>0, <2>1 DEF RowTrue, Lasting, Uploaded, Gone, Visible
  <2> QED BY <2>1, <2>2, StillSweeps
<1> QED BY <1>1, <1>2, <1>3, <1>4 DEF Next

\* What a sweep has marked as expired or purged, and what it is about to mark,
\* has lost its original for good (expire_due_content, purge_due).
THEOREM MarksAlwaysTrue == Spec => []MarksAreTrue
<1>1. Inv => MarksAreTrue
  BY DEF Inv, RowTrue, SweepTrue, ItemTrue, MarksAreTrue
<1> QED BY <1>1, InvInit, InvStep, PTL DEF Spec

\* A visible analysis that says its original was removed under the retention
\* policy has no original in the store, whatever crashes and failed removals.
THEOREM ExpiredAlwaysGone == Spec => []ExpiredOriginalIsGone
<1>1. Inv => ExpiredOriginalIsGone
  BY DEF Inv, RowTrue, ExpiredOriginalIsGone, Gone
<1> QED BY <1>1, InvInit, InvStep, PTL DEF Spec

-----------------------------------------------------------------------------
(* Keeps and early removals *)

\* An analysis is safe while no deadline allows a removal.  Nobody comes to hold a
\* safe analysis, and an analysis becomes safe only when it is uploaded, so nothing
\* that was read earlier can endanger it.
Safe(a) ==
    /\ Visible(a)
    /\ "record" \notin time[a]
    /\ "content" \notin time[a] \/ kept[a] = "inTime"

Held(a) == \E w \in Sweepers : a \in sweep[w].todo \cup sweep[w].cur

SafeTrue(a) ==
    /\ Safe(a) =>
          /\ ~Held(a)
          /\ \A k \in ObjectKeys(a) : <<a, k>> \in store
          /\ worker[a] = "stored" => <<a, "artifact">> \in store
          /\ \A r \in Reports : reports[a][r] = "stored" => <<a, "report">> \in store
    /\ row[a] = "uploading" => <<a, "original">> \in store
    /\ row[a] \in {"absent", "uploading"} =>
          worker[a] = "idle" /\ \A r \in Reports : reports[a][r] \in {"none", "expired", "lost"}
    /\ deleter[a].phase # "idle" => row[a] \in {"deleted", "purged"}

SafeInv == Inv /\ \A a \in Analyses : SafeTrue(a)

LEMMA SafeInit == Init => SafeInv
<1> SUFFICES ASSUME Init PROVE SafeInv
  OBVIOUS
<1>1. \A a \in Analyses : SafeTrue(a)
  BY DEF Init, SafeTrue, Safe, Visible
<1> QED BY <1>1, InvInit DEF SafeInv

\* Steps of the upload, the run and the owner, seen by one analysis.
LEMMA SafeRowSteps ==
    ASSUME SafeInv, NEW b \in Analyses, NEW a \in Analyses,
           \/ Upload(a) \/ Work(a) \/ WorkerInterrupted(a)
           \/ SoftDelete(a) \/ DeleteObjects(a) \/ DeleteInterrupted(a)
           \/ \E keep \in BOOLEAN : Keep(a, keep)
           \/ \E d \in Deadlines : Reaches(a, d)
    PROVE  SafeTrue(b)'
<1>0. TypeOK /\ RowTrue(b) /\ SafeTrue(b) /\ RowTrue(a) /\ SafeTrue(a)
  BY DEF SafeInv, Inv
<1>00. Held(b) => Uploaded(b)
  BY DEF SafeInv, Inv, Held, SweepTrue, ItemTrue
<1> USE <1>0 DEF SafeTrue, Safe, Visible
<1>1. CASE UploadPut(a)
  BY <1>1 DEF UploadPut, Held, ObjectKeys, TypeOK
<1>2. CASE UploadCommit(a)
  BY <1>00, <1>2 DEF UploadCommit, Held, ObjectKeys, TypeOK, Uploaded
<1>3. CASE UploadInterrupted(a)
  BY <1>3 DEF UploadInterrupted, Held, ObjectKeys, TypeOK
<1>4. CASE WorkerStart(a) \/ WorkerRaises(a) \/ WorkerInterrupted(a)
  <2>1. /\ UNCHANGED <<row, kept, time, files, reports, store, deleter, sweep>>
        /\ row[a] \notin {"absent", "uploading"} \/ worker[a] # "idle"
        /\ worker' = [worker EXCEPT ![a] = worker'[a]] /\ worker'[a] # "stored"
    BY <1>4 DEF WorkerStart, WorkerRaises, WorkerInterrupted, TypeOK
  <2>2. ObjectKeys(b)' = ObjectKeys(b) /\ Held(b)' = Held(b)  BY <2>1 DEF ObjectKeys, Held
  <2> QED BY <2>1, <2>2 DEF TypeOK
<1>5. CASE WorkerPut(a)
  BY <1>5 DEF WorkerPut, Held, ObjectKeys, TypeOK
<1>6. CASE WorkerCommit(a)
  BY <1>6 DEF WorkerCommit, Held, ObjectKeys, TypeOK
<1>7. CASE SoftDelete(a)
  BY <1>7 DEF SoftDelete, Held, ObjectKeys, TypeOK
<1>8. CASE DeleteList(a) \/ DeleteInterrupted(a)
  <2>1. /\ UNCHANGED <<row, kept, time, files, reports, store, worker, sweep>>
        /\ deleter[a].phase # "idle"
        /\ deleter' = [deleter EXCEPT ![a] = deleter'[a]]
    BY <1>8 DEF DeleteList, DeleteInterrupted, TypeOK
  <2>2. ObjectKeys(b)' = ObjectKeys(b) /\ Held(b)' = Held(b)  BY <2>1 DEF ObjectKeys, Held
  <2> QED BY <2>1, <2>2 DEF TypeOK
<1>9. CASE DeleteRemove(a)
  BY <1>9 DEF DeleteRemove, Remove, Held, ObjectKeys, TypeOK
<1>10. ASSUME NEW keep \in BOOLEAN, Keep(a, keep) PROVE SafeTrue(b)'
  BY <1>10 DEF Keep, Held, ObjectKeys, TypeOK
<1>11. ASSUME NEW d \in Deadlines, Reaches(a, d) PROVE SafeTrue(b)'
  <2>1. /\ UNCHANGED <<row, kept, files, reports, store, worker, deleter, sweep>>
        /\ time[b] \subseteq time'[b]
    BY <1>11 DEF Reaches, TypeOK
  <2>2. ObjectKeys(b)' = ObjectKeys(b) /\ Held(b)' = Held(b)  BY <2>1 DEF ObjectKeys, Held
  <2> QED BY <2>1, <2>2
<1> QED
  BY <1>1, <1>2, <1>3, <1>4, <1>5, <1>6, <1>7, <1>8, <1>9, <1>10, <1>11
  DEF Upload, Work, DeleteObjects

LEMMA SafeReportSteps ==
    ASSUME SafeInv, NEW b \in Analyses, NEW a \in Analyses, NEW r \in Reports,
           ReportStart(a, r) \/ RenderReport(a, r) \/ ReportInterrupted(a, r)
    PROVE  SafeTrue(b)'
<1>0. TypeOK /\ SafeTrue(b) /\ SafeTrue(a)
  BY DEF SafeInv, Inv
<1>1. \A s : SetReport(a, r, s) =>
          \A q \in Reports : reports'[b][q] = IF b = a /\ q = r THEN s ELSE reports[b][q]
  BY <1>0 DEF SetReport, TypeOK
<1>2. UNCHANGED <<row, kept, time, files, worker, deleter, sweep>> /\ store \subseteq store'
  BY DEF ReportStart, RenderReport, ReportPut, ReportCommit, ReportInterrupted
<1>3. Held(b)' = Held(b) /\ Safe(b)' = Safe(b)
  BY <1>2 DEF Held, Safe, Visible
<1>4. PICK s : /\ SetReport(a, r, s)
               /\ s \in {"completed", "stored"} => <<a, "report">> \in store' \/ ~Safe(a)
               /\ row[a] \notin {"absent", "uploading"}
  <2>1. CASE ReportStart(a, r)  BY <2>1 DEF ReportStart, Visible
  <2>2. CASE ReportPut(a, r)  BY <1>0, <2>2 DEF ReportPut, SafeTrue
  <2>3. CASE ReportCommit(a, r)
    <3> DEFINE s == IF row[a] = "purged" THEN "lost" ELSE "completed"
    <3>1. SetReport(a, r, s) /\ reports[a][r] = "stored" /\ store' = store
      BY <2>3 DEF ReportCommit
    <3>2. row[a] \notin {"absent", "uploading"}  BY <1>0, <3>1 DEF SafeTrue
    <3>3. <<a, "report">> \in store' \/ ~Safe(a)  BY <1>0, <3>1 DEF SafeTrue
    <3> HIDE DEF s
    <3>4. QED  BY <3>1, <3>2, <3>3
  <2>4. CASE ReportInterrupted(a, r)  BY <1>0, <2>4 DEF ReportInterrupted, SafeTrue
  <2>5. QED  BY <2>1, <2>2, <2>3, <2>4 DEF RenderReport
<1>5. ASSUME Safe(b) PROVE \A k \in ObjectKeys(b)' : <<b, k>> \in store'
  <2>1. \A k \in files[b] : <<b, k>> \in store'
    BY <1>0, <1>2, <1>5 DEF SafeTrue, ObjectKeys
  <2>2. \A q \in Reports : reports'[b][q] = "completed" => <<b, "report">> \in store'
    BY <1>0, <1>1, <1>2, <1>4, <1>5 DEF SafeTrue, ObjectKeys
  <2>3. QED  BY <1>2, <2>1, <2>2 DEF ObjectKeys
<1>6. ASSUME Safe(b) PROVE \A q \in Reports : reports'[b][q] = "stored" => <<b, "report">> \in store'
  BY <1>0, <1>1, <1>2, <1>4, <1>6 DEF SafeTrue
<1>7. QED  BY <1>0, <1>1, <1>2, <1>3, <1>4, <1>5, <1>6 DEF SafeTrue

\* A pass lists only what a deadline, or the owner, has given up ...
LEMMA ListedIsNotSafe ==
    ASSUME NEW phase \in {"expire", "retire", "purge"}, NEW a \in Listed(phase)
    PROVE  ~Safe(a)
BY DEF Listed, Expirable, Retirable, Purgeable, Safe, Visible

\* ... so what a sweep removes was not safe.
LEMMA SafeSweepSteps ==
    ASSUME SafeInv, NEW w \in Sweepers, Sweep(w) \/ SweepInterrupted(w), NEW b \in Analyses
    PROVE  SafeTrue(b)'
<1>0. TypeOK /\ SafeTrue(b)
  BY DEF SafeInv, Inv
<1>1. ASSUME NEW new, sweep' = [sweep EXCEPT ![w] = new],
             Safe(b) => b \notin new.todo \cup new.cur,
             Safe(b)' => Safe(b)
      PROVE  Safe(b)' => ~Held(b)'
  <2>1. \A v \in Sweepers : sweep'[v] = IF v = w THEN new ELSE sweep[v]
    BY <1>0, <1>1 DEF TypeOK
  <2>2. QED  BY <1>0, <1>1, <2>1 DEF SafeTrue, Held
<1>2. ASSUME UNCHANGED <<row, kept, time, files, reports, store, worker, deleter>>,
             Safe(b) => ~Held(b)'
      PROVE  SafeTrue(b)'
  <2>1. ObjectKeys(b)' = ObjectKeys(b) /\ Safe(b)' = Safe(b)
    BY <1>2 DEF ObjectKeys, Safe, Visible
  <2>2. QED  BY <1>0, <1>2, <2>1 DEF SafeTrue
<1>3. CASE SweepStart(w) \/ SweepFails(w) \/ SweepInterrupted(w)
  <2>1. /\ UNCHANGED <<row, kept, time, files, reports, store, worker, deleter>>
        /\ \E p : sweep' = [sweep EXCEPT ![w] = Begin(p)]
    BY <1>3 DEF SweepStart, SweepFails, SweepInterrupted, Idle
  <2>2. Safe(b)' = Safe(b) /\ \A p : Begin(p).todo = {} /\ Begin(p).cur = {}
    BY <2>1 DEF Safe, Visible, Begin
  <2>3. QED  BY <1>1, <1>2, <2>1, <2>2
<1>4. CASE SweepList(w)
  <2> DEFINE new == [sweep[w] EXCEPT !.listed = TRUE, !.todo = Listed(sweep[w].phase)]
  <2>1. /\ UNCHANGED <<row, kept, time, files, reports, store, worker, deleter>>
        /\ sweep' = [sweep EXCEPT ![w] = new]
        /\ sweep[w].phase \in {"expire", "retire", "purge"}
    BY <1>0, <1>4 DEF SweepList, TypeOK, SweepStates
  <2>2. new.todo = Listed(sweep[w].phase) /\ new.cur = sweep[w].cur
    BY <1>0 DEF TypeOK, SweepStates
  <2>3. Safe(b) => b \notin new.todo \cup new.cur
    BY <1>0, <2>1, <2>2, ListedIsNotSafe DEF SafeTrue, Held
  <2>4. Safe(b)' = Safe(b)  BY <2>1 DEF Safe, Visible
  <2> HIDE DEF new
  <2>5. QED  BY <1>1, <1>2, <2>1, <2>3, <2>4
<1>5. ASSUME NEW a \in Analyses, SweepItem(w, a) \/ SweepMark(w, a) PROVE SafeTrue(b)'
  <2>1. UNCHANGED <<row, kept, time, files, reports, store, worker, deleter>>
    BY <1>5 DEF SweepItem, SweepMark
  <2>2. /\ sweep' = [sweep EXCEPT ![w] = sweep'[w]]
        /\ sweep'[w].todo \cup sweep'[w].cur \subseteq sweep[w].todo \cup sweep[w].cur
    <3>1. CASE SweepItem(w, a)
      <4>1. /\ a \in sweep[w].todo
            /\ \E k : sweep' = [sweep EXCEPT ![w] = [sweep[w] EXCEPT
                                    !.cur = {a}, !.todo = @ \ {a}, !.keys = k, !.failed = FALSE]]
        BY <3>1 DEF SweepItem
      <4>2. QED  BY <1>0, <4>1 DEF TypeOK, SweepStates
    <3>2. CASE SweepMark(w, a)
      <4>1. \E m, t : sweep' = [sweep EXCEPT ![w] = [sweep[w] EXCEPT !.cur = {}, !.marks = m,
                                                                     !.stale = t]]
        BY <3>2 DEF SweepMark
      <4>2. QED  BY <1>0, <4>1 DEF TypeOK, SweepStates
    <3>3. QED  BY <1>5, <3>1, <3>2
  <2>3. Safe(b)' = Safe(b)  BY <2>1 DEF Safe, Visible
  <2>4. Safe(b) => b \notin sweep'[w].todo \cup sweep'[w].cur
    BY <1>0, <2>2 DEF SafeTrue, Held
  <2>5. QED  BY <1>1, <1>2, <2>1, <2>2, <2>3, <2>4
<1>6. ASSUME NEW a \in Analyses, SweepRemove(w, a) PROVE SafeTrue(b)'
  <2>1. PICK k \in sweep[w].keys :
          /\ Remove(a, k)
          /\ sweep' = [sweep EXCEPT ![w].keys = @ \ {k},
                                    ![w].failed = @ \/ storageFaults' # storageFaults]
    BY <1>6 DEF SweepRemove
  <2>2. UNCHANGED <<row, kept, time, files, reports, worker, deleter>> /\ a \in sweep[w].cur
    BY <1>6 DEF SweepRemove
  <2>3. Held(b)' = Held(b)
    <3>1. \A v \in Sweepers : sweep'[v].todo = sweep[v].todo /\ sweep'[v].cur = sweep[v].cur
      BY <1>0, <2>1 DEF TypeOK, SweepStates
    <3>2. QED  BY <3>1 DEF Held
  <2>4. ObjectKeys(b)' = ObjectKeys(b) /\ Safe(b)' = Safe(b)
    BY <2>2 DEF ObjectKeys, Safe, Visible
  <2>5. a = b => ~Safe(b) /\ row[b] # "uploading"
    <3>1. Held(a)  BY <2>2 DEF Held
    <3>2. Uploaded(a)  BY <2>2 DEF SafeInv, Inv, SweepTrue, ItemTrue
    <3>3. QED  BY <1>0, <3>1, <3>2 DEF SafeTrue, Uploaded
  <2>6. a # b => \A j : <<b, j>> \in store => <<b, j>> \in store'
    BY <2>1 DEF Remove
  <2>7. QED  BY <1>0, <2>2, <2>3, <2>4, <2>5, <2>6 DEF SafeTrue
<1>7. CASE SweepCommit(w)
  <2>1. /\ UNCHANGED <<kept, store, worker, deleter>>
        /\ sweep' = [sweep EXCEPT ![w] = Begin(After(sweep[w].phase))]
    BY <1>7 DEF SweepCommit
  <2>2. Begin(After(sweep[w].phase)).todo = {} /\ Begin(After(sweep[w].phase)).cur = {}
    BY DEF Begin
  <2>3. sweep[w].phase \in {"expire", "retire", "purge"}
    BY <1>0, <1>7 DEF SweepCommit, PassDone, TypeOK, SweepStates
  <2>4. /\ Safe(b)' => Safe(b)
        /\ \/ row'[b] = row[b]
           \/ row[b] \in {"live", "deleted", "purged"} /\ row'[b] \in {"deleted", "purged"}
        /\ files'[b] \subseteq files[b]
        /\ \A r \in Reports :
              reports'[b][r] = reports[b][r] \/ reports'[b][r] \in {"expired", "lost"}
    <3>1. b \in sweep[w].marks => Uploaded(b)
      BY DEF SafeInv, Inv, SweepTrue, ItemTrue
    <3>2. CASE sweep[w].phase = "expire"
      <4>1. /\ UNCHANGED <<row, time, files, kept>>
            /\ \A r \in Reports :
                  reports'[b][r] = IF <<b, r>> \in sweep[w].stale THEN "expired" ELSE reports[b][r]
        BY <1>7, <2>1, <3>2 DEF SweepCommit, CommitExpire
      <4>2. Safe(b)' = Safe(b)  BY <4>1 DEF Safe, Visible
      <4>3. QED  BY <4>1, <4>2
    <3>3. CASE sweep[w].phase = "retire"
      BY <1>0, <1>7, <2>1, <3>1, <3>3 DEF SweepCommit, CommitRetire, Safe, Visible, Uploaded, TypeOK
    <3>4. CASE sweep[w].phase = "purge"
      BY <1>0, <1>7, <2>1, <3>1, <3>4 DEF SweepCommit, CommitPurge, Safe, Visible, Uploaded, TypeOK
    <3>5. QED  BY <2>3, <3>2, <3>3, <3>4
  <2>5. ASSUME Safe(b)' PROVE ObjectKeys(b)' \subseteq ObjectKeys(b)
    BY <2>4 DEF ObjectKeys
  <2>6. Safe(b)' => ~Held(b)'
    BY <1>0, <1>1, <2>1, <2>2, <2>4
  <2>7. QED  BY <1>0, <2>1, <2>4, <2>5, <2>6 DEF SafeTrue
<1>8. QED  BY <1>3, <1>4, <1>5, <1>6, <1>7 DEF Sweep

LEMMA SafeStep == SafeInv /\ [Next]_vars => SafeInv'
<1> SUFFICES ASSUME SafeInv, [Next]_vars, NEW b \in Analyses PROVE SafeTrue(b)'
  BY InvStep DEF SafeInv
<1>1. CASE Next  BY <1>1, SafeRowSteps, SafeReportSteps, SafeSweepSteps DEF Next
<1>2. CASE UNCHANGED vars
  <2>1. SafeTrue(b) /\ ObjectKeys(b)' = ObjectKeys(b) /\ Safe(b)' = Safe(b) /\ Held(b)' = Held(b)
    BY <1>2 DEF SafeInv, vars, ObjectKeys, Safe, Visible, Held
  <2>2. QED  BY <1>2, <2>1 DEF vars, SafeTrue
<1>3. QED  BY <1>1, <1>2

LEMMA AlwaysSafe == Spec => []SafeInv
BY SafeInit, SafeStep, PTL DEF Spec

\* A keep that was committed before the content deadline protects the original
\* until it is released, however many sweeps, crashes and deletes there are.
THEOREM KeepsAreHonoured == Spec => []KeepInTimeIsHonoured
<1>1. SafeInv => KeepInTimeIsHonoured
  BY DEF SafeInv, SafeTrue, Safe, Inv, RowTrue, KeepInTimeIsHonoured, Visible, ObjectKeys
<1> QED BY <1>1, AlwaysSafe, PTL

\* Before its deadlines a visible analysis lists only objects that exist.
THEOREM ListedObjectsExist == Spec => []NothingIsRemovedEarly
<1>1. SafeInv => NothingIsRemovedEarly
  BY DEF SafeInv, SafeTrue, Safe, NothingIsRemovedEarly
<1> QED BY <1>1, AlwaysSafe, PTL
-----------------------------------------------------------------------------
(* What a purge removes.  A run that has completed before the delete has its   *)
(* artifact listed until the row is gone, and nobody stores another one.       *)

NoArtifact(a) == <<a, "artifact">> \notin store

ArtifactItem(w, a) ==
    sweep[w].phase = "purge" =>
        /\ a \in sweep[w].todo \cup sweep[w].cur \cup sweep[w].marks =>
              row[a] \in {"deleted", "purged"}
        /\ worker[a] = "completed" /\ a \in sweep[w].marks => NoArtifact(a)
        /\ worker[a] = "completed" /\ a \in sweep[w].cur /\ ~sweep[w].failed =>
              "artifact" \in sweep[w].keys \/ NoArtifact(a)

ArtifactRow(a) ==
    /\ worker[a] \in {"idle", "validated", "failed"} => NoArtifact(a)
    /\ worker[a] = "completed" /\ row[a] # "purged" => "artifact" \in files[a]
    /\ worker[a] = "completed" /\ row[a] = "purged" => NoArtifact(a)

ArtifactInv ==
    /\ SafeInv
    /\ \A a \in Analyses : ArtifactRow(a)
    /\ \A w \in Sweepers, a \in Analyses : ArtifactItem(w, a)

\* A step that takes no deleted row back, ends no run of one and stores no artifact
\* of a run that has ended.
Calm(a) ==
    /\ row[a] \in {"deleted", "purged"} =>
          /\ row'[a] \in {"deleted", "purged"}
          /\ worker'[a] = "completed" => worker[a] = "completed"
    /\ worker[a] = "completed" /\ NoArtifact(a) => NoArtifact(a)'

LEMMA ArtifactInit == Init => ArtifactInv
<1> SUFFICES ASSUME Init PROVE ArtifactInv
  OBVIOUS
<1>1. \A a \in Analyses : ArtifactRow(a)
  BY DEF Init, ArtifactRow, NoArtifact
<1>2. \A w \in Sweepers, a \in Analyses : ArtifactItem(w, a)
  BY DEF Init, ArtifactItem, Idle, Begin
<1> QED BY <1>1, <1>2, SafeInit DEF ArtifactInv

LEMMA ArtifactRowSteps ==
    ASSUME ArtifactInv, NEW b \in Analyses, NEW a \in Analyses,
           \/ Upload(a) \/ Work(a) \/ WorkerInterrupted(a)
           \/ SoftDelete(a) \/ DeleteObjects(a) \/ DeleteInterrupted(a)
           \/ \E keep \in BOOLEAN : Keep(a, keep)
           \/ \E d \in Deadlines : Reaches(a, d)
    PROVE  ArtifactRow(b)' /\ Calm(b) /\ UNCHANGED sweep
<1>0. TypeOK /\ ArtifactRow(b) /\ SafeTrue(a)
  BY DEF ArtifactInv, SafeInv, Inv
<1> USE <1>0 DEF TypeOK, ArtifactRow, NoArtifact, Calm
<1>1. CASE UploadPut(a)  BY <1>1 DEF UploadPut
<1>2. CASE UploadCommit(a)  BY <1>2 DEF UploadCommit, SafeTrue
<1>3. CASE UploadInterrupted(a)  BY <1>3 DEF UploadInterrupted
<1>4. CASE WorkerStart(a)  BY <1>4 DEF WorkerStart
<1>5. CASE WorkerPut(a)  BY <1>5 DEF WorkerPut
<1>6. CASE WorkerCommit(a)  BY <1>6 DEF WorkerCommit, Visible
<1>7. CASE WorkerRaises(a)  BY <1>7 DEF WorkerRaises
<1>8. CASE WorkerInterrupted(a)  BY <1>8 DEF WorkerInterrupted
<1>9. CASE SoftDelete(a)  BY <1>9 DEF SoftDelete, Visible
<1>10. CASE DeleteList(a) \/ DeleteInterrupted(a)
  BY <1>10 DEF DeleteList, DeleteInterrupted
<1>11. CASE DeleteRemove(a)  BY <1>11 DEF DeleteRemove, Remove
<1>12. ASSUME NEW keep \in BOOLEAN, Keep(a, keep)
       PROVE  ArtifactRow(b)' /\ Calm(b) /\ UNCHANGED sweep
  BY <1>12 DEF Keep
<1>13. ASSUME NEW d \in Deadlines, Reaches(a, d)
       PROVE  ArtifactRow(b)' /\ Calm(b) /\ UNCHANGED sweep
  BY <1>13 DEF Reaches
<1> QED
  BY <1>1, <1>2, <1>3, <1>4, <1>5, <1>6, <1>7, <1>8, <1>9, <1>10, <1>11, <1>12, <1>13
  DEF Upload, Work, DeleteObjects

LEMMA ArtifactReportSteps ==
    ASSUME ArtifactInv, NEW b \in Analyses, NEW a \in Analyses, NEW r \in Reports,
           ReportStart(a, r) \/ RenderReport(a, r) \/ ReportInterrupted(a, r)
    PROVE  ArtifactRow(b)' /\ Calm(b) /\ UNCHANGED sweep
<1>1. /\ UNCHANGED <<row, files, worker, sweep>>
      /\ <<b, "artifact">> \in store' => <<b, "artifact">> \in store
  BY DEF ReportStart, RenderReport, ReportPut, ReportCommit, ReportInterrupted
<1>2. QED  BY <1>1 DEF ArtifactInv, ArtifactRow, NoArtifact, Calm

\* A session that does not change stays right.
LEMMA ArtifactOtherSweep ==
    ASSUME NEW v \in Sweepers, NEW a \in Analyses, ArtifactItem(v, a),
           sweep'[v] = sweep[v], Calm(a)
    PROVE  ArtifactItem(v, a)'
BY DEF ArtifactItem, Calm

\* What one step of a sweep does to its own session.
LEMMA ArtifactOwnSweep ==
    ASSUME ArtifactInv, NEW w \in Sweepers, Sweep(w) \/ SweepInterrupted(w), NEW b \in Analyses
    PROVE  ArtifactItem(w, b)'
<1>0. TypeOK /\ SweepTrue(w) /\ ArtifactRow(b) /\ ArtifactItem(w, b) /\ sweep[w] \in SweepStates
  BY DEF ArtifactInv, SafeInv, Inv, TypeOK
<1>1. CASE SweepStart(w) \/ SweepCommit(w) \/ SweepFails(w) \/ SweepInterrupted(w)
  <2>1. \E p : sweep'[w] = Begin(p)
    BY <1>0, <1>1 DEF SweepStart, SweepCommit, SweepFails, SweepInterrupted, Idle, TypeOK
  <2>2. QED  BY <2>1 DEF ArtifactItem, Begin
<1>2. CASE SweepList(w)
  <2>1. sweep'[w] = [sweep[w] EXCEPT !.listed = TRUE, !.todo = Listed(sweep[w].phase)]
    BY <1>0, <1>2 DEF SweepList, TypeOK
  <2>2. /\ sweep'[w].cur = sweep[w].cur /\ sweep'[w].marks = sweep[w].marks
        /\ sweep'[w].keys = sweep[w].keys /\ sweep'[w].failed = sweep[w].failed
        /\ sweep'[w].phase = sweep[w].phase /\ sweep'[w].todo = Listed(sweep[w].phase)
    BY <1>0, <2>1 DEF SweepStates
  <2>3. sweep[w].phase = "purge" /\ b \in Listed(sweep[w].phase) => row[b] = "deleted"
    BY DEF Listed, Purgeable
  <2>4. UNCHANGED <<row, worker, store>>  BY <1>2 DEF SweepList
  <2>5. QED  BY <1>0, <2>2, <2>3, <2>4 DEF ArtifactItem, NoArtifact
<1>3. ASSUME NEW a \in Analyses, SweepItem(w, a) PROVE ArtifactItem(w, b)'
  <2>1. sweep'[w] = [sweep[w] EXCEPT !.cur = {a}, !.todo = @ \ {a},
                                     !.keys = ObjectKeys(a), !.failed = FALSE]
    BY <1>0, <1>3 DEF SweepItem, TypeOK
  <2>2. /\ sweep'[w].cur = {a} /\ sweep'[w].todo = sweep[w].todo \ {a}
        /\ sweep'[w].keys = ObjectKeys(a) /\ sweep'[w].marks = sweep[w].marks
        /\ sweep'[w].phase = sweep[w].phase
    BY <1>0, <2>1 DEF SweepStates
  <2>3. a = b /\ worker[b] = "completed" => "artifact" \in ObjectKeys(a) \/ NoArtifact(b)
    BY <1>0 DEF ArtifactRow, ObjectKeys
  <2>4. UNCHANGED <<row, worker, store>> /\ a \in sweep[w].todo  BY <1>3 DEF SweepItem
  <2>5. QED  BY <1>0, <2>2, <2>3, <2>4 DEF ArtifactItem, NoArtifact
<1>4. ASSUME NEW a \in Analyses, SweepRemove(w, a) PROVE ArtifactItem(w, b)'
  <2>1. PICK k \in sweep[w].keys :
          /\ Remove(a, k)
          /\ sweep' = [sweep EXCEPT ![w].keys = @ \ {k},
                                    ![w].failed = @ \/ storageFaults' # storageFaults]
    BY <1>4 DEF SweepRemove
  <2>2. storageFaults \in Nat  BY <1>0 DEF TypeOK
  <2>3. \/ store' = store \ {<<a, k>>}
        \/ store' = store /\ storageFaults' # storageFaults
    BY <2>1, <2>2 DEF Remove
  <2> DEFINE bad == sweep[w].failed \/ storageFaults' # storageFaults
  <2>4. sweep'[w] = [sweep[w] EXCEPT !.keys = @ \ {k}, !.failed = bad]
    BY <1>0, <2>1 DEF TypeOK
  <2>5. /\ sweep'[w].cur = sweep[w].cur /\ sweep'[w].marks = sweep[w].marks
        /\ sweep'[w].phase = sweep[w].phase /\ sweep'[w].todo = sweep[w].todo
        /\ sweep'[w].keys = sweep[w].keys \ {k} /\ sweep'[w].failed = bad
        /\ UNCHANGED <<row, worker>> /\ a \in sweep[w].cur
    BY <1>0, <1>4, <2>4 DEF SweepStates, SweepRemove
  <2>6. b \in sweep[w].cur => b = a  BY <1>0, <2>5 DEF SweepTrue
  <2>7. NoArtifact(b) => NoArtifact(b)'  BY <2>3 DEF NoArtifact
  <2>8. b = a /\ k = "artifact" /\ ~bad => NoArtifact(b)'  BY <2>3 DEF NoArtifact
  <2> HIDE DEF bad
  <2>9. bad = FALSE => sweep[w].failed = FALSE  BY <1>0 DEF bad, SweepStates
  <2>10. QED  BY <1>0, <2>5, <2>6, <2>7, <2>8, <2>9 DEF ArtifactItem
<1>5. ASSUME NEW a \in Analyses, SweepMark(w, a) PROVE ArtifactItem(w, b)'
  <2>1. PICK t : sweep' = [sweep EXCEPT ![w].cur = {},
                              ![w].marks = IF ItemDone(w) THEN @ \cup {a} ELSE @,
                              ![w].stale = t]
    BY <1>5 DEF SweepMark
  <2> DEFINE m == IF ItemDone(w) THEN sweep[w].marks \cup {a} ELSE sweep[w].marks
  <2>2. sweep'[w] = [sweep[w] EXCEPT !.cur = {}, !.marks = m, !.stale = t]
    BY <1>0, <2>1 DEF TypeOK
  <2> HIDE DEF m
  <2>3. /\ sweep'[w].cur = {} /\ sweep'[w].marks = m /\ sweep'[w].phase = sweep[w].phase
        /\ sweep'[w].todo = sweep[w].todo
    BY <1>0, <2>2 DEF SweepStates
  <2>4. b \in m => b \in sweep[w].marks \/ (b = a /\ ItemDone(w))  BY DEF m
  <2>5. sweep[w].phase = "purge" /\ ItemDone(w) => ~sweep[w].failed  BY DEF ItemDone
  <2>6. UNCHANGED <<row, worker, store>> /\ a \in sweep[w].cur /\ sweep[w].keys = {}
    BY <1>5 DEF SweepMark
  <2>7. QED  BY <1>0, <2>3, <2>4, <2>5, <2>6 DEF ArtifactItem, NoArtifact
<1>6. QED  BY <1>1, <1>2, <1>3, <1>4, <1>5 DEF Sweep

LEMMA ArtifactSweepSteps ==
    ASSUME ArtifactInv, NEW w \in Sweepers, Sweep(w) \/ SweepInterrupted(w), NEW b \in Analyses
    PROVE  ArtifactRow(b)' /\ Calm(b)
<1>0. TypeOK /\ ArtifactRow(b) /\ ArtifactItem(w, b) /\ ItemTrue(w, b)
  BY DEF ArtifactInv, SafeInv, Inv, SweepTrue
<1>1. CASE UNCHANGED <<row, files, worker>> /\ store' \subseteq store
  BY <1>0, <1>1 DEF ArtifactRow, Calm, NoArtifact
<1>2. CASE SweepCommit(w)
  <2>1. UNCHANGED <<store, worker>>  BY <1>2 DEF SweepCommit
  <2>2. sweep[w].phase \in {"expire", "retire", "purge"}
    BY <1>0, <1>2 DEF SweepCommit, PassDone, TypeOK, SweepStates
  <2>3. CASE sweep[w].phase = "expire"
    BY <1>1, <1>2, <2>1, <2>3 DEF SweepCommit, CommitExpire
  <2>4. CASE sweep[w].phase = "retire"
    <3>1. /\ row'[b] = IF b \in sweep[w].marks THEN "deleted" ELSE row[b]
          /\ files' = files
      BY <1>2, <2>4 DEF SweepCommit, CommitRetire
    <3>2. b \in sweep[w].marks => row[b] # "purged"
      BY <1>2, <2>4 DEF SweepCommit, Vanished
    <3>3. QED  BY <1>0, <2>1, <3>1, <3>2 DEF ArtifactRow, Calm, NoArtifact
  <2>5. CASE sweep[w].phase = "purge"
    <3>1. /\ row'[b] = IF b \in sweep[w].marks THEN "purged" ELSE row[b]
          /\ files'[b] = IF b \in sweep[w].marks THEN {} ELSE files[b]
      BY <1>2, <2>5 DEF SweepCommit, CommitPurge
    <3>2. QED
      BY <1>0, <2>1, <2>5, <3>1 DEF ArtifactRow, ArtifactItem, Calm, NoArtifact
  <2>6. QED  BY <2>2, <2>3, <2>4, <2>5
<1>3. CASE SweepStart(w) \/ SweepList(w) \/ SweepFails(w) \/ SweepInterrupted(w)
  BY <1>1, <1>3 DEF SweepStart, SweepList, SweepFails, SweepInterrupted
<1>4. ASSUME NEW a \in Analyses, SweepItem(w, a) \/ SweepMark(w, a) \/ SweepRemove(w, a)
      PROVE  UNCHANGED <<row, files, worker>> /\ store' \subseteq store
  BY <1>4 DEF SweepItem, SweepMark, SweepRemove, Remove
<1>5. QED  BY <1>1, <1>2, <1>3, <1>4 DEF Sweep

LEMMA ArtifactStep == ArtifactInv /\ [Next]_vars => ArtifactInv'
<1> SUFFICES ASSUME ArtifactInv, [Next]_vars
             PROVE  /\ \A b \in Analyses : ArtifactRow(b)'
                    /\ \A v \in Sweepers, b \in Analyses : ArtifactItem(v, b)'
  BY SafeStep DEF ArtifactInv
<1>0. \A v \in Sweepers, b \in Analyses : ArtifactItem(v, b)
  BY DEF ArtifactInv
<1> DEFINE Right == \A b \in Analyses : ArtifactRow(b)' /\ Calm(b)
<1>1. ASSUME NEW w \in Sweepers, Sweep(w) \/ SweepInterrupted(w)
      PROVE  Right /\ \A v \in Sweepers, b \in Analyses : ArtifactItem(v, b)'
  <2>1. Right  BY <1>1, ArtifactSweepSteps
  <2>2. \A v \in Sweepers \ {w} : sweep'[v] = sweep[v]
    BY <1>1
    DEF ArtifactInv, SafeInv, Inv, TypeOK, Sweep, SweepStart, SweepList, SweepItem, SweepRemove, SweepMark,
        SweepCommit, SweepFails, SweepInterrupted
  <2>3. \A b \in Analyses : ArtifactItem(w, b)'  BY <1>1, ArtifactOwnSweep
  <2>4. QED  BY <1>0, <2>1, <2>2, <2>3, ArtifactOtherSweep
<1>2. CASE Right /\ UNCHANGED sweep
  BY <1>0, <1>2, ArtifactOtherSweep
<1>3. CASE UNCHANGED vars
  BY <1>2, <1>3 DEF vars, ArtifactInv, ArtifactRow, NoArtifact, Calm
<1>4. ASSUME NEW a \in Analyses, NEW r \in Reports,
             ReportStart(a, r) \/ RenderReport(a, r) \/ ReportInterrupted(a, r)
      PROVE  Right /\ UNCHANGED sweep
  BY <1>4, ArtifactReportSteps
<1>5. ASSUME NEW a \in Analyses,
             \/ Upload(a) \/ Work(a) \/ WorkerInterrupted(a)
             \/ SoftDelete(a) \/ DeleteObjects(a) \/ DeleteInterrupted(a)
             \/ \E keep \in BOOLEAN : Keep(a, keep)
             \/ \E d \in Deadlines : Reaches(a, d)
      PROVE  Right /\ UNCHANGED sweep
  BY <1>5, ArtifactRowSteps
<1> HIDE DEF Right
<1>6. QED  BY <1>1, <1>2, <1>3, <1>4, <1>5 DEF Next, Right

\* A purged analysis leaves neither its original nor an artifact of a run that had
\* completed, or stored nothing, before it.
THEOREM PurgesAreComplete == Spec => []PurgeRemovesRecordedObjects
<1>1. ArtifactInv => PurgeRemovesRecordedObjects
  BY DEF ArtifactInv, ArtifactRow, NoArtifact, SafeInv, Inv, RowTrue, Gone, PurgeRemovesRecordedObjects
<1> QED BY <1>1, ArtifactInit, ArtifactStep, PTL DEF Spec
=============================================================================
