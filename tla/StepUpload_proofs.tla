-------------------------- MODULE StepUpload_proofs --------------------------
(***************************************************************************)
(* Theorems about StepUpload, for every set of calls, steps and tables and *)
(* every bound.                                                            *)
(***************************************************************************)
EXTENDS StepUpload, TLAPS

(* Type correctness, for both task runners and with every fault and edit.  *)
LEMMA InitTyped == Init => TypeOK
<1> SUFFICES ASSUME Init PROVE TypeOK
    OBVIOUS
<1>1. step \in [Paths -> Rows]
    <2>1. NoStep \in Rows
        BY DEF NoStep, Rows, Tables, Stages
    <2>2. \A f \in Tables : NewStep(1, f) \in Rows
        BY DEF NewStep, Rows, Stages
    <2> QED  BY <2>1, <2>2 DEF Init
<1>2. editor \in [op : {"idle", "create", "create_commit", "delete"}, path : Paths]
    BY UploadAssumption DEF Init
<1> QED
    BY <1>1, <1>2 DEF Init, TypeOK, PCs, Causes, Stages

(* What a call reads and writes of its step.                               *)
LEMMA HereTyped == TypeOK => \A c \in Calls :
    /\ req[c].path \in Paths /\ req[c].body \in Tables \cup {Invalid}
    /\ Here(c) \in Rows /\ Here(c).id \in Nat /\ Here(c).fp \in Tables
    /\ Here(c).stage \in Stages /\ Here(c).copies \in Nat
BY DEF TypeOK, Here, Rows

LEMMA SetStageTyped ==
    ASSUME TypeOK, NEW p \in Paths, NEW s \in Stages, SetStage(p, s)
    PROVE  step' \in [Paths -> Rows]
<1> DEFINE row == [step[p] EXCEPT !.stage = s]
<1>1. step[p] \in Rows
    BY DEF TypeOK
<1>2. row \in Rows
    BY <1>1 DEF Rows
<1>3. step' = [step EXCEPT ![p] = row]
    BY DEF SetStage
<1> HIDE DEF row
<1> QED
    BY <1>2, <1>3 DEF TypeOK

(* A change of the stage of one row.                                       *)
LEMMA StageSet ==
    ASSUME TypeOK, NEW p \in Paths, NEW s, SetStage(p, s)
    PROVE  \A q \in Paths :
               /\ step'[q].id = step[q].id /\ step'[q].copies = step[q].copies
               /\ step'[q].stage = IF q = p THEN s ELSE step[q].stage
BY DEF TypeOK, SetStage, Rows

(* A call stores its rows, and succeeds or, after the commit, fails.       *)
Stores(c) == Insert(c) \/ VacuumFails(c)

LEMMA StoreStep ==
    ASSUME TypeOK, NEW c \in Calls, Stores(c)
    PROVE  /\ StoreRows(c) /\ editor' = editor
           /\ pc' = [pc EXCEPT ![c] = "unlock"]
           /\ \/ goal' = [goal EXCEPT ![c] = "complete"] /\ cause' = cause
              \/ goal' = [goal EXCEPT ![c] = "fail"] /\ cause' = [cause EXCEPT ![c] = "Vacuum"]
           /\ edits' = edits /\ faults' \in {faults, faults + 1}
BY DEF Stores, Insert, VacuumFails, Succeed, Fail, Unlock, Goto, envVars

(* The same for each call and each row.                                    *)
LEMMA StoreEffect ==
    ASSUME TypeOK, NEW c \in Calls, Stores(c)
    PROVE  /\ pc[c] = "insert" /\ pc'[c] = "unlock" /\ InsertAllowed(c)
           /\ \A d \in Calls \ {c} :
                 pc'[d] = pc[d] /\ goal'[d] = goal[d] /\ cause'[d] = cause[d]
           /\ \/ goal'[c] = "complete" /\ cause'[c] = cause[c]
              \/ goal'[c] = "fail" /\ cause'[c] = "Vacuum"
           /\ UNCHANGED <<mutable, nextId, rowLock, req, saw, s3, tracker, editor>>
           /\ req[c].path \in Paths
           /\ \A q \in Paths :
                 /\ step'[q].id = step[q].id /\ step'[q].fp = step[q].fp
                 /\ step'[q].stage = step[q].stage
                 /\ IF q = req[c].path THEN step'[q].copies # 0
                    ELSE step'[q] = step[q]
<1>1. req[c].path \in Paths /\ AfterInsert(req[c].path) # 0
    BY HereTyped DEF AfterInsert, Here
<1>2. StoreRows(c)
    BY StoreStep
<1>3. /\ pc[c] = "insert" /\ InsertAllowed(c)
      /\ UNCHANGED <<mutable, nextId, rowLock, req, saw, s3, tracker>>
    BY <1>2 DEF StoreRows
<1>4. step' = [step EXCEPT ![req[c].path].copies = AfterInsert(req[c].path)]
    BY <1>2 DEF StoreRows
<1>5. \A q \in Paths :
         /\ step'[q].id = step[q].id /\ step'[q].fp = step[q].fp
         /\ step'[q].stage = step[q].stage
         /\ IF q = req[c].path THEN step'[q].copies # 0 ELSE step'[q] = step[q]
    BY <1>1, <1>4 DEF TypeOK, Rows
<1> QED
    BY <1>1, <1>3, <1>5, StoreStep DEF TypeOK

LEMMA NextTyped == TypeOK /\ [Next]_vars => TypeOK'
<1> SUFFICES ASSUME TypeOK, [Next]_vars PROVE TypeOK'
    OBVIOUS
<1> USE DEF TypeOK, Goto, PCs, UnlockPCs, TaskPCs, EndPCs, dbVars, callVars, envVars
<1>1. ASSUME NEW c \in Calls, Request(c) PROVE TypeOK'
    BY <1>1 DEF Request
<1>2. ASSUME NEW c \in Calls, LockSelect(c) PROVE TypeOK'
    <2>1. [id |-> Here(c).id, stage |-> Here(c).stage] \in [id : Nat, stage : Stages]
        BY HereTyped
    <2>2. saw' \in [Calls -> [id : Nat, stage : Stages]]
        BY <1>2, <2>1 DEF LockSelect
    <2>3. rowLock' \in Calls \cup {Free, Editor} /\ pc' \in [Calls -> PCs]
        BY <1>2 DEF LockSelect
    <2> QED  BY <1>2, <2>2, <2>3 DEF LockSelect
<1>3. ASSUME NEW c \in Calls, LockCommit(c) PROVE TypeOK'
    <2>1. step' \in [Paths -> Rows]
        BY <1>3, HereTyped, SetStageTyped DEF LockCommit, Stages
    <2> QED  BY <1>3, <2>1 DEF LockCommit
<1>4. ASSUME NEW c \in Calls, Accept(c) PROVE TypeOK'
    BY <1>4 DEF Accept
<1>5. ASSUME NEW c \in Calls, Refuse(c) PROVE TypeOK'
    BY <1>5 DEF Refuse, Unlock
<1>6. ASSUME NEW c \in Calls, UnlockCheck(c) PROVE TypeOK'
    BY <1>6 DEF UnlockCheck, UnlockRaises, Fail, Unlock, Causes
<1>7. ASSUME NEW c \in Calls, UnlockSelect(c) PROVE TypeOK'
    <2>1. ASSUME NEW e \in Causes, UnlockRaises(c, e)
          PROVE  /\ pc' \in [Calls -> PCs]
                 /\ goal' \in [Calls -> {"refuse", "fail", "complete"}]
                 /\ cause' \in [Calls -> Causes]
        <3>1. pc' \in [Calls -> PCs]
            BY <2>1 DEF UnlockRaises, Fail, Unlock
        <3>2. goal' \in [Calls -> {"refuse", "fail", "complete"}]
            BY <2>1 DEF UnlockRaises, Fail, Unlock
        <3>3. cause' \in [Calls -> Causes]
            BY <2>1 DEF UnlockRaises, Fail, Unlock
        <3> QED  BY <3>1, <3>2, <3>3
    <2>2. (IF Present(c) THEN "Locked" ELSE "NotFound") \in Causes
        BY DEF Causes
    <2> QED  BY <1>7, <2>1, <2>2 DEF UnlockSelect
<1>8. ASSUME NEW c \in Calls, UnlockCommit(c) PROVE TypeOK'
    <2>1. step' \in [Paths -> Rows]
        BY <1>8, HereTyped, SetStageTyped DEF UnlockCommit, Stages
    <2>2. AfterUnlock[goal[c]] \in PCs
        BY DEF AfterUnlock
    <2> QED  BY <1>8, <2>1, <2>2 DEF UnlockCommit
<1>9. ASSUME NEW c \in Calls, Start(c) PROVE TypeOK'
    BY <1>9 DEF Start, Fail, Unlock, Causes
<1>10. ASSUME NEW c \in Calls, Validate(c) PROVE TypeOK'
    <2>1. [id |-> Here(c).id, stage |-> Here(c).stage] \in [id : Nat, stage : Stages]
        BY HereTyped
    <2>2. saw' \in [Calls -> [id : Nat, stage : Stages]]
        BY <1>10, <2>1 DEF Validate
    <2>3. /\ pc' \in [Calls -> PCs]
          /\ goal' \in [Calls -> {"refuse", "fail", "complete"}]
          /\ cause' \in [Calls -> Causes]
        BY <1>10 DEF Validate, Fail, Succeed, Unlock, Causes
    <2> QED  BY <1>10, <2>2, <2>3 DEF Validate
<1>11. ASSUME NEW c \in Calls, Stores(c) PROVE TypeOK'
    <2>1. AfterInsert(req[c].path) \in Nat
        BY DEF AfterInsert, Rows
    <2>2. step' \in [Paths -> Rows]
        <3> DEFINE row == [Here(c) EXCEPT !.copies = AfterInsert(req[c].path)]
        <3>1. row \in Rows
            BY <2>1, HereTyped DEF Rows
        <3>2. step' = [step EXCEPT ![req[c].path] = row]
            BY <1>11, StoreStep DEF StoreRows, Here
        <3> HIDE DEF row
        <3>3. step \in [Paths -> Rows] /\ req[c].path \in Paths
            BY HereTyped
        <3> QED  BY <3>1, <3>2, <3>3
    <2>3. /\ pc' \in [Calls -> PCs] /\ cause' \in [Calls -> Causes]
          /\ goal' \in [Calls -> {"refuse", "fail", "complete"}]
        BY <1>11, StoreStep DEF Causes
    <2>4. edits' \in Nat /\ faults' \in Nat /\ editor' = editor
        BY <1>11, StoreStep
    <2>5. StoreRows(c)
        BY <1>11, StoreStep
    <2> QED  BY <2>2, <2>3, <2>4, <2>5 DEF StoreRows
<1>12. ASSUME NEW c \in Calls, InsertFails(c) PROVE TypeOK'
    BY <1>12 DEF InsertFails, Fail, Unlock, Causes
<1>13. ASSUME NEW c \in Calls, Tell(c) PROVE TypeOK'
    BY <1>13 DEF Tell
<1>14. ASSUME NEW c \in Calls, Cleanup(c) PROVE TypeOK'
    <2>1. pc' \in [Calls -> PCs]
        BY <1>14 DEF Cleanup, Finish
    <2>2. tries' \in [Calls -> Nat]
        <3>1. tries[c] + 1 \in Nat
            OBVIOUS
        <3>2. tries' = tries \/ tries' = [tries EXCEPT ![c] = tries[c] + 1]
            BY <1>14 DEF Cleanup, Finish
        <3> QED  BY <3>1, <3>2
    <2>3. s3' \subseteq Calls
        BY <1>14 DEF Cleanup
    <2> QED  BY <1>14, <2>1, <2>2, <2>3 DEF Cleanup
<1>15. ASSUME NEW c \in Calls, Fault(c) PROVE TypeOK'
    <2>1. CASE PublishFails(c)  BY <2>1 DEF PublishFails, Unlock
    <2>2. CASE CleanupFails(c)  BY <2>2 DEF CleanupFails, Finish
    <2>3. CASE Crash(c)         BY <2>3 DEF Crash, Dies
    <2>4. CASE Redeliver(c)     BY <2>4 DEF Redeliver, Dies
    <2> QED  BY <1>15, <2>1, <2>2, <2>3, <2>4 DEF Fault
<1>16. ASSUME Edit PROVE TypeOK'
    <2>1. ASSUME NEW op \in {"create", "delete"}, NEW p \in Paths, EditCheck(op, p)
          PROVE  TypeOK'
        BY <2>1 DEF EditCheck
    <2>2. CASE DeleteStep
        <3>1. NoStep \in Rows
            BY DEF NoStep, Rows, Tables, Stages
        <3> QED  BY <2>2, <3>1 DEF DeleteStep, EditDone
    <2>3. CASE CreateStep    BY <2>3 DEF CreateStep
    <2>4. CASE CreateCommit
        <3>1. \A f \in Tables : NewStep(nextId, f) \in Rows
            BY DEF NewStep, Rows, Stages
        <3>2. step' \in [Paths -> Rows]
            BY <2>4, <3>1 DEF CreateCommit
        <3>3. editor' \in [op : {"idle", "create", "create_commit", "delete"},
                           path : Paths]
            BY <2>4 DEF CreateCommit, EditDone
        <3>4. nextId' \in Nat
            BY <2>4 DEF CreateCommit
        <3> QED  BY <2>4, <3>2, <3>3, <3>4 DEF CreateCommit
    <2>5. CASE EditRefused   BY <2>5 DEF EditRefused, EditDone
    <2>6. CASE SetMutable    BY <2>6 DEF SetMutable
    <2> QED  BY <1>16, <2>1, <2>2, <2>3, <2>4, <2>5, <2>6 DEF Edit
<1>17. CASE UNCHANGED vars
    BY <1>17 DEF vars
<1> QED
    BY <1>1, <1>2, <1>3, <1>4, <1>5, <1>6, <1>7, <1>8, <1>9, <1>10, <1>11, <1>12,
       <1>13, <1>14, <1>15, <1>16, <1>17 DEF Next, Stores, Progress, Quiet

THEOREM UploadTyped == Spec => []TypeOK
BY InitTyped, NextTyped, PTL DEF Spec

(***************************************************************************)
(* The edges of a model and the clusters of a resolver are stored at most  *)
(* once whatever the task runner, the faults and the edits: the unique     *)
(* constraint and ON CONFLICT DO NOTHING do it, not the lock.              *)
(***************************************************************************)
THEOREM EdgesAreSetOnce == Spec => []EdgesSetOnce
<1>1. Init => EdgesSetOnce
    BY DEF Init, EdgesSetOnce, NoStep, NewStep
<1>2. TypeOK /\ EdgesSetOnce /\ [Next]_vars => EdgesSetOnce'
    <2> SUFFICES ASSUME TypeOK, EdgesSetOnce, [Next]_vars PROVE EdgesSetOnce'
        OBVIOUS
    <2>1. CASE \A p \in Paths : step'[p].copies = step[p].copies
        BY <2>1 DEF EdgesSetOnce
    <2>2. ASSUME NEW c \in Calls, LockCommit(c) \/ UnlockCommit(c) PROVE EdgesSetOnce'
        <3>1. UNCHANGED step \/ \E s : SetStage(req[c].path, s)
            BY <2>2 DEF LockCommit, UnlockCommit
        <3> QED  BY <2>1, <3>1, HereTyped, StageSet
    <2>3. ASSUME NEW c \in Calls, Stores(c) PROVE EdgesSetOnce'
        <3> DEFINE p == req[c].path
        <3>1. StoreRows(c)
            BY <2>3, StoreStep
        <3>2. p \in Paths /\ (StepTypeOf[p] = "model" => step[p].copies = 0)
            BY <3>1, HereTyped DEF StoreRows, InsertAllowed, Here
        <3>3. \A q \in Paths :
                step'[q].copies = IF q = p THEN AfterInsert(p) ELSE step[q].copies
            BY <3>1, <3>2 DEF StoreRows, TypeOK, Rows
        <3>4. StepTypeOf[p] \in {"source", "model", "resolver"}
            BY <3>2, UploadAssumption
        <3>5. StepTypeOf[p] # "source" => AfterInsert(p) = 1
            BY <3>2, <3>4 DEF AfterInsert
        <3> QED  BY <3>3, <3>5 DEF EdgesSetOnce
    <2>4. CASE CreateCommit \/ DeleteStep
        <3>1. \A q \in Paths : step'[q].copies \in {0, step[q].copies}
            BY <2>4 DEF CreateCommit, DeleteStep, NoStep, NewStep, TypeOK
        <3> QED  BY <3>1 DEF EdgesSetOnce
    <2>5. ASSUME NEW c \in Calls,
                 \/ Request(c) \/ LockSelect(c) \/ Accept(c) \/ Refuse(c)
                 \/ UnlockCheck(c) \/ UnlockSelect(c) \/ Start(c) \/ Validate(c)
                 \/ InsertFails(c) \/ Tell(c) \/ Cleanup(c) \/ Fault(c)
          PROVE  EdgesSetOnce'
        BY <2>1, <2>5
        DEF Request, LockSelect, Accept, Refuse, UnlockCheck, UnlockSelect, Start,
            Validate, InsertFails, Tell, Cleanup, Fault, PublishFails, CleanupFails,
            Crash, Redeliver, Dies, dbVars
    <2>6. CASE \/ CreateStep \/ EditRefused \/ SetMutable
               \/ \E op \in {"create", "delete"}, p \in Paths : EditCheck(op, p)
        BY <2>1, <2>6 DEF CreateStep, EditRefused, SetMutable, EditCheck, dbVars
    <2> QED
        BY <2>1, <2>2, <2>3, <2>4, <2>5, <2>6 DEF Next, Stores, Progress, Edit, Quiet, vars
<1> QED
    BY <1>1, <1>2, UploadTyped, PTL DEF Spec

-----------------------------------------------------------------------------
(***************************************************************************)
(* One upload at a time.  The theorems below are about background tasks of *)
(* the API server, that are not retried, in a run no step is deleted from: *)
(* without either restriction a run of TLC shows them false.  Crashes,     *)
(* steps that are created and changes of is_mutable are all allowed.       *)
(***************************************************************************)
ApiUploads == TaskRunner = "api" /\ "delete" \notin EditOps

LEMMA InitInv == Init => UploadInv
<1> SUFFICES ASSUME Init PROVE UploadInv
    OBVIOUS
<1>1. \A p \in Paths : step[p].stage = "READY" /\ step[p].copies = 0
    BY DEF Init, NoStep, NewStep
<1>2. \A c \in Calls : pc[c] = "idle" /\ ~Holds(c)
    BY DEF Init, Holds, UnlockPCs
<1>3. LockOwned
    BY <1>2, UploadAssumption DEF Init, LockOwned
<1>4. CreatesNew /\ AbsentIsBlank /\ DataSetOnce
    BY <1>1 DEF Init, CreatesNew, AbsentIsBlank, DataSetOnce
<1> QED
    BY <1>2, <1>3, <1>4
    DEF UploadInv, LockedRead, HeldIsProcessing, InsertIsFirst, OneUpload

(* A call that moves on without touching a row or a lock: it must not come *)
(* to hold a step, and may be about to insert only where there is no data. *)
LEMMA CallMoves ==
    ASSUME TypeOK, UploadInv, NEW c \in Calls, NEW to \in PCs,
           UNCHANGED <<step, nextId, rowLock, req, editor>>,
           pc' = [pc EXCEPT ![c] = to],
           \A d \in Calls \ {c} : saw'[d] = saw[d],
           pc[c] \notin {"lock_set", "unlock_set"},
           to \notin {"lock_set", "unlock_set"},
           to \in {"accept", "queued", "validate", "insert"} \cup UnlockPCs => Holds(c),
           to = "insert" => Here(c).copies = 0
    PROVE  UploadInv'
<1>1. \A d \in Calls : Here(d)' = Here(d) /\ Present(d)' = Present(d)
    BY DEF Here, Present
<1>2. \A d \in Calls : pc'[d] = IF d = c THEN to ELSE pc[d]
    BY DEF TypeOK
<1>3. \A d \in Calls : Holds(d)' => Holds(d)
    BY <1>2 DEF Holds
<1>4. LockOwned'
    BY <1>2 DEF UploadInv, LockOwned
<1>5. LockedRead'
    BY <1>1, <1>2 DEF UploadInv, LockedRead
<1>6. HeldIsProcessing'
    BY <1>1, <1>3 DEF UploadInv, HeldIsProcessing
<1>7. InsertIsFirst'
    BY <1>1, <1>2 DEF UploadInv, InsertIsFirst
<1>8. OneUpload'
    BY <1>3 DEF UploadInv, OneUpload
<1>9. AbsentIsBlank' /\ DataSetOnce' /\ CreatesNew'
    BY DEF UploadInv, AbsentIsBlank, DataSetOnce, CreatesNew
<1> QED
    BY <1>4, <1>5, <1>6, <1>7, <1>8, <1>9 DEF UploadInv

LEMMA LockSelectInv ==
    ASSUME TypeOK, UploadInv, NEW c \in Calls, LockSelect(c) PROVE UploadInv'
<1>1. CASE Present(c) /\ rowLock = Free
    <2>1. /\ rowLock' = c /\ pc' = [pc EXCEPT ![c] = "lock_set"]
          /\ saw' = [saw EXCEPT ![c] = [id |-> Here(c).id, stage |-> Here(c).stage]]
          /\ UNCHANGED <<step, nextId, req, editor>>
        BY <1>1 DEF LockSelect, Goto, dbVars, envVars
    <2>2. \A d \in Calls : pc'[d] = IF d = c THEN "lock_set" ELSE pc[d]
        BY <2>1 DEF TypeOK
    <2>3. saw'[c].stage = Here(c).stage /\ \A d \in Calls \ {c} : saw'[d] = saw[d]
        BY <2>1 DEF TypeOK
    <2>4. \A d \in Calls : Holds(d)' => Holds(d)
        BY <2>2 DEF Holds, UnlockPCs
    <2>5. LockOwned'
        BY <1>1, <2>1, <2>2, UploadAssumption DEF UploadInv, LockOwned
    <2>6. LockedRead'
        BY <1>1, <2>1, <2>2, <2>3 DEF UploadInv, LockedRead, Here, Present
    <2>7. HeldIsProcessing' /\ OneUpload'
        BY <2>1, <2>4 DEF UploadInv, HeldIsProcessing, OneUpload, Here, Present
    <2>8. InsertIsFirst' /\ AbsentIsBlank' /\ DataSetOnce' /\ CreatesNew'
        BY <2>1, <2>2
        DEF UploadInv, InsertIsFirst, AbsentIsBlank, DataSetOnce, CreatesNew, Here
    <2> QED  BY <2>5, <2>6, <2>7, <2>8 DEF UploadInv
<1>2. CASE ~(Present(c) /\ rowLock = Free)
    <2>1. UNCHANGED <<step, nextId, rowLock, req, editor, saw>>
        BY <1>2 DEF LockSelect, dbVars, envVars
    <2>2. pc' = [pc EXCEPT ![c] = "refused"] /\ pc[c] = "lock"
        BY <1>2 DEF LockSelect, Goto
    <2> QED  BY <2>1, <2>2, CallMoves DEF PCs, EndPCs, UnlockPCs
<1> QED
    BY <1>1, <1>2

(* The commit of lock_step_data: what was read under the row lock still    *)
(* stands, so a READY step is held by nobody.                              *)
LEMMA LockCommitInv ==
    ASSUME TypeOK, UploadInv, NEW c \in Calls, LockCommit(c) PROVE UploadInv'
<1> DEFINE p == req[c].path
<1>1. /\ pc[c] = "lock_set" /\ rowLock = c /\ rowLock' = Free
      /\ saw[c].stage = step[p].stage /\ step[p].id # 0
      /\ UNCHANGED <<nextId, req, saw, editor>>
    BY DEF LockCommit, UploadInv, LockOwned, LockedRead, Here, Present, envVars
<1>2. p \in Paths
    BY HereTyped
<1>3. PICK to \in {"accept", "refused"} :
        /\ pc' = [pc EXCEPT ![c] = to]
        /\ to = "accept" => saw[c].stage = "READY" /\ SetStage(p, "PROCESSING")
        /\ to = "refused" => UNCHANGED step
    BY DEF LockCommit, Goto
<1>4. \A d \in Calls : pc'[d] = IF d = c THEN to ELSE pc[d]
    BY <1>3 DEF TypeOK
<1>5. \A q \in Paths :
        /\ step'[q].id = step[q].id /\ step'[q].copies = step[q].copies
        /\ step'[q].stage = IF q = p /\ to = "accept" THEN "PROCESSING" ELSE step[q].stage
    BY <1>2, <1>3, StageSet
<1>6. \A d \in Calls : d # c => ~(pc[d] \in {"lock_set", "unlock_set"})
    BY <1>1 DEF UploadInv, LockOwned
<1>7. LockOwned' /\ LockedRead'
    BY <1>1, <1>4, <1>6, UploadAssumption DEF UploadInv, LockOwned, LockedRead
<1>8. \A d \in Calls : req[d].path \in Paths
    BY HereTyped
<1>9. \A d \in Calls : Holds(d)' /\ d # c => Holds(d)
    BY <1>4 DEF Holds, UnlockPCs
<1>10. to = "accept" => \A d \in Calls : Holds(d) => req[d].path # p
    BY <1>1, <1>3 DEF UploadInv, HeldIsProcessing, Here
<1>11. Holds(c)' => to = "accept"
    BY <1>4 DEF Holds, UnlockPCs
<1>12. HeldIsProcessing'
    BY <1>1, <1>5, <1>8, <1>9, <1>11 DEF UploadInv, HeldIsProcessing, Here, Present
<1>13. OneUpload'
    BY <1>1, <1>9, <1>10, <1>11 DEF UploadInv, OneUpload
<1>14. InsertIsFirst'
    BY <1>1, <1>4, <1>5, <1>8 DEF UploadInv, InsertIsFirst, Here
<1>15. AbsentIsBlank' /\ DataSetOnce'
    BY <1>1, <1>5 DEF UploadInv, AbsentIsBlank, DataSetOnce
<1>16. CreatesNew'
    BY <1>1, <1>5 DEF UploadInv, CreatesNew, TypeOK
<1> QED
    BY <1>7, <1>12, <1>13, <1>14, <1>15, <1>16 DEF UploadInv

(* The commit of unlock_step_data, by the only call that holds the step.   *)
LEMMA UnlockCommitInv ==
    ASSUME TypeOK, UploadInv, NEW c \in Calls, UnlockCommit(c) PROVE UploadInv'
<1> DEFINE p  == req[c].path
           s  == IF goal[c] = "complete" THEN "COMPLETE" ELSE "READY"
           to == AfterUnlock[goal[c]]
<1>1. /\ pc[c] = "unlock_set" /\ rowLock = c /\ rowLock' = Free
      /\ step[p].id # 0
      /\ pc' = [pc EXCEPT ![c] = to] /\ SetStage(p, s)
      /\ UNCHANGED <<nextId, req, saw, editor>>
    BY DEF UnlockCommit, UploadInv, LockOwned, HeldIsProcessing, Holds, UnlockPCs,
           Here, Present, Goto, envVars
<1>2. to \in {"cleanup", "tell", "refused"}
    BY DEF AfterUnlock, TypeOK
<1>3. p \in Paths /\ \A d \in Calls : req[d].path \in Paths
    BY HereTyped
<1> HIDE DEF s, to
<1>4. \A d \in Calls : pc'[d] = IF d = c THEN to ELSE pc[d]
    BY <1>1 DEF TypeOK
<1>5. \A q \in Paths :
        /\ step'[q].id = step[q].id /\ step'[q].copies = step[q].copies
        /\ step'[q].stage = IF q = p THEN s ELSE step[q].stage
    BY <1>1, <1>3, StageSet
<1>6. \A d \in Calls : d # c => ~(pc[d] \in {"lock_set", "unlock_set"})
    BY <1>1 DEF UploadInv, LockOwned
<1>7. LockOwned' /\ LockedRead'
    BY <1>1, <1>2, <1>4, <1>6, UploadAssumption DEF UploadInv, LockOwned, LockedRead
<1>8. \A d \in Calls : Holds(d)' => Holds(d) /\ d # c
    BY <1>2, <1>4 DEF Holds, UnlockPCs
<1>9. \A d \in Calls : Holds(d)' => req[d].path # p
    BY <1>1, <1>8 DEF UploadInv, OneUpload, Holds, UnlockPCs
<1>10. HeldIsProcessing' /\ OneUpload'
    BY <1>1, <1>3, <1>5, <1>8, <1>9
    DEF UploadInv, HeldIsProcessing, OneUpload, Here, Present
<1>11. InsertIsFirst'
    BY <1>1, <1>2, <1>3, <1>4, <1>5 DEF UploadInv, InsertIsFirst, Here
<1>12. AbsentIsBlank' /\ DataSetOnce'
    BY <1>1, <1>5 DEF UploadInv, AbsentIsBlank, DataSetOnce
<1>13. CreatesNew'
    BY <1>1, <1>5 DEF UploadInv, CreatesNew, TypeOK
<1> QED
    BY <1>7, <1>10, <1>11, <1>12, <1>13 DEF UploadInv

LEMMA UnlockSelectInv ==
    ASSUME TypeOK, UploadInv, NEW c \in Calls, UnlockSelect(c) PROVE UploadInv'
<1>1. CASE Present(c) /\ rowLock = Free
    <2>1. /\ pc[c] = "unlock_select" /\ rowLock' = c
          /\ pc' = [pc EXCEPT ![c] = "unlock_set"]
          /\ UNCHANGED <<step, nextId, req, saw, editor>>
        BY <1>1 DEF UnlockSelect, Goto, dbVars, envVars
    <2>2. \A d \in Calls : pc'[d] = IF d = c THEN "unlock_set" ELSE pc[d]
        BY <2>1 DEF TypeOK
    <2>3. \A d \in Calls : Holds(d)' => Holds(d)
        BY <2>1, <2>2 DEF Holds, UnlockPCs
    <2>4. LockOwned'
        BY <1>1, <2>1, <2>2, UploadAssumption DEF UploadInv, LockOwned
    <2>5. LockedRead' /\ InsertIsFirst'
        BY <2>1, <2>2 DEF UploadInv, LockedRead, InsertIsFirst, Here, Present
    <2>6. HeldIsProcessing' /\ OneUpload'
        BY <2>1, <2>3 DEF UploadInv, HeldIsProcessing, OneUpload, Here, Present
    <2>7. AbsentIsBlank' /\ DataSetOnce' /\ CreatesNew'
        BY <2>1 DEF UploadInv, AbsentIsBlank, DataSetOnce, CreatesNew
    <2> QED  BY <2>4, <2>5, <2>6, <2>7 DEF UploadInv
<1>2. CASE ~(Present(c) /\ rowLock = Free)
    <2>1. UNCHANGED <<step, nextId, rowLock, req, editor, saw>>
        BY <1>2 DEF UnlockSelect, dbVars, envVars
    <2>2. \E to \in {"refused", "unlock", "cleanup"} :
             pc[c] = "unlock_select" /\ pc' = [pc EXCEPT ![c] = to]
        BY <1>2 DEF UnlockSelect, UnlockRaises, Fail, Unlock, Goto
    <2> QED  BY <2>1, <2>2, CallMoves DEF PCs, EndPCs, TaskPCs, UnlockPCs, Holds
<1> QED
    BY <1>1, <1>2

(* The insert, by the only call that holds the step, into a step that has  *)
(* no data: whichever its type, it leaves one copy, and does so too when   *)
(* the task fails after the commit.                                        *)
LEMMA InsertInv ==
    ASSUME TypeOK, UploadInv, NEW c \in Calls, Stores(c)
    PROVE  /\ UploadInv'
           /\ step[req[c].path].stage = "PROCESSING" /\ step[req[c].path].copies = 0
           /\ step' = [step EXCEPT ![req[c].path].copies = 1]
<1> DEFINE p == req[c].path
<1>1. p \in Paths /\ \A d \in Calls : req[d].path \in Paths
    BY HereTyped
<1>2. Holds(c) /\ pc[c] = "insert"
    BY StoreStep DEF StoreRows, Holds
<1>3. step[p].stage = "PROCESSING" /\ step[p].id # 0 /\ step[p].copies = 0
    BY <1>2 DEF UploadInv, HeldIsProcessing, InsertIsFirst, Here, Present
<1>4. /\ step' = [step EXCEPT ![p].copies = 1]
      /\ pc' = [pc EXCEPT ![c] = "unlock"]
      /\ UNCHANGED <<nextId, rowLock, req, saw, editor>>
    BY <1>3, StoreStep DEF StoreRows, AfterInsert, envVars
<1>5. \A q \in Paths :
        /\ step'[q].id = step[q].id /\ step'[q].stage = step[q].stage
        /\ step'[q].copies = IF q = p THEN 1 ELSE step[q].copies
    BY <1>1, <1>4 DEF TypeOK, Rows
<1>6. \A d \in Calls : pc'[d] = IF d = c THEN "unlock" ELSE pc[d]
    BY <1>4 DEF TypeOK
<1>7. \A d \in Calls : Holds(d)' => Holds(d)
    BY <1>2, <1>6 DEF Holds
<1>8. \A d \in Calls : pc'[d] = "insert" => req[d].path # p
    BY <1>2, <1>6 DEF UploadInv, OneUpload, Holds
<1>9. LockOwned'
    BY <1>2, <1>4, <1>6 DEF UploadInv, LockOwned
<1>10. LockedRead'
    BY <1>1, <1>4, <1>5, <1>6 DEF UploadInv, LockedRead, Here, Present
<1>11. HeldIsProcessing' /\ OneUpload'
    BY <1>1, <1>4, <1>5, <1>7
    DEF UploadInv, HeldIsProcessing, OneUpload, Here, Present
<1>12. InsertIsFirst'
    BY <1>1, <1>4, <1>5, <1>6, <1>8 DEF UploadInv, InsertIsFirst, Here
<1>13. AbsentIsBlank' /\ DataSetOnce'
    BY <1>3, <1>5 DEF UploadInv, AbsentIsBlank, DataSetOnce
<1>14. CreatesNew'
    BY <1>4, <1>5 DEF UploadInv, CreatesNew, TypeOK
<1> QED
    BY <1>3, <1>4, <1>9, <1>10, <1>11, <1>12, <1>13, <1>14 DEF UploadInv

LEMMA CrashInv ==
    ASSUME TypeOK, UploadInv, NEW c \in Calls, Crash(c) PROVE UploadInv'
<1>1. /\ pc' = [pc EXCEPT ![c] = "lost"]
      /\ rowLock' = IF rowLock = c THEN Free ELSE rowLock
      /\ UNCHANGED <<step, nextId, req, saw, editor>>
    BY DEF Crash, Dies, Goto, dbVars
<1>2. \A d \in Calls : pc'[d] = IF d = c THEN "lost" ELSE pc[d]
    BY <1>1 DEF TypeOK
<1>3. \A d \in Calls : Holds(d)' => Holds(d)
    BY <1>2 DEF Holds, UnlockPCs
<1>4. LockOwned'
    BY <1>1, <1>2, UploadAssumption DEF UploadInv, LockOwned
<1>5. LockedRead' /\ InsertIsFirst'
    BY <1>1, <1>2 DEF UploadInv, LockedRead, InsertIsFirst, Here, Present
<1>6. HeldIsProcessing' /\ OneUpload'
    BY <1>1, <1>3 DEF UploadInv, HeldIsProcessing, OneUpload, Here, Present
<1>7. AbsentIsBlank' /\ DataSetOnce' /\ CreatesNew'
    BY <1>1 DEF UploadInv, AbsentIsBlank, DataSetOnce, CreatesNew
<1> QED
    BY <1>4, <1>5, <1>6, <1>7 DEF UploadInv

LEMMA EditInv ==
    ASSUME ApiUploads, TypeOK, UploadInv, Edit PROVE UploadInv'
<1>1. CASE UNCHANGED <<step, nextId, pc, req, saw, rowLock>> /\ CreatesNew'
           /\ (editor'.op = "create_commit" <=> editor.op = "create_commit")
    BY <1>1 DEF UploadInv, LockOwned, LockedRead, HeldIsProcessing, InsertIsFirst,
                AbsentIsBlank, OneUpload, DataSetOnce, Holds, Here, Present
<1>2. ASSUME NEW op \in {"create", "delete"}, NEW q \in Paths, EditCheck(op, q)
      PROVE  UploadInv'
    <2>1. editor' = [op |-> op, path |-> q] /\ op = "create" /\ editor.op = "idle"
        BY <1>2 DEF EditCheck, ApiUploads
    <2>2. UNCHANGED <<step, nextId, pc, req, saw, rowLock>>
        BY <1>2 DEF EditCheck, dbVars, callVars
    <2> QED  BY <1>1, <2>1, <2>2 DEF UploadInv, CreatesNew
<1>3. CASE DeleteStep
    BY <1>3 DEF DeleteStep, UploadInv, CreatesNew
<1>4. CASE CreateStep
    <2>1. /\ rowLock = Free /\ rowLock' = Editor /\ step[editor.path].id = 0
          /\ editor'.op = "create_commit" /\ editor'.path = editor.path
          /\ UNCHANGED <<step, nextId, pc, req, saw>>
        BY <1>4 DEF CreateStep, dbVars, callVars, TypeOK
    <2>2. LockOwned'
        BY <2>1, UploadAssumption DEF UploadInv, LockOwned
    <2>3. CreatesNew'
        BY <2>1 DEF UploadInv, CreatesNew
    <2> QED
        BY <2>1, <2>2, <2>3
        DEF UploadInv, LockedRead, HeldIsProcessing, InsertIsFirst, AbsentIsBlank,
            OneUpload, DataSetOnce, Holds, Here, Present
<1>5. CASE CreateCommit
    <2>1. PICK f \in Tables : step' = [step EXCEPT ![editor.path] = NewStep(nextId, f)]
        BY <1>5 DEF CreateCommit
    <2>2. /\ editor.op = "create_commit" /\ editor'.op = "idle"
          /\ rowLock = Editor /\ rowLock' = Free
          /\ nextId' = nextId + 1 /\ nextId > 0 /\ nextId \in Nat
          /\ UNCHANGED <<pc, req, saw>>
        BY <1>5 DEF CreateCommit, EditDone, callVars, TypeOK, UploadInv, LockOwned,
                    CreatesNew
    <2>3. editor.path \in Paths /\ step[editor.path].id = 0
        BY <2>2 DEF TypeOK, UploadInv, CreatesNew
    <2>4. \A q \in Paths : step'[q] = IF q = editor.path THEN NewStep(nextId, f) ELSE step[q]
        BY <2>1 DEF TypeOK
    <2>5. \A d \in Calls : Holds(d) => req[d].path # editor.path
        BY <2>3 DEF UploadInv, HeldIsProcessing, Here, Present
    <2>6. \A d \in Calls : pc[d] \notin {"lock_set", "unlock_set"}
        BY <2>2, UploadAssumption DEF UploadInv, LockOwned
    <2>7. \A d \in Calls : req[d].path \in Paths
        BY HereTyped
    <2>8. LockOwned' /\ LockedRead'
        BY <2>2, <2>6, UploadAssumption DEF LockOwned, LockedRead
    <2>9. HeldIsProcessing' /\ OneUpload'
        BY <2>2, <2>4, <2>5, <2>7
        DEF UploadInv, HeldIsProcessing, OneUpload, Holds, Here, Present
    <2>10. InsertIsFirst'
        BY <2>2, <2>4, <2>5, <2>7 DEF UploadInv, InsertIsFirst, Holds, Here
    <2>11. AbsentIsBlank' /\ DataSetOnce' /\ CreatesNew'
        BY <2>2, <2>3, <2>4
        DEF UploadInv, AbsentIsBlank, DataSetOnce, CreatesNew, NewStep
    <2> QED  BY <2>8, <2>9, <2>10, <2>11 DEF UploadInv
<1>6. CASE EditRefused
    BY <1>1, <1>6 DEF EditRefused, EditDone, TypeOK, dbVars, callVars, UploadInv,
                      CreatesNew
<1>7. CASE SetMutable
    BY <1>1, <1>7 DEF SetMutable, callVars, UploadInv, CreatesNew
<1> QED
    BY <1>2, <1>3, <1>4, <1>5, <1>6, <1>7 DEF Edit

LEMMA NextInv ==
    ASSUME ApiUploads, TypeOK, UploadInv, [Next]_vars PROVE UploadInv'
<1> USE DEF PCs, EndPCs, TaskPCs, UnlockPCs, Holds
<1>1. ASSUME NEW c \in Calls, Request(c) PROVE UploadInv'
    <2>1. PICK to \in {"lock", "refused"} : pc' = [pc EXCEPT ![c] = to]
        BY <1>1 DEF Request, Goto
    <2> QED  BY <1>1, <2>1, CallMoves DEF Request, dbVars, envVars
<1>2. ASSUME NEW c \in Calls, Accept(c) PROVE UploadInv'
    BY <1>2, CallMoves DEF Accept, Goto, dbVars, envVars
<1>3. ASSUME NEW c \in Calls, Refuse(c) PROVE UploadInv'
    BY <1>3, CallMoves DEF Refuse, Unlock, Goto, dbVars, envVars
<1>4. ASSUME NEW c \in Calls, UnlockCheck(c) PROVE UploadInv'
    <2>1. PICK to \in {"unlock_select", "refused", "unlock", "cleanup"} :
              pc[c] = "unlock" /\ pc' = [pc EXCEPT ![c] = to]
        BY <1>4 DEF UnlockCheck, UnlockRaises, Fail, Unlock, Goto
    <2> QED  BY <1>4, <2>1, CallMoves DEF UnlockCheck, dbVars, envVars
<1>5. ASSUME NEW c \in Calls, Start(c) PROVE UploadInv'
    <2>1. PICK to \in {"validate", "unlock"} :
              pc[c] = "queued" /\ pc' = [pc EXCEPT ![c] = to]
        BY <1>5 DEF Start, Fail, Unlock, Goto
    <2> QED  BY <1>5, <2>1, CallMoves DEF Start, dbVars, envVars
<1>6. ASSUME NEW c \in Calls, Validate(c) PROVE UploadInv'
    <2>1. PICK to \in {"insert", "unlock"} :
              /\ pc[c] = "validate" /\ pc' = [pc EXCEPT ![c] = to]
              /\ to = "insert" => Here(c).copies = 0
        BY <1>6 DEF Validate, CanInsert, Fail, Succeed, Unlock, Goto
    <2>2. \A d \in Calls \ {c} : saw'[d] = saw[d]
        BY <1>6 DEF Validate, TypeOK
    <2> QED  BY <1>6, <2>1, <2>2, CallMoves DEF Validate, dbVars, envVars
<1>7. ASSUME NEW c \in Calls, InsertFails(c) PROVE UploadInv'
    <2>1. PICK to \in {"unlock"} : pc[c] = "insert" /\ pc' = [pc EXCEPT ![c] = to]
        BY <1>7 DEF InsertFails, Fail, Unlock, Goto
    <2>2. UNCHANGED <<step, nextId, rowLock, req, editor, saw>>
        BY <1>7 DEF InsertFails, dbVars, envVars
    <2> QED  BY <2>1, <2>2, CallMoves
<1>8. ASSUME NEW c \in Calls, Tell(c) PROVE UploadInv'
    BY <1>8, CallMoves DEF Tell, Goto, dbVars, envVars
<1>9. ASSUME NEW c \in Calls, Cleanup(c) \/ CleanupFails(c) PROVE UploadInv'
    <2>1. PICK to \in {"done", "failed"} :
              pc[c] = "cleanup" /\ pc' = [pc EXCEPT ![c] = to]
        BY <1>9 DEF Cleanup, CleanupFails, Finish, Goto, ApiUploads
    <2>2. UNCHANGED <<step, nextId, rowLock, req, editor, saw>>
        BY <1>9 DEF Cleanup, CleanupFails, dbVars, envVars
    <2> QED  BY <2>1, <2>2, CallMoves
<1>10. ASSUME NEW c \in Calls, PublishFails(c) \/ Redeliver(c) PROVE UploadInv'
    BY <1>10 DEF PublishFails, Redeliver, ApiUploads
<1>11. CASE UNCHANGED vars
    <2>1. UNCHANGED <<step, nextId, rowLock, req, editor, saw, pc>>
        BY <1>11 DEF vars
    <2>2. LockOwned' /\ LockedRead' /\ HeldIsProcessing' /\ InsertIsFirst'
        BY <2>1 DEF UploadInv, LockOwned, LockedRead, HeldIsProcessing, InsertIsFirst,
                    Here, Present
    <2>3. AbsentIsBlank' /\ CreatesNew' /\ OneUpload' /\ DataSetOnce'
        BY <2>1 DEF UploadInv, AbsentIsBlank, CreatesNew, OneUpload, DataSetOnce
    <2> QED  BY <2>2, <2>3 DEF UploadInv
<1> QED
    BY <1>1, <1>2, <1>3, <1>4, <1>5, <1>6, <1>7, <1>8, <1>9, <1>10, <1>11,
       LockSelectInv, LockCommitInv, UnlockSelectInv, UnlockCommitInv, InsertInv,
       CrashInv, EditInv
    DEF Next, Stores, Progress, Fault, Quiet

LEMMA UploadInvariant == ASSUME ApiUploads PROVE Spec => [](TypeOK /\ UploadInv)
<1>1. Init => TypeOK /\ UploadInv
    BY InitTyped, InitInv
<1>2. TypeOK /\ UploadInv /\ [Next]_vars => (TypeOK /\ UploadInv)'
    BY NextTyped, NextInv
<1> QED
    BY <1>1, <1>2, PTL DEF Spec

(* No two calls ever work on the data of one step.                         *)
THEOREM OneUploadAtATime == ASSUME ApiUploads PROVE Spec => []OneUpload
<1>1. UploadInv => OneUpload
    BY DEF UploadInv
<1> QED
    BY <1>1, UploadInvariant, PTL

(* The data of a step is stored at most once.                              *)
THEOREM DataIsSetOnce == ASSUME ApiUploads PROVE Spec => []DataSetOnce
<1>1. UploadInv => DataSetOnce
    BY DEF UploadInv
<1> QED
    BY <1>1, UploadInvariant, PTL

-----------------------------------------------------------------------------
(***************************************************************************)
(* What a step does to the stage and the data of the steps: it declares a  *)
(* new step, or makes one of the moves that UploadContract allows.         *)
(***************************************************************************)
StageOf(p)  == IF step[p].id = 0 THEN "ABSENT" ELSE step[p].stage
ContractMove ==
    \/ UNCHANGED step
    \/ \E p \in Paths :
        \/ \E s \in Stages :
              /\ SetStage(p, s) /\ step[p].id # 0
              /\ \/ step[p].stage = "READY" /\ s = "PROCESSING"
                 \/ step[p].stage = "PROCESSING" /\ s \in {"READY", "COMPLETE"}
        \/ /\ step[p].id # 0 /\ step[p].stage = "PROCESSING" /\ step[p].copies = 0
           /\ step' = [step EXCEPT ![p].copies = 1]
        \/ \E id \in Nat, f \in Tables :
              /\ step[p].id = 0 /\ step[p].copies = 0 /\ id > 0
              /\ step' = [step EXCEPT ![p] = NewStep(id, f)]

LEMMA StepMoves ==
    ASSUME ApiUploads, TypeOK, UploadInv, [Next]_vars PROVE ContractMove
<1>1. ASSUME NEW c \in Calls, LockCommit(c) PROVE ContractMove
    <2>1. /\ rowLock = c /\ saw[c].stage = Here(c).stage /\ Present(c)
          /\ req[c].path \in Paths
        BY <1>1, HereTyped DEF LockCommit, UploadInv, LockOwned, LockedRead
    <2> QED  BY <1>1, <2>1 DEF LockCommit, ContractMove, Here, Present, Stages
<1>2. ASSUME NEW c \in Calls, UnlockCommit(c) PROVE ContractMove
    <2>1. Here(c).stage = "PROCESSING" /\ Present(c) /\ req[c].path \in Paths
        BY <1>2, HereTyped DEF UnlockCommit, UploadInv, HeldIsProcessing, Holds, UnlockPCs
    <2>2. PICK s \in {"READY", "COMPLETE"} : SetStage(req[c].path, s)
        BY <1>2 DEF UnlockCommit
    <2> QED  BY <2>1, <2>2 DEF ContractMove, Here, Present, Stages
<1>3. ASSUME NEW c \in Calls, Stores(c) PROVE ContractMove
    <2>1. Present(c) /\ req[c].path \in Paths
        BY <1>3, HereTyped, StoreStep DEF StoreRows, UploadInv, HeldIsProcessing, Holds
    <2> QED  BY <1>3, <2>1, InsertInv DEF ContractMove, Here, Present
<1>4. CASE CreateCommit
    <2>1. PICK f \in Tables : step' = [step EXCEPT ![editor.path] = NewStep(nextId, f)]
        BY <1>4 DEF CreateCommit
    <2>2. /\ nextId \in Nat /\ nextId > 0 /\ editor.path \in Paths
          /\ step[editor.path].id = 0 /\ step[editor.path].copies = 0
        BY <1>4 DEF CreateCommit, UploadInv, CreatesNew, AbsentIsBlank, TypeOK
    <2> QED  BY <2>1, <2>2 DEF ContractMove
<1>5. CASE DeleteStep
    BY <1>5 DEF DeleteStep, UploadInv, CreatesNew
<1>6. ASSUME NEW c \in Calls,
             \/ Request(c) \/ LockSelect(c) \/ Accept(c) \/ Refuse(c) \/ UnlockCheck(c)
             \/ UnlockSelect(c) \/ Start(c) \/ Validate(c) \/ InsertFails(c)
             \/ Tell(c) \/ Cleanup(c) \/ Fault(c)
      PROVE  UNCHANGED step
    BY <1>6 DEF Request, LockSelect, Accept, Refuse, UnlockCheck, UnlockSelect, Start,
                Validate, InsertFails, Tell, Cleanup, Fault, PublishFails, CleanupFails,
                Crash, Redeliver, Dies, dbVars
<1>7. ASSUME CreateStep \/ EditRefused \/ SetMutable
             \/ \E op \in {"create", "delete"}, p \in Paths : EditCheck(op, p)
      PROVE  UNCHANGED step
    BY <1>7 DEF CreateStep, EditRefused, SetMutable, EditCheck, dbVars
<1> QED
    BY <1>1, <1>2, <1>3, <1>4, <1>5, <1>6, <1>7
    DEF Next, Stores, Progress, Edit, Quiet, vars, ContractMove

(* A step that is COMPLETE stays COMPLETE.                                 *)
THEOREM CompleteStays == ASSUME ApiUploads PROVE Spec => CompleteIsFinal
<1>1. TypeOK /\ ContractMove =>
        \A p \in Paths : step[p].stage = "COMPLETE" /\ step'[p].id = step[p].id
                           => step'[p].stage = "COMPLETE"
    <2> SUFFICES ASSUME TypeOK, ContractMove, NEW p \in Paths,
                        step[p].stage = "COMPLETE", step'[p].id = step[p].id
                 PROVE  step'[p].stage = "COMPLETE"
        OBVIOUS
    <2>1. ASSUME NEW q \in Paths, NEW s \in Stages, SetStage(q, s),
                 step[q].stage # "COMPLETE"
          PROVE  step'[p].stage = "COMPLETE"
        BY <2>1, StageSet
    <2>2. ASSUME NEW q \in Paths, step' = [step EXCEPT ![q].copies = 1]
          PROVE  step'[p].stage = "COMPLETE"
        BY <2>2 DEF TypeOK, Rows
    <2>3. ASSUME NEW q \in Paths, NEW id \in Nat, NEW f \in Tables, step[q].id = 0,
                 id > 0, step' = [step EXCEPT ![q] = NewStep(id, f)]
          PROVE  step'[p].stage = "COMPLETE"
        BY <2>3 DEF TypeOK, NewStep
    <2> QED  BY <2>1, <2>2, <2>3 DEF ContractMove
<1>2. TypeOK /\ UploadInv /\ [Next]_vars =>
        [\A p \in Paths : step[p].stage = "COMPLETE" /\ step'[p].id = step[p].id
                           => step'[p].stage = "COMPLETE"]_vars
    BY <1>1, StepMoves
<1> QED
    BY <1>2, UploadInvariant, PTL DEF Spec, CompleteIsFinal

(* The upload protocol keeps the promise of the abstract class: every step *)
(* is one of UploadContract or leaves its variables alone.                 *)
THEOREM UploadRefinesContract == ASSUME ApiUploads PROVE Spec => ContractSpec
<1> DEFINE st == [p \in Paths |-> StageOf(p)]
           cp == [p \in Paths |-> step[p].copies]
<1>1. Init => Contract!CInit
    <2> SUFFICES ASSUME Init PROVE Contract!CInit
        OBVIOUS
    <2>1. \A p \in Paths : step[p].stage = "READY" /\ step[p].copies = 0
        BY DEF Init, NoStep, NewStep
    <2> QED  BY <2>1 DEF Contract!CInit
<1>2. TypeOK /\ ContractMove => [Contract!CNext]_(Contract!cvars)
    <2> SUFFICES ASSUME TypeOK, ContractMove
                 PROVE  Contract!CNext \/ (st' = st /\ cp' = cp)
        BY DEF Contract!cvars, StageOf
    <2>1. CASE UNCHANGED step
        BY <2>1 DEF StageOf
    <2>2. ASSUME NEW p \in Paths, NEW s \in Stages, SetStage(p, s), step[p].id # 0,
                 \/ step[p].stage = "READY" /\ s = "PROCESSING"
                 \/ step[p].stage = "PROCESSING" /\ s \in {"READY", "COMPLETE"}
          PROVE  Contract!CNext
        <3>1. \A q \in Paths :
                /\ step'[q].id = step[q].id /\ step'[q].copies = step[q].copies
                /\ step'[q].stage = IF q = p THEN s ELSE step[q].stage
            BY <2>2, StageSet
        <3>2. \A q \in Paths : StageOf(q)' = IF q = p THEN s ELSE StageOf(q)
            BY <2>2, <3>1 DEF StageOf
        <3>3. cp' = cp
            BY <3>1
        <3>4. st' = [st EXCEPT ![p] = s]
            BY <3>2
        <3>5. cp' = cp /\ st' = [st EXCEPT ![p] = s] /\ st[p] = step[p].stage
            BY <2>2, <3>3, <3>4 DEF StageOf
        <3>6. Contract!Take(p) \/ Contract!LetGo(p)
            BY <2>2, <3>5 DEF Contract!Take, Contract!LetGo, StageOf
        <3> QED  BY <3>6 DEF Contract!CNext
    <2>3. ASSUME NEW p \in Paths, step[p].id # 0, step[p].stage = "PROCESSING",
                 step[p].copies = 0, step' = [step EXCEPT ![p].copies = 1]
          PROVE  Contract!CNext
        <3>1. \A q \in Paths :
                /\ step'[q].id = step[q].id /\ step'[q].stage = step[q].stage
                /\ step'[q].copies = IF q = p THEN 1 ELSE step[q].copies
            BY <2>3 DEF TypeOK, Rows
        <3>2. st' = st /\ cp' = [cp EXCEPT ![p] = 1]
            BY <3>1 DEF StageOf
        <3>3. Contract!Store(p)
            BY <2>3, <3>2 DEF Contract!Store, StageOf
        <3> QED  BY <3>3 DEF Contract!CNext
    <2>4. ASSUME NEW p \in Paths, NEW id \in Nat, NEW f \in Tables, step[p].id = 0,
                 id > 0, step[p].copies = 0, step' = [step EXCEPT ![p] = NewStep(id, f)]
          PROVE  Contract!CNext
        <3>1. \A q \in Paths : step'[q] = IF q = p THEN NewStep(id, f) ELSE step[q]
            BY <2>4 DEF TypeOK
        <3>2. \A q \in Paths : StageOf(q)' = IF q = p THEN "READY" ELSE StageOf(q)
            BY <2>4, <3>1 DEF StageOf, NewStep
        <3>3. \A q \in Paths : step'[q].copies = step[q].copies
            BY <2>4, <3>1 DEF NewStep
        <3>4. cp' = cp /\ st' = [st EXCEPT ![p] = "READY"]
            BY <3>2, <3>3
        <3>5. Contract!Declare(p)
            BY <2>4, <3>4 DEF Contract!Declare, StageOf
        <3> QED  BY <3>5 DEF Contract!CNext
    <2> QED  BY <2>1, <2>2, <2>3, <2>4 DEF ContractMove
<1>3. TypeOK /\ UploadInv /\ [Next]_vars => [Contract!CNext]_(Contract!cvars)
    BY <1>2, StepMoves
<1> QED
    BY <1>1, <1>3, UploadInvariant, PTL DEF Spec, ContractSpec, Contract!CSpec
=============================================================================
