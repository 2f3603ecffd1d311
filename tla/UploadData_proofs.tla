--------------------------- MODULE UploadData_proofs ---------------------------
(***************************************************************************)
(* Theorems about the data that StepUpload leaves behind, in the bucket    *)
(* and in the steps, for both task runners, with retries, tasks that are   *)
(* delivered again and every other fault.                                  *)
(***************************************************************************)
EXTENDS StepUpload_proofs

(* A file in the bucket belongs to a task that has not ended, unless a     *)
(* fault has come between.                                                 *)
FilesInTask == \A c \in s3 : InTask(c) \/ faults > 0

(* A call moves on; its own file, if it is there, is that of a task.       *)
LEMMA FileMoves ==
    ASSUME TypeOK, FilesInTask, NEW c \in Calls,
           faults' = faults, s3' \subseteq s3 \cup {c},
           \A d \in Calls \ {c} : pc'[d] = pc[d] /\ goal'[d] = goal[d],
           c \in s3' => InTask(c)' \/ faults > 0
    PROVE  FilesInTask'
<1>1. \A d \in Calls \ {c} : InTask(d)' = InTask(d)
    BY DEF InTask
<1>2. s3 \subseteq Calls
    BY DEF TypeOK
<1> QED
    BY <1>1, <1>2 DEF FilesInTask

LEMMA FilesNext == TypeOK /\ FilesInTask /\ [Next]_vars => FilesInTask'
<1> SUFFICES ASSUME TypeOK, FilesInTask, [Next]_vars PROVE FilesInTask'
    OBVIOUS
<1> USE DEF Goto, Unlock
<1>1. ASSUME NEW c \in Calls,
             \/ Request(c) \/ LockSelect(c) \/ LockCommit(c) \/ Refuse(c)
      PROVE  FilesInTask'
    <2>1. pc[c] \in {"idle", "lock", "lock_set", "accept"} /\ UNCHANGED <<s3, faults>>
        BY <1>1 DEF Request, LockSelect, LockCommit, Refuse, envVars
    <2>2. ~InTask(c)
        BY <2>1 DEF InTask, TaskPCs, UnlockPCs
    <2>3. \A d \in Calls \ {c} : pc'[d] = pc[d] /\ goal'[d] = goal[d]
        BY <1>1 DEF Request, LockSelect, LockCommit, Refuse, TypeOK
    <2> QED  BY <2>1, <2>2, <2>3, FileMoves DEF FilesInTask
<1>2. ASSUME NEW c \in Calls, Accept(c) PROVE FilesInTask'
    <2>1. InTask(c)'
        BY <1>2 DEF Accept, InTask, TaskPCs, TypeOK
    <2> QED  BY <1>2, <2>1, FileMoves DEF Accept, TypeOK, envVars
<1>3. ASSUME NEW c \in Calls, UnlockCheck(c) \/ UnlockSelect(c) PROVE FilesInTask'
    <2>1. pc[c] \in {"unlock", "unlock_select"} /\ UNCHANGED <<s3, faults>>
        BY <1>3 DEF UnlockCheck, UnlockSelect, envVars
    <2>2. \A d \in Calls \ {c} : pc'[d] = pc[d] /\ goal'[d] = goal[d]
        BY <1>3 DEF UnlockCheck, UnlockSelect, UnlockRaises, Fail, TypeOK
    <2>3. InTask(c) => InTask(c)'
        <3>1. CASE \E e : UnlockRaises(c, e)
            BY <2>1, <3>1 DEF UnlockRaises, Fail, InTask, TaskPCs, UnlockPCs, TypeOK
        <3>2. CASE ~ \E e : UnlockRaises(c, e)
            BY <1>3, <2>1, <3>2
            DEF UnlockCheck, UnlockSelect, InTask, TaskPCs, UnlockPCs, TypeOK
        <3> QED  BY <3>1, <3>2
    <2> QED  BY <2>1, <2>2, <2>3, FileMoves DEF FilesInTask
<1>4. ASSUME NEW c \in Calls, UnlockCommit(c) PROVE FilesInTask'
    <2>1. InTask(c) => InTask(c)'
        <3>1. pc'[c] = AfterUnlock[goal[c]]
            BY <1>4 DEF UnlockCommit, TypeOK
        <3>2. goal[c] # "refuse" => AfterUnlock[goal[c]] \in TaskPCs
            BY DEF AfterUnlock, TaskPCs, TypeOK
        <3> QED  BY <1>4, <3>1, <3>2 DEF UnlockCommit, InTask, TaskPCs, UnlockPCs
    <2>2. /\ UNCHANGED <<s3, faults, goal>>
          /\ \A d \in Calls \ {c} : pc'[d] = pc[d]
        BY <1>4 DEF UnlockCommit, TypeOK, envVars
    <2> QED  BY <2>1, <2>2, FileMoves DEF FilesInTask
<1>5. ASSUME NEW c \in Calls,
             Start(c) \/ Validate(c) \/ Insert(c) \/ InsertFails(c) \/ Tell(c)
      PROVE  FilesInTask'
    <2>1. InTask(c)' /\ \A d \in Calls \ {c} : pc'[d] = pc[d] /\ goal'[d] = goal[d]
        <3> USE DEF InTask, TaskPCs, UnlockPCs, Fail, Succeed, TypeOK
        <3>1. CASE Start(c)        BY <3>1 DEF Start
        <3>2. CASE Validate(c)     BY <3>2 DEF Validate
        <3>3. CASE Insert(c)       BY <3>3, StoreStep DEF Stores
        <3>4. CASE InsertFails(c)  BY <3>4 DEF InsertFails
        <3>5. CASE Tell(c)         BY <3>5 DEF Tell
        <3> QED  BY <1>5, <3>1, <3>2, <3>3, <3>4, <3>5
    <2>2. UNCHANGED <<s3, faults>>
        BY <1>5 DEF Start, Validate, Insert, StoreRows, InsertFails, Tell, envVars
    <2> QED  BY <2>1, <2>2, FileMoves
<1>6. ASSUME NEW c \in Calls, Cleanup(c) PROVE FilesInTask'
    <2>1. c \notin s3' /\ s3' \subseteq s3 /\ UNCHANGED <<faults, goal>>
        BY <1>6 DEF Cleanup, envVars
    <2>2. \A d \in Calls \ {c} : pc'[d] = pc[d]
        BY <1>6 DEF Cleanup, Finish, TypeOK
    <2> QED  BY <2>1, <2>2, FileMoves
<1>7. ASSUME NEW c \in Calls, VacuumFails(c) \/ Fault(c) PROVE FilesInTask'
    <2>1. faults \in Nat /\ faults' = faults + 1
        BY <1>7 DEF VacuumFails, Fault, PublishFails, CleanupFails, Crash, Redeliver, Dies, TypeOK
    <2> QED  BY <2>1 DEF FilesInTask
<1>8. CASE Edit \/ UNCHANGED vars
    <2>1. UNCHANGED <<s3, faults, pc, goal>>
        BY <1>8 DEF Edit, EditCheck, DeleteStep, CreateStep, CreateCommit, EditRefused,
                    SetMutable, callVars, vars
    <2> QED  BY <2>1 DEF FilesInTask, InTask
<1> QED
    BY <1>1, <1>2, <1>3, <1>4, <1>5, <1>6, <1>7, <1>8 DEF Next, Progress, Quiet

(* No file stays in the bucket when nothing will process it any more, as   *)
(* long as S3, the queue and the processes do not fail.                    *)
THEOREM NoFileIsLeft == Spec => []NoOrphanFile
<1>1. Init => FilesInTask
    BY DEF Init, FilesInTask
<1>2. TypeOK /\ FilesInTask => NoOrphanFile
    BY DEF TypeOK, FilesInTask, NoOrphanFile, InTask, Running, TaskPCs, UnlockPCs, EndPCs
<1> QED
    BY <1>1, <1>2, FilesNext, UploadTyped, PTL DEF Spec

-----------------------------------------------------------------------------
(***************************************************************************)
(* What a COMPLETE step holds.  A path leads to one row of steps at most   *)
(* when steps are created or deleted and not both: an upload that outlives *)
(* its step would complete the one that takes its place, which declares    *)
(* other data.                                                             *)
(***************************************************************************)
RowsStay == "create" \notin EditOps \/ "delete" \notin EditOps

EditsAllowed ==
    /\ editor.op = "delete" => "delete" \in EditOps
    /\ editor.op \in {"create", "create_commit"} => "create" \in EditOps
    /\ editor.op = "create_commit" => step[editor.path].id = 0

(* A row that is locked is there; one that a call has seen is deleted or is *)
(* still the one.                                                          *)
LockedIsThere == \A c \in Calls : pc[c] \in {"lock_set", "unlock_set"} => Present(c)
Stays(c)      == "delete" \notin EditOps => Present(c)

(* The call is about to insert what its step declares.                     *)
Declared(c) == /\ req[c].body # Empty /\ saw[c].id # 0 /\ Stays(c)
               /\ Present(c) => Here(c).id = saw[c].id /\ Here(c).fp = req[c].body

(* The call may complete its step: the data is there, there is none to be  *)
(* had, or the file was empty and nobody looked at the step.               *)
HasData(c) == \/ req[c].body = Empty /\ StepTypeOf[req[c].path] # "resolver"
              \/ Stays(c) /\ (Present(c) => Here(c).copies # 0 \/ Here(c).fp = Empty)

StoredIsDeclared == \A p \in Paths : step[p].copies # 0 => step[p].fp # Empty
InsertsDeclared  == \A c \in Calls : pc[c] = "insert" => Declared(c)
FinishesWithData == \A c \in Calls :
    pc[c] \in UnlockPCs /\ goal[c] = "complete" => HasData(c)
ValidatesThere   == \A c \in Calls : pc[c] = "validate" => Stays(c)

DataInv == /\ EditsAllowed /\ LockOwned /\ LockedIsThere /\ StoredIsDeclared
           /\ ValidatesThere /\ InsertsDeclared /\ FinishesWithData
           /\ CompleteHasItsData

(* What a step of the system does to the row of a path: the row stays, and *)
(* its data with it, or it is deleted or created.                          *)
RowMoves == \A p \in Paths :
    \/ /\ step'[p].id = step[p].id /\ step'[p].fp = step[p].fp
       /\ step[p].copies # 0 => step'[p].copies # 0
    \/ step'[p].id = 0 /\ "delete" \in EditOps
    \/ step[p].id = 0 /\ "create" \in EditOps

LEMMA RowsOnlyMove == ASSUME TypeOK, EditsAllowed, [Next]_vars PROVE RowMoves
<1>1. CASE UNCHANGED step
    BY <1>1 DEF RowMoves
<1>2. ASSUME NEW c \in Calls, LockCommit(c) \/ UnlockCommit(c) PROVE RowMoves
    <2>1. UNCHANGED step \/ \E s : SetStage(req[c].path, s)
        BY <1>2 DEF LockCommit, UnlockCommit
    <2>2. ASSUME NEW p \in Paths, NEW s, SetStage(p, s) PROVE RowMoves
        BY <2>2 DEF RowMoves, SetStage, TypeOK, Rows
    <2> QED  BY <2>1, <2>2, <1>1, HereTyped
<1>3. ASSUME NEW c \in Calls, Stores(c) PROVE RowMoves
    BY <1>3, StoreEffect DEF RowMoves
<1>4. CASE DeleteStep
    BY <1>4 DEF DeleteStep, EditsAllowed, RowMoves, NoStep, TypeOK
<1>5. CASE CreateCommit
    <2>1. PICK f \in Tables : step' = [step EXCEPT ![editor.path] = NewStep(nextId, f)]
        BY <1>5 DEF CreateCommit
    <2> QED  BY <1>5, <2>1 DEF CreateCommit, EditsAllowed, RowMoves, TypeOK
<1>6. ASSUME NEW c \in Calls,
             \/ Request(c) \/ LockSelect(c) \/ Accept(c) \/ Refuse(c) \/ UnlockCheck(c)
             \/ UnlockSelect(c) \/ Start(c) \/ Validate(c) \/ InsertFails(c)
             \/ Tell(c) \/ Cleanup(c) \/ Fault(c)
      PROVE  UNCHANGED step
    BY <1>6 DEF Request, LockSelect, Accept, Refuse, UnlockCheck, UnlockSelect, Start,
                Validate, InsertFails, Tell, Cleanup, Fault, PublishFails, CleanupFails,
                Crash, Redeliver, Dies, dbVars
<1>7. ASSUME CreateStep \/ EditRefused \/ SetMutable
             \/ \E op \in {"create", "delete"}, p \in Paths : EditCheck(op, p)
      PROVE  UNCHANGED step
    BY <1>7 DEF CreateStep, EditRefused, SetMutable, EditCheck, dbVars
<1> QED
    BY <1>1, <1>2, <1>3, <1>4, <1>5, <1>6, <1>7 DEF Next, Stores, Progress, Edit, Quiet, vars

(* So what a call knows of its step is not lost.                           *)
LEMMA KnownOfStep ==
    ASSUME RowsStay, TypeOK, RowMoves, NEW c \in Calls, req' = req
    PROVE  /\ Stays(c) => Stays(c)'
           /\ saw'[c] = saw[c] /\ Declared(c) => Declared(c)'
           /\ HasData(c) => HasData(c)'
<1>1. req[c].path \in Paths
    BY HereTyped
<1>2. Here(c)' = step'[req[c].path]
    BY DEF Here
<1>3. \/ /\ Here(c)'.id = Here(c).id /\ Here(c)'.fp = Here(c).fp
         /\ Here(c).copies # 0 => Here(c)'.copies # 0
      \/ ~Present(c)' /\ "delete" \in EditOps
      \/ ~Present(c) /\ "create" \in EditOps
    BY <1>1, <1>2 DEF RowMoves, Here, Present
<1>4. Stays(c) => Stays(c)'
    BY <1>3 DEF Stays, Present, RowsStay
<1>5. saw'[c] = saw[c] /\ Declared(c) => Declared(c)'
    BY <1>3, <1>4 DEF Declared, Stays, Present, RowsStay
<1>6. HasData(c) => HasData(c)'
    BY <1>3, <1>4 DEF HasData, Stays, Present, RowsStay
<1> QED
    BY <1>4, <1>5, <1>6

(* The parts of DataInv that say what a call is about to do: only its own  *)
(* step has to be looked at.                                               *)
Intends(c) == /\ pc[c] = "validate" => Stays(c)
              /\ pc[c] = "insert" => Declared(c)
              /\ pc[c] \in UnlockPCs /\ goal[c] = "complete" => HasData(c)
Intentions == ValidatesThere /\ InsertsDeclared /\ FinishesWithData

LEMMA IntentionsKept ==
    ASSUME RowsStay, TypeOK, RowMoves, req' = req, Intentions, NEW c \in Calls,
           \A d \in Calls \ {c} :
               pc'[d] = pc[d] /\ goal'[d] = goal[d] /\ saw'[d] = saw[d],
           Intends(c)'
    PROVE  Intentions'
<1>1. \A d \in Calls : Intends(d)
    BY DEF Intends, Intentions, ValidatesThere, InsertsDeclared, FinishesWithData
<1>2. \A d \in Calls \ {c} : Intends(d)'
    BY <1>1, KnownOfStep DEF Intends
<1> QED
    BY <1>2 DEF Intends, Intentions, ValidatesThere, InsertsDeclared, FinishesWithData

LEMMA IntentionsNext ==
    ASSUME RowsStay, TypeOK, DataInv, [Next]_vars PROVE Intentions'
<1>1. RowMoves /\ Intentions
    BY RowsOnlyMove DEF DataInv, Intentions
<1> USE DEF Goto, Unlock, TypeOK, UnlockPCs
<1>2. ASSUME NEW c \in Calls,
             \/ Request(c) \/ LockSelect(c) \/ LockCommit(c) \/ Accept(c) \/ Refuse(c)
             \/ InsertFails(c) \/ Tell(c) \/ Cleanup(c) \/ Fault(c)
      PROVE  Intentions'
    <2>1. CASE Request(c)      BY <1>1, <2>1, IntentionsKept DEF Request, Intends
    <2>2. CASE LockSelect(c)   BY <1>1, <2>2, IntentionsKept DEF LockSelect, Intends
    <2>3. CASE LockCommit(c)   BY <1>1, <2>3, IntentionsKept DEF LockCommit, Intends
    <2>4. CASE Accept(c)       BY <1>1, <2>4, IntentionsKept DEF Accept, Intends
    <2>5. CASE Refuse(c)       BY <1>1, <2>5, IntentionsKept DEF Refuse, Intends
    <2>6. CASE InsertFails(c)  BY <1>1, <2>6, IntentionsKept DEF InsertFails, Fail, Intends
    <2>7. CASE Tell(c)         BY <1>1, <2>7, IntentionsKept DEF Tell, Intends
    <2>8. CASE Cleanup(c)
        BY <1>1, <2>8, IntentionsKept DEF Cleanup, Finish, Intends
    <2>9. CASE Fault(c)
        BY <1>1, <2>9, IntentionsKept
        DEF Fault, PublishFails, CleanupFails, Finish, Crash, Redeliver, Dies, Intends
    <2> QED  BY <1>2, <2>1, <2>2, <2>3, <2>4, <2>5, <2>6, <2>7, <2>8, <2>9
<1>3. ASSUME NEW c \in Calls, UnlockCheck(c) \/ UnlockSelect(c) PROVE Intentions'
    <2>1. /\ pc[c] \in {"unlock", "unlock_select"} /\ UNCHANGED <<step, req, saw>>
          /\ pc'[c] \notin {"validate", "insert"}
          /\ \A d \in Calls \ {c} : pc'[d] = pc[d] /\ goal'[d] = goal[d]
        BY <1>3 DEF UnlockCheck, UnlockSelect, UnlockRaises, Fail, dbVars
    <2>2. pc'[c] \in UnlockPCs /\ goal'[c] = "complete" => goal[c] = "complete"
        BY <1>3 DEF UnlockCheck, UnlockSelect, UnlockRaises, Fail
    <2>3. HasData(c)' = HasData(c)
        BY <2>1 DEF HasData, Stays, Present, Here
    <2>4. Intends(c)'
        BY <1>1, <2>1, <2>2, <2>3 DEF Intends, Intentions, FinishesWithData
    <2> QED  BY <1>1, <2>1, <2>4, IntentionsKept
<1>4. ASSUME NEW c \in Calls, UnlockCommit(c) PROVE Intentions'
    <2>1. pc'[c] \in {"cleanup", "tell", "refused"}
        BY <1>4 DEF UnlockCommit, AfterUnlock
    <2> QED  BY <1>1, <1>4, <2>1, IntentionsKept DEF UnlockCommit, Intends
<1>5. ASSUME NEW c \in Calls, Start(c) PROVE Intentions'
    <2>1. Intends(c)'
        BY <1>5 DEF Start, Fail, Intends, Stays, Present, Here, dbVars
    <2> QED  BY <1>1, <1>5, <2>1, IntentionsKept DEF Start, Fail
<1>6. ASSUME NEW c \in Calls, Validate(c) PROVE Intentions'
    <2>1. /\ UNCHANGED <<step, req>> /\ pc[c] = "validate" /\ Stays(c)
          /\ \A d \in Calls \ {c} :
                pc'[d] = pc[d] /\ goal'[d] = goal[d] /\ saw'[d] = saw[d]
        BY <1>1, <1>6
        DEF Validate, Fail, Succeed, dbVars, Intentions, ValidatesThere
    <2>2. CASE CanInsert(c) /\ pc'[c] = "insert" /\ saw'[c].id = Here(c).id
        BY <2>1, <2>2, <1>1, IntentionsKept
        DEF Intends, Declared, Stays, CanInsert, Present, Here
    <2>3. CASE NothingToInsert(c) /\ pc'[c] = "unlock"
        <3>1. HasData(c)
            BY <2>1, <2>3 DEF HasData, NothingToInsert
        <3> QED  BY <2>1, <2>3, <3>1, <1>1, IntentionsKept
                 DEF Intends, HasData, Stays, Present, Here
    <2>4. CASE pc'[c] = "unlock" /\ goal'[c] = "fail"
        BY <2>1, <2>4, <1>1, IntentionsKept DEF Intends
    <2> QED  BY <1>6, <2>2, <2>3, <2>4 DEF Validate, Fail, Succeed
<1>7. ASSUME NEW c \in Calls, Stores(c) PROVE Intentions'
    <2>1. /\ pc'[c] = "unlock" /\ UNCHANGED <<req, saw>>
          /\ \A d \in Calls \ {c} : pc'[d] = pc[d] /\ goal'[d] = goal[d]
        BY <1>7, StoreEffect
    <2>2. Declared(c) /\ Present(c)
        BY <1>1, <1>7, StoreEffect
        DEF InsertAllowed, Intentions, InsertsDeclared, Declared, Present
    <2>3. Here(c)'.copies # 0 /\ Here(c)'.id = Here(c).id
        BY <1>7, <2>1, StoreEffect DEF Here
    <2>4. HasData(c)'
        BY <2>1, <2>2, <2>3 DEF HasData, Stays, Present
    <2> QED  BY <1>1, <2>1, <2>4, IntentionsKept DEF Intends
<1>8. CASE Edit \/ UNCHANGED vars
    <2>1. UNCHANGED <<pc, goal, saw, req>>
        BY <1>8 DEF Edit, EditCheck, DeleteStep, CreateStep, CreateCommit, EditRefused,
                    SetMutable, callVars, vars
    <2>2. \A c \in Calls : Intends(c) => Intends(c)'
        BY <1>1, <2>1, KnownOfStep DEF Intends
    <2> QED
        BY <1>1, <2>1, <2>2
        DEF Intends, Intentions, ValidatesThere, InsertsDeclared, FinishesWithData
<1> QED
    BY <1>2, <1>3, <1>4, <1>5, <1>6, <1>7, <1>8 DEF Next, Stores, Progress, Quiet

Locks == EditsAllowed /\ LockOwned /\ LockedIsThere

(* A call that is outside its locked transactions before and after.        *)
LEMMA LocksKept ==
    ASSUME TypeOK, Locks, NEW c \in Calls,
           UNCHANGED <<step, rowLock, req, editor>>,
           \A d \in Calls \ {c} : pc'[d] = pc[d],
           {pc[c], pc'[c]} \cap {"lock_set", "unlock_set"} = {}
    PROVE  Locks'
BY DEF Locks, EditsAllowed, LockOwned, LockedIsThere, Present, Here

(* A call that ends its locked transaction, or dies, which lets go of the  *)
(* lock if it has it.                                                      *)
LEMMA LocksReleased ==
    ASSUME TypeOK, Locks, NEW c \in Calls,
           rowLock' = IF rowLock = c THEN Free ELSE rowLock,
           UNCHANGED <<req, editor>>,
           \A p \in Paths : step'[p].id = step[p].id,
           \A d \in Calls \ {c} : pc'[d] = pc[d],
           pc'[c] \notin {"lock_set", "unlock_set"}
    PROVE  Locks'
<1>1. \A d \in Calls : Present(d)' = Present(d)
    BY HereTyped DEF Present, Here
<1>2. EditsAllowed'
    BY DEF Locks, EditsAllowed, TypeOK
<1>3. LockOwned'
    BY UploadAssumption DEF Locks, LockOwned
<1>4. LockedIsThere'
    BY <1>1 DEF Locks, LockedIsThere
<1> QED
    BY <1>2, <1>3, <1>4 DEF Locks

(* A call that takes the lock, of a row that is there.                     *)
LEMMA LocksTaken ==
    ASSUME TypeOK, Locks, NEW c \in Calls, rowLock = Free, rowLock' = c, Present(c),
           UNCHANGED <<step, req, editor>>,
           \A d \in Calls \ {c} : pc'[d] = pc[d],
           pc'[c] \in {"lock_set", "unlock_set"}
    PROVE  Locks'
<1>1. \A d \in Calls : Present(d)' = Present(d)
    BY DEF Present, Here
<1>2. LockOwned'
    BY UploadAssumption DEF Locks, LockOwned
<1> QED
    BY <1>1, <1>2 DEF Locks, EditsAllowed, LockedIsThere

LEMMA LocksNext == ASSUME TypeOK, Locks, [Next]_vars PROVE Locks'
<1> USE DEF Goto, Unlock, TypeOK, envVars, dbVars
<1>1. ASSUME NEW c \in Calls,
             \/ Request(c) \/ Accept(c) \/ Refuse(c) \/ UnlockCheck(c) \/ Start(c)
             \/ Validate(c) \/ Stores(c) \/ InsertFails(c) \/ Tell(c) \/ Cleanup(c)
      PROVE  /\ UNCHANGED <<rowLock, req, editor>>
             /\ \A d \in Calls \ {c} : pc'[d] = pc[d]
             /\ {pc[c], pc'[c]} \cap {"lock_set", "unlock_set"} = {}
    <2>1. CASE Request(c)      BY <2>1 DEF Request
    <2>2. CASE Accept(c)       BY <2>2 DEF Accept
    <2>3. CASE Refuse(c)       BY <2>3 DEF Refuse
    <2>4. CASE UnlockCheck(c)  BY <2>4 DEF UnlockCheck, UnlockRaises, Fail
    <2>5. CASE Start(c)        BY <2>5 DEF Start, Fail
    <2>6. CASE Validate(c)     BY <2>6 DEF Validate, Fail, Succeed
    <2>7. CASE Stores(c)       BY <2>7, StoreEffect
    <2>8. CASE InsertFails(c)  BY <2>8 DEF InsertFails, Fail
    <2>9. CASE Tell(c)         BY <2>9 DEF Tell
    <2>10. CASE Cleanup(c)     BY <2>10 DEF Cleanup, Finish
    <2> QED
        BY <1>1, <2>1, <2>2, <2>3, <2>4, <2>5, <2>6, <2>7, <2>8, <2>9, <2>10
<1>2. ASSUME NEW c \in Calls,
             \/ Request(c) \/ Accept(c) \/ Refuse(c) \/ UnlockCheck(c) \/ Start(c)
             \/ Validate(c) \/ InsertFails(c) \/ Tell(c) \/ Cleanup(c)
      PROVE  Locks'
    <2>1. UNCHANGED step
        BY <1>2 DEF Request, Accept, Refuse, UnlockCheck, Start, Validate, InsertFails,
                    Tell, Cleanup
    <2> QED  BY <1>1, <1>2, <2>1, LocksKept
<1>3. ASSUME NEW c \in Calls, Stores(c) PROVE Locks'
    <2>1. pc[c] = "insert" /\ rowLock # c
        BY <1>3, StoreEffect DEF Locks, LockOwned
    <2>2. \A p \in Paths : step'[p].id = step[p].id
        BY <1>3, StoreEffect
    <2> QED  BY <1>1, <1>3, <2>1, <2>2, LocksReleased
<1>4. ASSUME NEW c \in Calls, LockSelect(c) PROVE Locks'
    <2>1. CASE Present(c) /\ rowLock = Free
        BY <1>4, <2>1, LocksTaken DEF LockSelect
    <2>2. CASE ~(Present(c) /\ rowLock = Free)
        BY <1>4, <2>2, LocksKept DEF LockSelect
    <2> QED  BY <2>1, <2>2
<1>5. ASSUME NEW c \in Calls, UnlockSelect(c) PROVE Locks'
    <2>1. CASE Present(c) /\ rowLock = Free
        BY <1>5, <2>1, LocksTaken DEF UnlockSelect
    <2>2. CASE ~(Present(c) /\ rowLock = Free)
        BY <1>5, <2>2, LocksKept DEF UnlockSelect, UnlockRaises, Fail
    <2> QED  BY <2>1, <2>2
<1>6. ASSUME NEW c \in Calls, LockCommit(c) \/ UnlockCommit(c) PROVE Locks'
    <2>1. rowLock = c /\ rowLock' = Free /\ UNCHANGED <<req, editor>>
        BY <1>6 DEF LockCommit, UnlockCommit, Locks, LockOwned
    <2>2. UNCHANGED step \/ \E s : SetStage(req[c].path, s)
        BY <1>6 DEF LockCommit, UnlockCommit
    <2>3. \A p \in Paths : step'[p].id = step[p].id
        BY <2>2, HereTyped, StageSet
    <2>4. /\ \A d \in Calls \ {c} : pc'[d] = pc[d]
          /\ pc'[c] \notin {"lock_set", "unlock_set"}
        BY <1>6 DEF LockCommit, UnlockCommit, AfterUnlock
    <2> QED  BY <2>1, <2>3, <2>4, LocksReleased
<1>7. ASSUME NEW c \in Calls, Crash(c) \/ Redeliver(c) PROVE Locks'
    BY <1>7, LocksReleased DEF Crash, Redeliver, Dies
<1>8. ASSUME NEW c \in Calls, PublishFails(c) \/ CleanupFails(c) PROVE Locks'
    BY <1>8, LocksKept DEF PublishFails, CleanupFails, Finish
<1>9. CASE DeleteStep
    <2> DEFINE doomed == {editor.path} \cup Descendants[editor.path]
    <2>1. \A d \in Calls : pc[d] \in {"lock_set", "unlock_set"} => req[d].path \notin doomed
        BY <1>9 DEF DeleteStep, Locks, LockOwned
    <2>2. \A p \in Paths : step'[p] = IF p \in doomed THEN NoStep ELSE step[p]
        BY <1>9 DEF DeleteStep
    <2>3. LockedIsThere'
        BY <1>9, <2>1, <2>2, HereTyped
        DEF DeleteStep, callVars, Locks, LockedIsThere, Present, Here
    <2> QED
        BY <1>9, <2>3 DEF DeleteStep, EditDone, callVars, Locks, LockOwned, EditsAllowed
<1>10. CASE CreateStep
    <2>1. UNCHANGED <<step, pc, req>> /\ rowLock = Free /\ rowLock' = Editor
          /\ editor'.op = "create_commit" /\ editor'.path = editor.path
          /\ editor.op = "create" /\ step[editor.path].id = 0
        BY <1>10 DEF CreateStep, callVars
    <2> QED
        BY <2>1, UploadAssumption
        DEF Locks, LockOwned, LockedIsThere, EditsAllowed, Present, Here
<1>11. CASE CreateCommit
    <2>1. PICK f \in Tables : step' = [step EXCEPT ![editor.path] = NewStep(nextId, f)]
        BY <1>11 DEF CreateCommit
    <2>2. /\ rowLock = Editor /\ rowLock' = Free /\ UNCHANGED <<pc, req>>
          /\ editor.op = "create_commit" /\ editor'.op = "idle"
        BY <1>11 DEF CreateCommit, EditDone, callVars, Locks, LockOwned
    <2>3. \A d \in Calls : pc[d] \notin {"lock_set", "unlock_set"}
        BY <2>2, UploadAssumption DEF Locks, LockOwned
    <2> QED
        BY <2>2, <2>3, UploadAssumption DEF Locks, LockOwned, LockedIsThere, EditsAllowed
<1>12. CASE EditRefused \/ SetMutable \/ UNCHANGED vars
            \/ \E op \in {"create", "delete"}, p \in Paths : EditCheck(op, p)
    <2>1. /\ UNCHANGED <<step, rowLock, pc, req>>
          /\ \/ editor' = editor
             \/ editor.op # "create_commit" /\ editor'.op = "idle"
             \/ editor.op = "idle" /\ editor'.op \in {"create", "delete"} \cap EditOps
        BY <1>12 DEF EditRefused, EditDone, SetMutable, EditCheck, callVars, vars
    <2> QED  BY <2>1 DEF Locks, LockOwned, LockedIsThere, EditsAllowed, Present, Here
<1> QED
    BY <1>2, <1>3, <1>4, <1>5, <1>6, <1>7, <1>8, <1>9, <1>10, <1>11, <1>12
    DEF Next, Stores, Progress, Fault, Edit, Quiet

LEMMA StoredNext ==
    ASSUME TypeOK, DataInv, [Next]_vars PROVE StoredIsDeclared'
<1>1. CASE \A p \in Paths :
             /\ step'[p].fp = step[p].fp
             /\ step'[p].copies = step[p].copies
    BY <1>1 DEF DataInv, StoredIsDeclared
<1>2. ASSUME NEW c \in Calls, LockCommit(c) \/ UnlockCommit(c) PROVE StoredIsDeclared'
    <2>1. UNCHANGED step \/ \E s : SetStage(req[c].path, s)
        BY <1>2 DEF LockCommit, UnlockCommit
    <2>2. ASSUME NEW s, SetStage(req[c].path, s) PROVE StoredIsDeclared'
        BY <2>2, <1>1, HereTyped DEF SetStage, TypeOK, Rows
    <2> QED  BY <2>1, <2>2, <1>1
<1>3. ASSUME NEW c \in Calls, Stores(c) PROVE StoredIsDeclared'
    <2>1. Here(c).fp # Empty /\ req[c].path \in Paths
        BY <1>3, StoreEffect
        DEF InsertAllowed, DataInv, InsertsDeclared, Declared, Present
    <2>2. \A q \in Paths : /\ step'[q].fp = step[q].fp
                           /\ q # req[c].path => step'[q].copies = step[q].copies
        BY <1>3, StoreEffect
    <2> QED  BY <2>1, <2>2 DEF DataInv, StoredIsDeclared, Here
<1>4. CASE DeleteStep \/ CreateCommit
    <2>1. \A q \in Paths : step'[q] = step[q] \/ step'[q].copies = 0
        BY <1>4 DEF DeleteStep, CreateCommit, NoStep, NewStep, TypeOK
    <2> QED  BY <2>1 DEF DataInv, StoredIsDeclared
<1>5. ASSUME NEW c \in Calls,
             \/ Request(c) \/ LockSelect(c) \/ Accept(c) \/ Refuse(c) \/ UnlockCheck(c)
             \/ UnlockSelect(c) \/ Start(c) \/ Validate(c) \/ InsertFails(c)
             \/ Tell(c) \/ Cleanup(c) \/ Fault(c)
      PROVE  StoredIsDeclared'
    BY <1>1, <1>5
    DEF Request, LockSelect, Accept, Refuse, UnlockCheck, UnlockSelect, Start, Validate,
        InsertFails, Tell, Cleanup, Fault, PublishFails, CleanupFails, Crash, Redeliver,
        Dies, dbVars
<1>6. CASE CreateStep \/ EditRefused \/ SetMutable
           \/ \E op \in {"create", "delete"}, p \in Paths : EditCheck(op, p)
    BY <1>1, <1>6 DEF CreateStep, EditRefused, SetMutable, EditCheck, dbVars
<1> QED
    BY <1>1, <1>2, <1>3, <1>4, <1>5, <1>6 DEF Next, Stores, Progress, Edit, Quiet, vars

(* Somebody sent an empty file for the step.                               *)
EmptySent(p) == \E c \in Calls : req[c].path = p /\ req[c].body = Empty /\ pc[c] # "idle"

LEMMA EmptySentStays ==
    ASSUME TypeOK, [Next]_vars, NEW p \in Paths, EmptySent(p) PROVE EmptySent(p)'
<1>1. PICK d \in Calls : req[d].path = p /\ req[d].body = Empty /\ pc[d] # "idle"
    BY DEF EmptySent
<1>2. req' = req
    BY DEF Next, Request, Progress, LockSelect, LockCommit, Accept, Refuse, UnlockCheck,
           UnlockSelect, UnlockCommit, Start, Validate, Insert, VacuumFails, StoreRows,
           InsertFails, Tell, Cleanup, Fault, PublishFails, CleanupFails, Crash, Redeliver, Dies, Edit,
           EditCheck, DeleteStep, CreateStep, CreateCommit, EditRefused, SetMutable,
           Quiet, callVars, vars
<1>3. pc'[d] # "idle"
    <2> USE DEF Goto, Unlock, Fail, Succeed, TypeOK
    <2>1. CASE UNCHANGED pc
        BY <1>1, <2>1
    <2>2. ASSUME NEW c \in Calls, Request(c) \/ LockSelect(c) \/ LockCommit(c)
          PROVE  pc'[d] # "idle"
        BY <1>1, <2>2 DEF Request, LockSelect, LockCommit
    <2>3. ASSUME NEW c \in Calls, Accept(c) \/ Refuse(c) \/ Start(c) \/ Tell(c)
          PROVE  pc'[d] # "idle"
        BY <1>1, <2>3 DEF Accept, Refuse, Start, Tell
    <2>4. ASSUME NEW c \in Calls, UnlockCheck(c) \/ UnlockSelect(c)
          PROVE  pc'[d] # "idle"
        BY <1>1, <2>4 DEF UnlockCheck, UnlockSelect, UnlockRaises
    <2>5. ASSUME NEW c \in Calls, UnlockCommit(c) PROVE pc'[d] # "idle"
        BY <1>1, <2>5 DEF UnlockCommit, AfterUnlock
    <2>6. ASSUME NEW c \in Calls, Validate(c) \/ Stores(c) \/ InsertFails(c)
          PROVE  pc'[d] # "idle"
        BY <1>1, <2>6, StoreStep DEF Validate, StoreRows, InsertFails
    <2>7. ASSUME NEW c \in Calls, Cleanup(c) \/ Fault(c) PROVE pc'[d] # "idle"
        BY <1>1, <2>7
        DEF Cleanup, Finish, Fault, PublishFails, CleanupFails, Crash, Redeliver, Dies
    <2>8. ASSUME Edit \/ Quiet \/ UNCHANGED vars PROVE UNCHANGED pc
        BY <2>8 DEF Edit, EditCheck, DeleteStep, CreateStep, CreateCommit, EditRefused,
                    SetMutable, Quiet, callVars, vars
    <2> QED
        BY <2>1, <2>2, <2>3, <2>4, <2>5, <2>6, <2>7, <2>8 DEF Next, Stores, Progress
<1> QED
    BY <1>1, <1>2, <1>3 DEF EmptySent

(* What the stage COMPLETE stands for.                                     *)
Filled(p) == IF step[p].copies = 0
             THEN step[p].fp = Empty \/ (StepTypeOf[p] # "resolver" /\ EmptySent(p))
             ELSE step[p].fp # Empty

LEMMA CompleteNext ==
    ASSUME TypeOK, DataInv, [Next]_vars PROVE CompleteHasItsData'
<1>1. \A p \in Paths : step[p].stage = "COMPLETE" => Filled(p)
    BY DEF DataInv, CompleteHasItsData, Filled, EmptySent
<1>2. SUFFICES ASSUME NEW p \in Paths, step'[p].stage = "COMPLETE" PROVE Filled(p)'
    BY DEF CompleteHasItsData, Filled, EmptySent
<1>3. CASE UNCHANGED step[p]
    BY <1>1, <1>2, <1>3, EmptySentStays DEF Filled
<1>4. ASSUME NEW c \in Calls, LockCommit(c) PROVE Filled(p)'
    <2>1. UNCHANGED step \/ SetStage(req[c].path, "PROCESSING")
        BY <1>4 DEF LockCommit
    <2> QED  BY <1>2, <1>3, <2>1, HereTyped DEF SetStage, TypeOK, Rows
<1>5. ASSUME NEW c \in Calls, UnlockCommit(c) PROVE Filled(p)'
    <2>1. /\ pc[c] = "unlock_set" /\ req[c].path \in Paths /\ req' = req
          /\ SetStage(req[c].path, IF goal[c] = "complete" THEN "COMPLETE" ELSE "READY")
        BY <1>5, HereTyped DEF UnlockCommit
    <2>2. /\ step'[p].copies = step[p].copies /\ step'[p].fp = step[p].fp
          /\ p # req[c].path => UNCHANGED step[p]
        BY <2>1 DEF SetStage, TypeOK, Rows
    <2>3. CASE p = req[c].path
        <3>1. goal[c] = "complete"
            BY <1>2, <2>1, <2>3 DEF SetStage, TypeOK, Rows
        <3>2. HasData(c) /\ Present(c)
            BY <2>1, <3>1 DEF DataInv, FinishesWithData, LockedIsThere, UnlockPCs
        <3>3. req[c].body = Empty => EmptySent(p)
            BY <2>1, <2>3 DEF EmptySent
        <3>4. Filled(p)
            BY <2>3, <3>2, <3>3 DEF HasData, Here, Filled, DataInv, StoredIsDeclared
        <3> QED  BY <2>2, <3>4, EmptySentStays DEF Filled
    <2> QED  BY <1>3, <2>2, <2>3
<1>6. ASSUME NEW c \in Calls, Stores(c) PROVE Filled(p)'
    <2>1. p # req[c].path => UNCHANGED step[p]
        BY <1>6, StoreEffect
    <2>2. CASE p = req[c].path
        <3>1. step'[p].copies # 0
            BY <1>6, <2>2, StoreEffect
        <3>2. step'[p].fp # Empty
            BY <3>1, StoredNext DEF StoredIsDeclared
        <3> QED  BY <3>1, <3>2 DEF Filled
    <2> QED  BY <1>3, <2>1, <2>2
<1>7. CASE DeleteStep \/ CreateCommit
    BY <1>2, <1>3, <1>7 DEF DeleteStep, CreateCommit, NoStep, NewStep, TypeOK
<1>8. ASSUME NEW c \in Calls,
             \/ Request(c) \/ LockSelect(c) \/ Accept(c) \/ Refuse(c) \/ UnlockCheck(c)
             \/ UnlockSelect(c) \/ Start(c) \/ Validate(c) \/ InsertFails(c)
             \/ Tell(c) \/ Cleanup(c) \/ Fault(c)
      PROVE  Filled(p)'
    BY <1>3, <1>8
    DEF Request, LockSelect, Accept, Refuse, UnlockCheck, UnlockSelect, Start, Validate,
        InsertFails, Tell, Cleanup, Fault, PublishFails, CleanupFails, Crash, Redeliver,
        Dies, dbVars
<1>9. CASE CreateStep \/ EditRefused \/ SetMutable
           \/ \E op \in {"create", "delete"}, q \in Paths : EditCheck(op, q)
    BY <1>3, <1>9 DEF CreateStep, EditRefused, SetMutable, EditCheck, dbVars
<1> QED
    BY <1>3, <1>4, <1>5, <1>6, <1>7, <1>8, <1>9 DEF Next, Stores, Progress, Edit, Quiet, vars

LEMMA InitData == Init => DataInv
<1> SUFFICES ASSUME Init PROVE DataInv
    OBVIOUS
<1>1. \A p \in Paths : step[p].stage = "READY" /\ step[p].copies = 0
    BY DEF Init, NoStep, NewStep
<1>2. \A c \in Calls : pc[c] = "idle" /\ pc[c] \notin UnlockPCs
    BY DEF Init, UnlockPCs
<1>3. EditsAllowed /\ LockOwned
    BY <1>2, UploadAssumption DEF Init, EditsAllowed, LockOwned
<1> QED
    BY <1>1, <1>2, <1>3
    DEF DataInv, LockedIsThere, StoredIsDeclared, ValidatesThere, InsertsDeclared,
        FinishesWithData, CompleteHasItsData

(* Who holds the row lock, that a locked row is there, what each call      *)
(* knows of its step, and what COMPLETE stands for.                        *)
THEOREM DataInvariant == ASSUME RowsStay PROVE Spec => [](TypeOK /\ DataInv)
<1>1. Init => TypeOK /\ DataInv
    BY InitTyped, InitData
<1>2. TypeOK /\ DataInv /\ [Next]_vars => (TypeOK /\ DataInv)'
    <2> SUFFICES ASSUME TypeOK, DataInv, [Next]_vars PROVE TypeOK' /\ DataInv'
        OBVIOUS
    <2>1. Locks' /\ Intentions'
        BY LocksNext, IntentionsNext DEF DataInv, Locks
    <2> QED
        BY <2>1, NextTyped, StoredNext, CompleteNext DEF DataInv, Locks, Intentions
<1> QED
    BY <1>1, <1>2, PTL DEF Spec

(* A step that is COMPLETE has the data that it declares, with retries,    *)
(* tasks delivered again and several uploads at a time, as long as no step *)
(* takes the place of a deleted one.                                       *)
THEOREM CompleteHasData == ASSUME RowsStay PROVE Spec => []CompleteHasItsData
<1>1. DataInv => CompleteHasItsData
    BY DEF DataInv
<1> QED
    BY <1>1, DataInvariant, PTL
===============================================================================
