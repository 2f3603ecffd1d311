-------------------------- MODULE UploadClient_proofs --------------------------
(***************************************************************************)
(* Theorems about UploadClient: what a client that waits for its upload    *)
(* may conclude from the stage of the step it polls.                       *)
(***************************************************************************)
EXTENDS UploadClient, UploadData_proofs

(***************************************************************************)
(* The theorems are about background tasks of the API server, clients that *)
(* call set_data one after the other, and a run in which steps are deleted *)
(* but not created, and that stays mutable.  Every fault is allowed, the   *)
(* death of a process included.                                            *)
(***************************************************************************)
SerialUploads == Serial /\ TaskRunner = "api" /\ EditOps \subseteq {"delete"}

(* The call whose client waits for the server.                             *)
Busy(c)    == poll[c] \in {"posting", "polling", "answering"}
Waits(c)   == poll[c] \in {"polling", "answering"}
OneWaiting == \A c, d \in Calls : Busy(c) /\ Busy(d) => c = d

(* Nobody else locks the run.                                              *)
RunUndisturbed == mutable /\ editor.op \in {"idle", "delete"}

Refusing(c) == pc[c] \in UnlockPCs /\ goal[c] = "refuse"

(* Where the call is on the server, by what its client knows.  A call that *)
(* its client has turned away from does nothing to a step any more.        *)
PollMatches(c) ==
    /\ poll[c] = "none" => pc[c] = "idle"
    /\ poll[c] = "posting" => pc[c] \in {"lock", "lock_set", "accept"} \/ Refusing(c)
    /\ Waits(c) => InTask(c) \/ pc[c] \in {"done", "failed", "lost"}
    /\ poll[c] = "rejected" => pc[c] \in {"refused", "lost"}
    /\ poll[c] = "ok" => goal[c] = "complete" /\ pc[c] \in {"cleanup", "done", "lost"}
    /\ poll[c] = "error" => goal[c] = "fail" /\ pc[c] \in {"tell", "cleanup", "failed", "lost"}
    /\ poll[c] = "missing" => ~Present(c) /\ (InTask(c) \/ pc[c] \in {"done", "failed", "lost"})

(* A call that holds its step finds it PROCESSING and, as long as it may    *)
(* fail, with no data that a next try would find, unless vacuum_analyze    *)
(* failed in an upload of the same step.                                   *)
HoldsEmpty(c) == Holds(c) /\ Present(c) =>
    /\ Here(c).stage = "PROCESSING"
    /\ \/ Here(c).copies = 0
       \/ pc[c] \in UnlockPCs /\ goal[c] = "complete"
       \/ VacuumFailed(req[c].path)

(* A task whose vacuum_analyze failed only unlocks its step and ends: it    *)
(* is not tried again, so that it is known for good.                       *)
VacuumIsFinal == \A c \in Calls : cause[c] = "Vacuum" =>
    /\ goal[c] = "fail"
    /\ pc[c] \in UnlockPCs \cup {"tell", "cleanup", "failed", "lost"}
VacuumKept == req' = req /\ \A c \in Calls : cause[c] = "Vacuum" => cause'[c] = "Vacuum"

(* The stage that a waiting client finds is that of its own upload.        *)
StageIsMine(c) == Waits(c) /\ Present(c) =>
    /\ Here(c).stage = "COMPLETE" =>
           goal[c] = "complete" /\ pc[c] \in {"cleanup", "done", "lost"}
    /\ Here(c).stage = "READY" =>
           goal[c] = "fail" /\ pc[c] \in {"tell", "cleanup", "failed", "lost"}

LockedReadStands(c) == pc[c] = "lock_set" => saw[c].stage = Here(c).stage

CallInv(c) == /\ PollMatches(c) /\ HoldsEmpty(c) /\ StageIsMine(c)
              /\ LockedReadStands(c)
ClientInv  == /\ OneWaiting /\ RunUndisturbed /\ OnlyVacuumBlocks
              /\ \A c \in Calls : CallInv(c)

(***************************************************************************)
(* The message.  A failed task sets it unless its step has gone; only the  *)
(* death of the process keeps it from doing so.                            *)
(***************************************************************************)
Told(c) == /\ goal[c] = "fail" => cause[c] # "None"
           /\ /\ goal[c] = "fail" /\ pc[c] \in {"cleanup", "failed"} /\ Present(c)
              => tracker[c] # "None"
           /\ poll[c] = "error" => tracker[c] # "None" \/ pc[c] = "tell"
ToldInv == \A c \in Calls : Told(c) /\ pc[c] # "lost"

-----------------------------------------------------------------------------
(* Type correctness, and what the composition is: StepUpload, watched.     *)

LEMMA ClientTyped ==
    ASSUME ClientTypeOK, [ClientNext]_allVars PROVE ClientTypeOK'
<1>1. [Next]_vars
    BY DEF ClientNext, Post, Serve, Poll, ReadTracker, ReadStage, AllReturned, Next,
           Quiet, allVars, vars
<1>2. TypeOK'
    BY <1>1, NextTyped DEF ClientTypeOK
<1>3. \A c \in Calls : Answered(c) \in PollPhase
    BY DEF ClientTypeOK, Answered, PollPhase, Returned
<1>4. poll' \in [Calls -> PollPhase] /\ heard' \in [Calls -> Causes]
    <2> USE DEF ClientTypeOK, PollPhase, Returned
    <2>1. CASE Hear
        BY <1>3, <2>1 DEF Hear
    <2>2. CASE \E c \in Calls : ReadTracker(c)
        BY <2>2 DEF ReadTracker, TypeOK
    <2>3. CASE \E c \in Calls : ReadStage(c)
        <3>1. \A c \in Calls : Here(c).stage \in {"READY", "PROCESSING", "COMPLETE"}
            BY HereTyped DEF Stages
        <3> QED  BY <2>3, <3>1 DEF ReadStage
    <2>4. CASE UNCHANGED clientVars
        BY <2>4 DEF clientVars
    <2> QED
        BY <2>1, <2>2, <2>3, <2>4
        DEF ClientNext, Post, Serve, Poll, AllReturned, allVars, clientVars
<1> QED
    BY <1>2, <1>4 DEF ClientTypeOK

THEOREM ClientsTyped == ClientSpec => []ClientTypeOK
<1>1. ClientInit => ClientTypeOK
    BY InitTyped DEF ClientInit, ClientTypeOK, PollPhase, Causes
<1> QED
    BY <1>1, ClientTyped, PTL DEF ClientSpec

(* The server goes its own way whoever watches it.                         *)
LEMMA ClientIsUpload == ClientSpec => Spec
<1>1. ClientInit => Init
    BY DEF ClientInit
<1>2. [ClientNext]_allVars => [Next]_vars
    BY DEF ClientNext, Post, Serve, Poll, ReadTracker, ReadStage, AllReturned, Next,
           Quiet, allVars, vars
<1> QED
    BY <1>1, <1>2, PTL DEF ClientSpec, Spec

(* A task that is tried once keeps the reason of its failure.              *)
LEMMA VacuumStays ==
    ASSUME SerialUploads, TypeOK, VacuumIsFinal, [Next]_vars
    PROVE  VacuumIsFinal' /\ VacuumKept
<1> USE DEF Goto, Unlock, Fail, Succeed, TypeOK, UnlockPCs
<1>1. ASSUME NEW c \in Calls, req' = req,
             \A d \in Calls \ {c} :
                 pc'[d] = pc[d] /\ goal'[d] = goal[d] /\ cause'[d] = cause[d],
             cause[c] = "Vacuum" => cause'[c] = "Vacuum",
             cause'[c] = "Vacuum" =>
                 /\ goal'[c] = "fail"
                 /\ pc'[c] \in UnlockPCs \cup {"tell", "cleanup", "failed", "lost"}
      PROVE  VacuumIsFinal' /\ VacuumKept
    BY <1>1 DEF VacuumIsFinal, VacuumKept
<1> USE DEF VacuumIsFinal
<1>2. ASSUME NEW c \in Calls, Request(c) PROVE VacuumIsFinal' /\ VacuumKept
    BY <1>1, <1>2 DEF Request
<1>3. ASSUME NEW c \in Calls, LockSelect(c) PROVE VacuumIsFinal' /\ VacuumKept
    BY <1>1, <1>3 DEF LockSelect
<1>4. ASSUME NEW c \in Calls, LockCommit(c) PROVE VacuumIsFinal' /\ VacuumKept
    BY <1>1, <1>4 DEF LockCommit
<1>5. ASSUME NEW c \in Calls, Accept(c) \/ Refuse(c) PROVE VacuumIsFinal' /\ VacuumKept
    BY <1>1, <1>5 DEF Accept, Refuse
<1>6. ASSUME NEW c \in Calls, UnlockCheck(c) PROVE VacuumIsFinal' /\ VacuumKept
    BY <1>1, <1>6 DEF UnlockCheck, UnlockRaises
<1>7. ASSUME NEW c \in Calls, UnlockSelect(c) PROVE VacuumIsFinal' /\ VacuumKept
    BY <1>1, <1>7 DEF UnlockSelect, UnlockRaises
<1>8. ASSUME NEW c \in Calls, UnlockCommit(c) PROVE VacuumIsFinal' /\ VacuumKept
    BY <1>1, <1>8 DEF UnlockCommit, AfterUnlock
<1>9. ASSUME NEW c \in Calls, Start(c) PROVE VacuumIsFinal' /\ VacuumKept
    BY <1>1, <1>9 DEF Start
<1>10. ASSUME NEW c \in Calls, Validate(c) PROVE VacuumIsFinal' /\ VacuumKept
    BY <1>1, <1>10 DEF Validate
<1>11. ASSUME NEW c \in Calls, Stores(c) PROVE VacuumIsFinal' /\ VacuumKept
    <2>1. /\ req' = req /\ pc[c] = "insert" /\ pc'[c] = "unlock"
          /\ (goal'[c] = "complete" /\ cause'[c] = cause[c]) \/ goal'[c] = "fail"
          /\ \A d \in Calls \ {c} :
                pc'[d] = pc[d] /\ goal'[d] = goal[d] /\ cause'[d] = cause[d]
        BY <1>11, StoreEffect
    <2>2. cause[c] # "Vacuum"
        BY <2>1
    <2> QED  BY <1>1, <2>1, <2>2
<1>12. ASSUME NEW c \in Calls, InsertFails(c) PROVE VacuumIsFinal' /\ VacuumKept
    BY <1>1, <1>12 DEF InsertFails
<1>13. ASSUME NEW c \in Calls, Tell(c) PROVE VacuumIsFinal' /\ VacuumKept
    BY <1>1, <1>13 DEF Tell
<1>14. ASSUME NEW c \in Calls, Cleanup(c) \/ CleanupFails(c)
       PROVE  VacuumIsFinal' /\ VacuumKept
    BY <1>1, <1>14 DEF Cleanup, CleanupFails, Finish, SerialUploads
<1>15. ASSUME NEW c \in Calls, Crash(c) PROVE VacuumIsFinal' /\ VacuumKept
    BY <1>1, <1>15 DEF Crash, Dies
<1>16. \A c \in Calls : ~PublishFails(c) /\ ~Redeliver(c)
    BY DEF SerialUploads, PublishFails, Redeliver
<1>17. CASE Edit \/ UNCHANGED vars
    <2>1. UNCHANGED <<req, pc, goal, cause>>
        BY <1>17 DEF Edit, EditCheck, DeleteStep, CreateStep, CreateCommit, EditRefused,
                     SetMutable, callVars, vars
    <2> QED  BY <2>1 DEF VacuumKept
<1> QED
    BY <1>2, <1>3, <1>4, <1>5, <1>6, <1>7, <1>8, <1>9, <1>10, <1>11, <1>12, <1>13,
       <1>14, <1>15, <1>16, <1>17 DEF Next, Stores, Progress, Fault, Quiet

-----------------------------------------------------------------------------
(***************************************************************************)
(* The calls that a step is not about.                                     *)
(***************************************************************************)

(* A call whose client has turned away, or has not begun: it does not      *)
(* matter what happens to the step, as long as it does not come back.      *)
LEMMA Bystander ==
    ASSUME NEW d \in Calls, poll[d] \in PollPhase, CallInv(d), ~Busy(d),
           poll'[d] = poll[d], pc'[d] = pc[d], goal'[d] = goal[d],
           Present(d)' => Present(d)
    PROVE  CallInv(d)'
BY DEF PollPhase, Returned, Busy, CallInv, PollMatches, HoldsEmpty, StageIsMine,
       LockedReadStands, Waits, Refusing, InTask, TaskPCs, UnlockPCs, Holds

(* A call whose step stays as it is or goes.                               *)
LEMMA Undisturbed ==
    ASSUME NEW d \in Calls, CallInv(d), LockedIsThere', VacuumKept,
           poll'[d] = poll[d], pc'[d] = pc[d], goal'[d] = goal[d], saw'[d] = saw[d],
           (Here(d)' = Here(d) /\ Present(d)' = Present(d)) \/ ~Present(d)'
    PROVE  CallInv(d)'
<1>1. pc[d] = "lock_set" => Present(d)'
    BY DEF LockedIsThere
<1> QED
    BY <1>1
    DEF CallInv, PollMatches, HoldsEmpty, StageIsMine, LockedReadStands, Waits, Refusing,
        InTask, Holds, VacuumKept, VacuumFailed

(* What the answers to the others are while one call moves: none.          *)
LEMMA OnlyOneAnswer ==
    ASSUME ClientTypeOK, ClientInv, Hear, NEW c \in Calls,
           \A d \in Calls \ {c} : pc'[d] = pc[d]
    PROVE  /\ \A d \in Calls \ {c} : poll'[d] = poll[d]
           /\ poll'[c] = Answered(c)
<1>1. ASSUME NEW d \in Calls \ {c} PROVE Answered(d) = poll[d]
    BY <1>1
    DEF ClientInv, CallInv, PollMatches, Answered, EndPCs, Refusing, UnlockPCs
<1> QED
    BY <1>1 DEF Hear

(* A step of one call: the others stay what they are to their clients, if  *)
(* a row changes only when its own client waits for the call.              *)
LEMMA OneCallMoves ==
    ASSUME ClientTypeOK, ClientInv, LockedIsThere', VacuumKept, Hear, NEW c \in Calls,
           \A d \in Calls \ {c} :
               pc'[d] = pc[d] /\ goal'[d] = goal[d] /\ saw'[d] = saw[d],
           UNCHANGED <<req, mutable, editor>>,
           \A p \in Paths : step'[p].id = step[p].id,
           UNCHANGED step \/ Busy(c),
           poll'[c] = Answered(c) => CallInv(c)' /\ (Busy(c)' => Busy(c)),
           OnlyVacuumBlocks'
    PROVE  ClientInv'
<1>1. /\ \A d \in Calls \ {c} : poll'[d] = poll[d]
      /\ poll'[c] = Answered(c)
    BY OnlyOneAnswer
<1>2. \A d \in Calls : Present(d)' = Present(d)
    BY HereTyped DEF ClientTypeOK, Present, Here
<1>3. ASSUME NEW d \in Calls \ {c} PROVE CallInv(d)'
    <2>1. CallInv(d) /\ poll[d] \in PollPhase
        BY DEF ClientInv, ClientTypeOK
    <2>2. CASE UNCHANGED step
        <3>1. Here(d)' = Here(d)
            BY <2>2 DEF Here
        <3> QED  BY <1>1, <1>2, <2>1, <3>1, Undisturbed
    <2>3. CASE Busy(c)
        <3>1. ~Busy(d)
            BY <2>3 DEF ClientInv, OneWaiting
        <3> QED  BY <1>1, <1>2, <2>1, <3>1, Bystander
    <2> QED  BY <2>2, <2>3
<1>4. OneWaiting'
    BY <1>1 DEF ClientInv, OneWaiting, Busy
<1> QED
    BY <1>1, <1>3, <1>4 DEF ClientInv, RunUndisturbed

(* What the row lock cannot do to the only call that a client waits for:   *)
(* no other call has it, and no step is created.                           *)
LEMMA LockIsFree ==
    ASSUME ClientTypeOK, Locks, ClientInv, NEW c \in Calls, pc[c] = "unlock_select",
           Present(c)
    PROVE  rowLock = Free
<1>1. \A d \in Calls : (pc[d] \in UnlockPCs \cup {"lock_set"} /\ Present(d)) => Busy(d)
    BY DEF ClientInv, CallInv, PollMatches, ClientTypeOK, PollPhase, Returned, Busy,
           UnlockPCs
<1>2. ASSUME NEW d \in Calls, rowLock = d PROVE FALSE
    <2>1. pc[d] \in {"lock_set", "unlock_set"} /\ Present(d)
        BY <1>2 DEF Locks, LockOwned, LockedIsThere
    <2>2. Busy(d) /\ Busy(c)
        BY <1>1, <2>1 DEF UnlockPCs
    <2> QED  BY <2>1, <2>2 DEF ClientInv, OneWaiting
<1>3. rowLock # Editor
    BY DEF Locks, LockOwned, ClientInv, RunUndisturbed
<1> QED
    BY <1>2, <1>3 DEF ClientTypeOK, TypeOK

-----------------------------------------------------------------------------
(***************************************************************************)
(* One step of one call.                                                   *)
(***************************************************************************)
LEMMA ReadyKept ==
    ASSUME OnlyVacuumBlocks, VacuumKept, UNCHANGED step PROVE OnlyVacuumBlocks'
BY DEF OnlyVacuumBlocks, VacuumFailed, VacuumKept

(* A step of the call that touches no row.                                 *)
LEMMA CallStepsAside ==
    ASSUME ClientTypeOK, ClientInv, LockedIsThere', VacuumKept, Hear, NEW c \in Calls,
           NEW to \in PCs \ {"idle"}, pc' = [pc EXCEPT ![c] = to],
           \A d \in Calls \ {c} : goal'[d] = goal[d] /\ saw'[d] = saw[d],
           UNCHANGED <<step, req, mutable, editor>>,
           pc[c] # "idle",
           poll'[c] = Answered(c) /\ pc'[c] = to => CallInv(c)'
    PROVE  ClientInv'
<1>1. \A d \in Calls : pc'[d] = IF d = c THEN to ELSE pc[d]
    BY DEF ClientTypeOK, TypeOK
<1>2. poll[c] # "none"
    BY DEF ClientInv, CallInv, PollMatches
<1>3. poll'[c] = Answered(c) => (Busy(c)' => Busy(c))
    BY <1>2 DEF Answered, Busy
<1>4. OnlyVacuumBlocks'
    BY ReadyKept DEF ClientInv
<1> QED
    BY <1>1, <1>3, <1>4, OneCallMoves

(* The handler: a client that posts is told the end of it.                 *)
LEMMA HandlerSteps ==
    ASSUME SerialUploads, ClientTypeOK, DataInv, DataInv', VacuumKept, ClientInv, Hear,
           NEW c \in Calls, LockSelect(c) \/ LockCommit(c) \/ Accept(c) \/ Refuse(c)
    PROVE  ClientInv'
<1> USE DEF Goto, Unlock, dbVars, envVars, PCs, EndPCs, UnlockPCs, TaskPCs
<1>1. /\ poll[c] = "posting" /\ CallInv(c) /\ TypeOK /\ LockedIsThere /\ LockedIsThere'
      /\ OnlyVacuumBlocks
      /\ VacuumFailed(req[c].path) => VacuumFailed(req[c].path)'
    BY DEF LockSelect, LockCommit, Accept, Refuse, ClientInv, CallInv, PollMatches,
           ClientTypeOK, PollPhase, Returned, Waits, Refusing, InTask, DataInv,
           VacuumKept, VacuumFailed
<1> USE DEF CallInv, PollMatches, HoldsEmpty, StageIsMine, LockedReadStands, Waits,
            Refusing, Holds, Answered
<1>2. CASE LockSelect(c)
    <2>1. PICK to \in {"lock_set", "refused"} :
             /\ pc' = [pc EXCEPT ![c] = to]
             /\ to = "lock_set" => saw' = [saw EXCEPT ![c] = [id |-> Here(c).id,
                                                           stage |-> Here(c).stage]]
             /\ to = "refused" => saw' = saw
        BY <1>2 DEF LockSelect
    <2>2. UNCHANGED <<step, req, goal, mutable, editor>> /\ pc[c] = "lock"
        BY <1>2 DEF LockSelect
    <2>3. \A d \in Calls \ {c} : saw'[d] = saw[d]
        BY <1>1, <2>1 DEF TypeOK
    <2>4. poll'[c] = Answered(c) /\ pc'[c] = to => CallInv(c)'
        BY <1>1, <2>1, <2>2 DEF TypeOK, Here, Present
    <2> QED  BY <1>1, <2>1, <2>2, <2>3, <2>4, CallStepsAside
<1>3. CASE LockCommit(c) /\ saw[c].stage # "READY"
    <2>1. /\ pc' = [pc EXCEPT ![c] = "refused"] /\ pc[c] = "lock_set"
          /\ UNCHANGED <<step, req, goal, saw, mutable, editor>>
        BY <1>3 DEF LockCommit
    <2>2. poll'[c] = Answered(c) /\ pc'[c] = "refused" => CallInv(c)'
        BY <1>1, <2>1
    <2> QED  BY <1>1, <2>1, <2>2, CallStepsAside
<1>4. CASE LockCommit(c) /\ saw[c].stage = "READY"
    <2>1. /\ pc' = [pc EXCEPT ![c] = "accept"] /\ SetStage(req[c].path, "PROCESSING")
          /\ UNCHANGED <<req, goal, saw, mutable, editor>>
          /\ Here(c).stage = "READY" /\ req[c].path \in Paths
        BY <1>1, <1>4, HereTyped DEF LockCommit
    <2>2. Here(c).copies = 0 \/ VacuumFailed(req[c].path)'
        BY <1>1, <2>1 DEF OnlyVacuumBlocks, Here, VacuumKept, VacuumFailed
    <2>3. \A q \in Paths :
            /\ step'[q].id = step[q].id /\ step'[q].copies = step[q].copies
            /\ step'[q].stage = IF q = req[c].path THEN "PROCESSING" ELSE step[q].stage
        BY <1>1, <2>1, StageSet
    <2>4. \A d \in Calls : pc'[d] = IF d = c THEN "accept" ELSE pc[d]
        BY <1>1, <2>1 DEF TypeOK
    <2>5. poll'[c] = Answered(c) => CallInv(c)' /\ (Busy(c)' => Busy(c))
        BY <1>1, <2>1, <2>2, <2>3, <2>4 DEF Busy, Here, Present
    <2>6. OnlyVacuumBlocks'
        BY <1>1, <2>3 DEF OnlyVacuumBlocks, VacuumKept, VacuumFailed
    <2> QED  BY <1>1, <2>1, <2>3, <2>4, <2>5, <2>6, OneCallMoves DEF Busy
<1>5. CASE Accept(c)
    <2>1. /\ pc' = [pc EXCEPT ![c] = "queued"] /\ pc[c] = "accept"
          /\ UNCHANGED <<step, req, goal, saw, mutable, editor>>
        BY <1>5 DEF Accept
    <2>2. poll'[c] = Answered(c) /\ pc'[c] = "queued" => CallInv(c)'
        BY <1>1, <2>1 DEF InTask, Here, Present
    <2> QED  BY <1>1, <2>1, <2>2, CallStepsAside
<1>6. CASE Refuse(c)
    <2>1. /\ pc' = [pc EXCEPT ![c] = "unlock"] /\ pc[c] = "accept"
          /\ goal' = [goal EXCEPT ![c] = "refuse"]
          /\ UNCHANGED <<step, req, saw, mutable, editor>>
        BY <1>6 DEF Refuse
    <2>2. goal'[c] = "refuse" /\ \A d \in Calls \ {c} : goal'[d] = goal[d]
        BY <1>1, <2>1 DEF TypeOK
    <2>3. poll'[c] = Answered(c) /\ pc'[c] = "unlock" => CallInv(c)'
        BY <1>1, <2>1, <2>2 DEF Here, Present
    <2> QED  BY <1>1, <2>1, <2>2, <2>3, CallStepsAside
<1> QED
    BY <1>2, <1>3, <1>4, <1>5, <1>6

(* The end of unlock_step_data: the row is there, and the client waits.    *)
LEMMA UnlockCommitStep ==
    ASSUME SerialUploads, ClientTypeOK, DataInv, DataInv', VacuumKept, ClientInv, Hear,
           NEW c \in Calls, UnlockCommit(c)
    PROVE  ClientInv'
<1> USE DEF EndPCs, UnlockPCs, TaskPCs
<1> DEFINE s == IF goal[c] = "complete" THEN "COMPLETE" ELSE "READY"
<1>1. /\ CallInv(c) /\ TypeOK /\ LockedIsThere /\ LockedIsThere' /\ OnlyVacuumBlocks
      /\ pc[c] = "unlock_set" /\ Present(c) /\ req[c].path \in Paths
    BY HereTyped DEF UnlockCommit, ClientInv, ClientTypeOK, DataInv, LockedIsThere
<1>2. /\ SetStage(req[c].path, s) /\ pc' = [pc EXCEPT ![c] = AfterUnlock[goal[c]]]
      /\ UNCHANGED <<req, goal, saw, mutable, editor>>
    BY DEF UnlockCommit, Goto, envVars
<1>3. \A q \in Paths :
        /\ step'[q].id = step[q].id /\ step'[q].copies = step[q].copies
        /\ step'[q].stage = IF q = req[c].path THEN s ELSE step[q].stage
    BY <1>1, <1>2, StageSet
<1>4. goal[c] # "complete" => Here(c).copies = 0 \/ VacuumFailed(req[c].path)
    BY <1>1 DEF CallInv, HoldsEmpty, Holds
<1>5. /\ \A d \in Calls \ {c} : pc'[d] = pc[d]
      /\ goal[c] = "complete" => pc'[c] = "cleanup"
      /\ goal[c] = "fail" => pc'[c] = "tell"
      /\ goal[c] = "refuse" => pc'[c] = "refused"
      /\ goal[c] \in {"complete", "fail", "refuse"}
    BY <1>1, <1>2 DEF AfterUnlock, TypeOK
<1>6. \/ poll[c] = "posting" /\ goal[c] = "refuse"
      \/ Waits(c) /\ goal[c] # "refuse"
    BY <1>1
    DEF CallInv, PollMatches, Waits, Refusing, InTask, ClientTypeOK, PollPhase, Returned
<1>7. /\ Here(c)'.id = Here(c).id /\ Here(c)'.copies = Here(c).copies /\ Here(c)'.stage = s
      /\ Present(c)' = Present(c)
    BY <1>1, <1>2, <1>3 DEF Here, Present
<1>8. poll'[c] = Answered(c) => CallInv(c)' /\ (Busy(c)' => Busy(c))
    <2> HAVE poll'[c] = Answered(c)
    <2>1. poll'[c] = IF goal[c] = "refuse" THEN "rejected" ELSE poll[c]
        BY <1>5, <1>6 DEF Answered, Waits
    <2>2. Busy(c)' => Busy(c)
        BY <2>1 DEF Busy
    <2>3. PollMatches(c)'
        BY <1>2, <1>5, <1>6, <2>1 DEF PollMatches, Waits, InTask, Refusing
    <2>4. HoldsEmpty(c)' /\ LockedReadStands(c)'
        BY <1>2, <1>5 DEF HoldsEmpty, Holds, LockedReadStands
    <2>5. StageIsMine(c)'
        BY <1>2, <1>5, <1>6, <1>7, <2>1 DEF StageIsMine, Waits
    <2> QED  BY <2>2, <2>3, <2>4, <2>5 DEF CallInv
<1>9. OnlyVacuumBlocks'
    BY <1>1, <1>3, <1>4 DEF OnlyVacuumBlocks, Here, VacuumKept, VacuumFailed
<1> QED
    BY <1>1, <1>2, <1>3, <1>5, <1>6, <1>8, <1>9, OneCallMoves DEF Busy, Waits

(* The parts of unlock_step_data before that: they raise only when the     *)
(* step has gone.                                                          *)
LEMMA UnlockBegins ==
    ASSUME SerialUploads, ClientTypeOK, DataInv, DataInv', VacuumKept, ClientInv, Hear,
           NEW c \in Calls, UnlockCheck(c) \/ UnlockSelect(c)
    PROVE  ClientInv'
<1> USE DEF EndPCs, UnlockPCs, TaskPCs
<1>1. /\ CallInv(c) /\ TypeOK /\ LockedIsThere' /\ pc[c] \in {"unlock", "unlock_select"}
      /\ UNCHANGED <<step, req, saw, mutable, editor>>
    BY DEF UnlockCheck, UnlockSelect, ClientInv, ClientTypeOK, DataInv, dbVars, envVars
<1>2. Here(c)' = Here(c) /\ Present(c)' = Present(c)
    BY <1>1 DEF Here, Present
<1>3. PICK to \in {"unlock", "unlock_select", "unlock_set", "cleanup", "refused"} :
         /\ pc' = [pc EXCEPT ![c] = to]
         /\ to \in {"unlock_select", "unlock_set"} => goal' = goal
         /\ to \in {"unlock", "cleanup", "refused"} => ~Present(c)
         /\ to = "unlock" => goal[c] = "complete" /\ goal' = [goal EXCEPT ![c] = "fail"]
         /\ to = "cleanup" => goal[c] = "fail" /\ goal' = goal
         /\ to = "refused" => goal[c] = "refuse" /\ goal' = goal
    <2>1. CASE UnlockCheck(c)
        <3>1. mutable
            BY DEF ClientInv, RunUndisturbed
        <3> QED  BY <2>1, <3>1 DEF UnlockCheck, Goto
    <2>2. CASE UnlockSelect(c)
        <3>1. Present(c) => rowLock = Free
            BY <2>2, LockIsFree DEF UnlockSelect, DataInv, Locks, EditsAllowed
        <3> QED
            BY <2>2, <3>1 DEF UnlockSelect, UnlockRaises, Fail, Unlock, Goto
    <2> QED  BY <2>1, <2>2
<1>4. /\ \A d \in Calls \ {c} : goal'[d] = goal[d] /\ saw'[d] = saw[d]
      /\ goal'[c] = IF to = "unlock" THEN "fail" ELSE goal[c]
    BY <1>1, <1>3 DEF TypeOK
<1>5. poll'[c] = Answered(c) /\ pc'[c] = to => CallInv(c)'
    <2> HAVE poll'[c] = Answered(c) /\ pc'[c] = to
    <2>1. poll'[c] = IF to = "refused" /\ poll[c] = "posting" THEN "rejected" ELSE poll[c]
        BY <1>1, <1>3
        DEF Answered, CallInv, PollMatches, Waits, InTask, Refusing, ClientTypeOK,
            PollPhase, Returned
    <2>2. PollMatches(c)'
        BY <1>1, <1>2, <1>3, <1>4, <2>1
        DEF CallInv, PollMatches, Waits, InTask, Refusing
    <2>3. HoldsEmpty(c)' /\ LockedReadStands(c)'
        BY <1>1, <1>2, <1>3, <1>4 DEF CallInv, HoldsEmpty, Holds, LockedReadStands, VacuumKept,
                                       VacuumFailed
    <2>4. StageIsMine(c)'
        BY <1>1, <1>2, <1>3, <1>4, <2>1 DEF CallInv, StageIsMine, HoldsEmpty, Holds, Waits
    <2> QED  BY <2>2, <2>3, <2>4 DEF CallInv
<1> QED
    BY <1>1, <1>3, <1>4, <1>5, CallStepsAside DEF PCs

(* The task: what it does before it unlocks the step, when it could not do *)
(* that, and after it.                                                     *)
LEMMA TaskSteps ==
    ASSUME SerialUploads, ClientTypeOK, DataInv, DataInv', VacuumKept, ClientInv, Hear,
           NEW c \in Calls,
           \/ Start(c) \/ Validate(c) \/ InsertFails(c)
           \/ Tell(c) \/ Cleanup(c) \/ CleanupFails(c)
    PROVE  ClientInv'
<1> USE DEF EndPCs, UnlockPCs, TaskPCs
<1>1. /\ CallInv(c) /\ TypeOK /\ LockedIsThere'
      /\ UNCHANGED <<step, req, mutable, editor>>
    BY DEF Start, Validate, InsertFails, Tell, Cleanup, CleanupFails, ClientInv,
           ClientTypeOK, DataInv, dbVars, envVars
<1>2. Here(c)' = Here(c) /\ Present(c)' = Present(c)
    BY <1>1 DEF Here, Present
<1>3. PICK to \in PCs \ {"idle"} :
         /\ pc' = [pc EXCEPT ![c] = to]
         /\ \/ /\ pc[c] = "queued" /\ to = "validate" /\ UNCHANGED <<goal, saw>>
            \/ /\ pc[c] = "validate" /\ to = "insert" /\ goal' = goal
               /\ \E n : saw' = [saw EXCEPT ![c] = n]
            \/ /\ pc[c] \in {"queued", "validate", "insert"} /\ to = "unlock"
               /\ \E g \in {"fail", "complete"} : goal' = [goal EXCEPT ![c] = g]
               /\ saw' = saw
            \/ /\ pc[c] = "tell" /\ to = "cleanup" /\ UNCHANGED <<goal, saw>>
            \/ /\ pc[c] = "cleanup" /\ UNCHANGED <<goal, saw>>
               /\ \/ goal[c] = "complete" /\ to = "done"
                  \/ goal[c] = "fail" /\ to = "failed"
    <2> USE DEF Goto, Unlock, Fail, Succeed, PCs
    <2>1. CASE Start(c)        BY <2>1 DEF Start
    <2>2. CASE Validate(c)     BY <2>2 DEF Validate
    <2>3. CASE InsertFails(c)  BY <2>3 DEF InsertFails
    <2>4. CASE Tell(c)         BY <2>4 DEF Tell
    <2>5. CASE Cleanup(c) \/ CleanupFails(c)
        BY <2>5 DEF Cleanup, CleanupFails, Finish, SerialUploads
    <2> QED  BY <2>1, <2>2, <2>3, <2>4, <2>5
<1>4. /\ \A d \in Calls \ {c} : goal'[d] = goal[d] /\ saw'[d] = saw[d]
      /\ to = "unlock" => goal'[c] \in {"fail", "complete"}
      /\ to # "unlock" => goal'[c] = goal[c]
    BY <1>3 DEF TypeOK, ClientTypeOK
<1>5. pc[c] \in TaskPCs
    BY <1>3
<1>6. poll'[c] = Answered(c) /\ pc'[c] = to => CallInv(c)'
    <2> HAVE poll'[c] = Answered(c) /\ pc'[c] = to
    <2>1. poll'[c] = poll[c]
        BY <1>1, <1>5 DEF Answered, CallInv, PollMatches, Refusing
    <2>2. PollMatches(c)'
        BY <1>1, <1>2, <1>3, <1>4, <1>5, <2>1
        DEF CallInv, PollMatches, Waits, InTask, Refusing
    <2>3. HoldsEmpty(c)' /\ LockedReadStands(c)'
        BY <1>1, <1>2, <1>3, <1>4, <1>5 DEF CallInv, HoldsEmpty, Holds, LockedReadStands, VacuumKept,
                                       VacuumFailed
    <2>4. StageIsMine(c)'
        BY <1>1, <1>2, <1>3, <1>4, <1>5, <2>1 DEF CallInv, StageIsMine, HoldsEmpty, Holds, Waits
    <2> QED  BY <2>2, <2>3, <2>4 DEF CallInv
<1> QED
    BY <1>1, <1>3, <1>4, <1>5, <1>6, CallStepsAside

(* The insert: the step that was validated is still there, and its client  *)
(* waits.  It succeeds, or its vacuum_analyze fails.                       *)
LEMMA StoringStep ==
    ASSUME SerialUploads, ClientTypeOK, DataInv, DataInv', VacuumKept, ClientInv, Hear,
           NEW c \in Calls, Stores(c)
    PROVE  ClientInv'
<1> USE DEF EndPCs, UnlockPCs, TaskPCs
<1>1. /\ CallInv(c) /\ TypeOK /\ LockedIsThere' /\ OnlyVacuumBlocks
      /\ req[c].path \in Paths /\ pc[c] = "insert" /\ InsertAllowed(c)
    BY StoreEffect DEF ClientInv, ClientTypeOK, DataInv
<1>2. /\ UNCHANGED <<req, saw, mutable, editor>>
      /\ \A d \in Calls \ {c} : pc'[d] = pc[d] /\ goal'[d] = goal[d]
      /\ pc'[c] = "unlock"
      /\ goal'[c] = "complete" \/ (goal'[c] = "fail" /\ cause'[c] = "Vacuum")
      /\ \A q \in Paths :
            /\ step'[q].id = step[q].id /\ step'[q].stage = step[q].stage
            /\ q # req[c].path => step'[q].copies = step[q].copies
    <2>1. TypeOK /\ Stores(c)
        BY <1>1
    <2> HIDE DEF EndPCs, UnlockPCs, TaskPCs
    <2> QED  BY <2>1, StoreEffect
<1>3. Present(c)
    BY <1>1 DEF DataInv, InsertsDeclared, Declared, InsertAllowed, Present
<1>4. Waits(c)
    BY <1>1, <1>3
    DEF CallInv, PollMatches, Waits, Refusing, ClientTypeOK, PollPhase, Returned
<1>5. Here(c).stage = "PROCESSING" /\ Here(c)'.stage = "PROCESSING"
    BY <1>1, <1>2, <1>3 DEF CallInv, HoldsEmpty, Holds, Here
<1>6. poll'[c] = Answered(c) => CallInv(c)' /\ (Busy(c)' => Busy(c))
    <2> HAVE poll'[c] = Answered(c)
    <2>1. poll'[c] = poll[c]
        BY <1>4 DEF Answered, Waits
    <2>2. PollMatches(c)'
        BY <1>2, <1>4, <2>1 DEF PollMatches, Waits, InTask
    <2>3. LockedReadStands(c)' /\ StageIsMine(c)'
        BY <1>2, <1>5 DEF LockedReadStands, StageIsMine
    <2>4. goal'[c] = "complete" \/ VacuumFailed(req[c].path)'
        BY <1>2 DEF VacuumFailed
    <2>5. HoldsEmpty(c)'
        BY <1>2, <1>5, <2>4 DEF HoldsEmpty
    <2> QED  BY <2>1, <2>2, <2>3, <2>5 DEF CallInv, Busy
<1>7. OnlyVacuumBlocks'
    BY <1>1, <1>2, <1>5 DEF OnlyVacuumBlocks, Here, VacuumKept, VacuumFailed
<1> QED
    BY <1>1, <1>2, <1>4, <1>6, <1>7, OneCallMoves DEF Busy, Waits

(* The death of the process: its client is told, or polls on for ever.     *)
LEMMA CrashStep ==
    ASSUME SerialUploads, ClientTypeOK, DataInv, DataInv', VacuumKept, ClientInv, Hear,
           NEW c \in Calls, Crash(c)
    PROVE  ClientInv'
<1> USE DEF EndPCs, UnlockPCs, TaskPCs
<1>1. /\ CallInv(c) /\ TypeOK /\ LockedIsThere' /\ pc[c] \notin EndPCs \cup {"idle"}
      /\ pc' = [pc EXCEPT ![c] = "lost"]
      /\ UNCHANGED <<step, req, goal, saw, mutable, editor>>
    BY DEF Crash, Dies, Running, Goto, ClientInv, ClientTypeOK, DataInv, dbVars
<1>2. Here(c)' = Here(c) /\ Present(c)' = Present(c)
    BY <1>1 DEF Here, Present
<1>3. poll'[c] = Answered(c) /\ pc'[c] = "lost" => CallInv(c)'
    <2> HAVE poll'[c] = Answered(c) /\ pc'[c] = "lost"
    <2>1. poll'[c] = IF poll[c] = "posting" THEN "rejected" ELSE poll[c]
        BY <1>1 DEF Answered, CallInv, PollMatches
    <2>2. PollMatches(c)'
        BY <1>1, <1>2, <2>1 DEF CallInv, PollMatches, Waits, Refusing, InTask
    <2>3. HoldsEmpty(c)' /\ LockedReadStands(c)'
        BY <2>1 DEF HoldsEmpty, Holds, LockedReadStands
    <2>4. StageIsMine(c)'
        BY <1>1, <1>2, <2>1 DEF CallInv, StageIsMine, HoldsEmpty, Holds, Waits
    <2> QED  BY <2>2, <2>3, <2>4 DEF CallInv
<1> QED
    BY <1>1, <1>3, CallStepsAside DEF PCs

-----------------------------------------------------------------------------
(***************************************************************************)
(* The client's own steps, and those of nobody's call.                     *)
(***************************************************************************)
LEMMA PostStep ==
    ASSUME SerialUploads, ClientTypeOK, DataInv, DataInv', VacuumKept, ClientInv,
           NEW c \in Calls, Post(c)
    PROVE  ClientInv'
<1>1. /\ Request(c) /\ Hear /\ pc[c] = "idle" /\ pc' = [pc EXCEPT ![c] = "lock"]
      /\ UNCHANGED <<step, req, goal, saw, mutable, editor>>
    BY DEF Post, Request, Goto, ClientInv, RunUndisturbed, dbVars, envVars
<1>2. \A d \in Calls : pc'[d] = IF d = c THEN "lock" ELSE pc[d]
    BY <1>1 DEF ClientTypeOK, TypeOK
<1>3. \A d \in Calls : CallInv(d) /\ poll[d] \in PollPhase
    BY DEF ClientInv, ClientTypeOK
<1>4. poll[c] = "none"
    BY <1>1, <1>3
    DEF CallInv, PollMatches, Waits, InTask, TaskPCs, UnlockPCs, Refusing, PollPhase, Returned
<1>5. (\A d \in Calls \ {c} : poll'[d] = poll[d]) /\ poll'[c] = "posting"
    BY <1>1, <1>2, <1>4, OnlyOneAnswer DEF Answered, EndPCs
<1>6. \A d \in Calls : Here(d)' = Here(d) /\ Present(d)' = Present(d)
    BY <1>1 DEF Here, Present
<1>7. ASSUME NEW d \in Calls \ {c} PROVE CallInv(d)'
    BY <1>1, <1>2, <1>3, <1>5, <1>6, Undisturbed DEF DataInv
<1>8. CallInv(c)'
    BY <1>2, <1>5
    DEF CallInv, PollMatches, HoldsEmpty, Holds, UnlockPCs, StageIsMine, Waits,
        LockedReadStands
<1>9. \A d \in Calls \ {c} : ~Busy(d)
    BY DEF Post, SerialUploads, Busy, Returned
<1>10. OneWaiting'
    BY <1>5, <1>9 DEF OneWaiting, Busy
<1>11. RunUndisturbed' /\ OnlyVacuumBlocks'
    BY <1>1, ReadyKept DEF ClientInv, RunUndisturbed
<1> QED
    BY <1>7, <1>8, <1>10, <1>11 DEF ClientInv

LEMMA PollStep ==
    ASSUME ClientTypeOK, DataInv, DataInv', VacuumKept, ClientInv,
           NEW c \in Calls, Poll(c)
    PROVE  ClientInv'
<1>1. /\ UNCHANGED vars /\ Waits(c) /\ CallInv(c)
      /\ \A d \in Calls \ {c} : poll'[d] = poll[d]
    BY DEF Poll, ReadTracker, ReadStage, Waits, ClientInv, ClientTypeOK
<1>2. /\ UNCHANGED <<step, pc, goal, saw, req, mutable, editor>>
      /\ \A d \in Calls : Here(d)' = Here(d) /\ Present(d)' = Present(d)
    BY <1>1 DEF vars, Here, Present
<1>3. \A d \in Calls \ {c} : CallInv(d)'
    BY <1>1, <1>2, Undisturbed DEF ClientInv, DataInv
<1>4. \/ poll'[c] \in {"polling", "answering"}
      \/ poll'[c] = "missing" /\ ~Present(c)
      \/ poll'[c] = "error" /\ Present(c) /\ Here(c).stage = "READY"
      \/ poll'[c] = "ok" /\ Present(c) /\ Here(c).stage = "COMPLETE"
    BY HereTyped DEF Poll, ReadTracker, ReadStage, ClientTypeOK, Stages
<1>5. CallInv(c)'
    <2>1. HoldsEmpty(c)' /\ LockedReadStands(c)' /\ StageIsMine(c)'
        BY <1>1, <1>2
        DEF CallInv, HoldsEmpty, Holds, StageIsMine, LockedReadStands, Waits,
            VacuumKept, VacuumFailed
    <2>2. PollMatches(c)'
        BY <1>1, <1>2, <1>4
        DEF CallInv, PollMatches, StageIsMine, Waits, InTask
    <2> QED  BY <2>1, <2>2 DEF CallInv
<1>6. OneWaiting'
    BY <1>1 DEF ClientInv, OneWaiting, Busy, Waits
<1>7. RunUndisturbed' /\ OnlyVacuumBlocks'
    BY <1>2, ReadyKept DEF ClientInv, RunUndisturbed
<1> QED
    BY <1>3, <1>5, <1>6, <1>7 DEF ClientInv

(* Nothing moves but the rows of steps that are deleted.                   *)
LEMMA RowsGo ==
    ASSUME ClientTypeOK, DataInv', VacuumKept, ClientInv,
           UNCHANGED <<poll, pc, goal, saw, req>>,
           RunUndisturbed',
           \A p \in Paths : step'[p] = step[p] \/ step'[p] = NoStep
    PROVE  ClientInv'
<1>1. \A d \in Calls : (Here(d)' = Here(d) /\ Present(d)' = Present(d)) \/ ~Present(d)'
    BY HereTyped DEF ClientTypeOK, Here, Present, NoStep
<1>2. \A d \in Calls : CallInv(d)'
    BY <1>1, Undisturbed DEF ClientInv, DataInv
<1>3. OnlyVacuumBlocks'
    BY DEF ClientInv, OnlyVacuumBlocks, NoStep, VacuumFailed, VacuumKept
<1>4. OneWaiting'
    BY DEF ClientInv, OneWaiting, Busy
<1> QED
    BY <1>2, <1>3, <1>4 DEF ClientInv

LEMMA EditSteps ==
    ASSUME SerialUploads, ClientTypeOK, DataInv', VacuumKept, ClientInv, Edit, Hear
    PROVE  ClientInv'
<1>1. UNCHANGED <<pc, goal, saw, req>>
    BY DEF Edit, EditCheck, DeleteStep, CreateStep, CreateCommit, EditRefused, SetMutable,
           callVars
<1>2. poll' = poll
    <2>1. \A d \in Calls : Answered(d) = poll[d]
        BY <1>1
        DEF ClientInv, CallInv, PollMatches, Answered, EndPCs, UnlockPCs, Refusing
    <2> QED  BY <2>1 DEF Hear, ClientTypeOK
<1>3. /\ RunUndisturbed'
      /\ \A p \in Paths : step'[p] = step[p] \/ step'[p] = NoStep
    <2> USE DEF RunUndisturbed, ClientInv, SerialUploads, ClientTypeOK, TypeOK, dbVars
    <2>1. CASE \E op \in {"create", "delete"}, p \in Paths : EditCheck(op, p)
        BY <2>1 DEF EditCheck
    <2>2. CASE DeleteStep
        BY <2>2 DEF DeleteStep, EditDone
    <2>3. CASE EditRefused
        BY <2>3 DEF EditRefused, EditDone
    <2>4. CASE CreateStep \/ CreateCommit \/ SetMutable
        BY <2>4 DEF CreateStep, CreateCommit, SetMutable
    <2> QED  BY <2>1, <2>2, <2>3, <2>4 DEF Edit
<1> QED
    BY <1>1, <1>2, <1>3, RowsGo

LEMMA ClientInvNext ==
    ASSUME SerialUploads, ClientTypeOK, DataInv, DataInv', VacuumKept, ClientInv,
           [ClientNext]_allVars
    PROVE  ClientInv'
<1>1. ASSUME NEW c \in Calls, Serve(c) PROVE ClientInv'
    <2>1. CASE LockSelect(c) \/ LockCommit(c) \/ Accept(c) \/ Refuse(c)
        BY <1>1, <2>1, HandlerSteps DEF Serve
    <2>2. CASE UnlockCheck(c) \/ UnlockSelect(c)
        BY <1>1, <2>2, UnlockBegins DEF Serve
    <2>3. CASE UnlockCommit(c)
        BY <1>1, <2>3, UnlockCommitStep DEF Serve
    <2>4. CASE \/ Start(c) \/ Validate(c) \/ InsertFails(c)
               \/ Tell(c) \/ Cleanup(c) \/ CleanupFails(c)
        BY <1>1, <2>4, TaskSteps DEF Serve
    <2>5. CASE Stores(c)
        BY <1>1, <2>5, StoringStep DEF Serve
    <2>6. CASE Crash(c)
        BY <1>1, <2>6, CrashStep DEF Serve
    <2>7. ~PublishFails(c) /\ ~Redeliver(c)
        BY DEF SerialUploads, PublishFails, Redeliver
    <2> QED
        BY <1>1, <2>1, <2>2, <2>3, <2>4, <2>5, <2>6, <2>7
        DEF Serve, Stores, Progress, Fault
<1>2. ASSUME UNCHANGED allVars PROVE ClientInv'
    <2>1. UNCHANGED <<poll, pc, goal, saw, req, mutable, editor, step>>
        BY <1>2 DEF allVars, vars
    <2>2. RunUndisturbed'
        BY <2>1 DEF ClientInv, RunUndisturbed
    <2> QED  BY <2>1, <2>2, RowsGo
<1>3. AllReturned => UNCHANGED allVars
    BY DEF AllReturned, Quiet, clientVars, allVars, vars
<1> QED
    BY <1>1, <1>2, <1>3, PostStep, PollStep, EditSteps DEF ClientNext

LEMMA InitClient == ClientInit => ClientInv
<1> SUFFICES ASSUME ClientInit PROVE ClientInv
    OBVIOUS
<1>1. \A c \in Calls : poll[c] = "none" /\ pc[c] = "idle"
    BY DEF ClientInit, Init
<1>2. \A c \in Calls : CallInv(c)
    BY <1>1
    DEF CallInv, PollMatches, HoldsEmpty, Holds, UnlockPCs, StageIsMine, Waits,
        LockedReadStands
<1>3. OnlyVacuumBlocks
    BY DEF ClientInit, Init, OnlyVacuumBlocks, NoStep, NewStep
<1>4. OneWaiting /\ RunUndisturbed
    BY <1>1 DEF OneWaiting, Busy, RunUndisturbed, ClientInit, Init
<1> QED
    BY <1>2, <1>3, <1>4 DEF ClientInv

(* What a client knows of its call and of its step, whatever the server,   *)
(* the deletions and the faults do.                                        *)
THEOREM ClientInvariant ==
    ASSUME SerialUploads
    PROVE  ClientSpec => [](ClientTypeOK /\ DataInv /\ ClientInv)
<1>1. Spec => []DataInv
    <2>1. RowsStay
        BY DEF SerialUploads, RowsStay
    <2>2. Spec => [](TypeOK /\ DataInv)
        BY <2>1, DataInvariant
    <2> QED  BY <2>2, PTL
<1>2. ClientInit => VacuumIsFinal
    BY DEF ClientInit, Init, VacuumIsFinal
<1>3. /\ ClientTypeOK /\ DataInv /\ DataInv' /\ VacuumIsFinal /\ ClientInv
      /\ [ClientNext]_allVars
      => VacuumIsFinal' /\ ClientInv'
    <2>1. [ClientNext]_allVars => [Next]_vars
        BY DEF ClientNext, Post, Serve, Poll, ReadTracker, ReadStage, AllReturned, Next,
               Quiet, allVars, vars
    <2> QED  BY <2>1, VacuumStays, ClientInvNext DEF ClientTypeOK
<1> QED
    BY <1>1, <1>2, <1>3, InitClient, ClientsTyped, ClientIsUpload, PTL DEF ClientSpec

(* A client that is told its upload is complete has completed it itself.   *)
THEOREM CompleteIsOwn ==
    ASSUME SerialUploads PROVE ClientSpec => []OkIsMine
<1>1. ClientInv => OkIsMine
    BY DEF ClientInv, CallInv, PollMatches, OkIsMine
<1> QED
    BY <1>1, ClientInvariant, PTL

(* An upload that failed leaves no data behind in a step that is READY for *)
(* the next, unless it failed in vacuum_analyze, after its commit: with    *)
(* one client at a time, a step that is deleted under an upload and a      *)
(* server that dies leave none.                                            *)
THEOREM ReadyIsBlank ==
    ASSUME SerialUploads PROVE ClientSpec => []OnlyVacuumBlocks
<1>1. ClientInv => OnlyVacuumBlocks
    BY DEF ClientInv
<1> QED
    BY <1>1, ClientInvariant, PTL

-----------------------------------------------------------------------------
(***************************************************************************)
(* The message that an upload leaves when it fails.                        *)
(***************************************************************************)
LEMMA ToldKept ==
    ASSUME NEW d \in Calls, Told(d), pc[d] # "lost",
           poll'[d] = poll[d], pc'[d] = pc[d], goal'[d] = goal[d],
           cause'[d] = cause[d], tracker'[d] = tracker[d],
           Present(d)' => Present(d)
    PROVE  Told(d)' /\ pc'[d] # "lost"
BY DEF Told

(* What a step of the server may do to the call that it is a step of.      *)
LEMMA ServeTells ==
    ASSUME SerialUploads, "crash" \notin Faults, ClientTypeOK, DataInv, ClientInv,
           NEW c \in Calls, Serve(c)
    PROVE  /\ \A d \in Calls \ {c} :
                 /\ pc'[d] = pc[d] /\ goal'[d] = goal[d]
                 /\ cause'[d] = cause[d] /\ tracker'[d] = tracker[d]
           /\ pc'[c] # "lost"
           /\ \/ goal'[c] = goal[c] /\ cause'[c] = cause[c]
              \/ goal'[c] = "fail" /\ cause'[c] # "None"
              \/ goal'[c] \in {"refuse", "complete"}
           /\ IF pc[c] = "tell" THEN pc'[c] = "cleanup" /\ tracker'[c] = cause[c]
              ELSE tracker'[c] = tracker[c]
           /\ goal'[c] = "fail" /\ pc'[c] \in {"cleanup", "failed"} /\ Present(c)
              => goal[c] = "fail" /\ pc[c] \in {"tell", "unlock_set", "cleanup"}
           /\ goal'[c] = "fail" /\ pc[c] = "unlock_set" => pc'[c] = "tell"
<1> USE DEF Goto, Unlock, Fail, Succeed, ClientTypeOK, TypeOK
<1>1. CASE LockSelect(c)    BY <1>1 DEF LockSelect
<1>2. CASE LockCommit(c)    BY <1>2 DEF LockCommit
<1>3. CASE Accept(c)        BY <1>3 DEF Accept
<1>4. CASE Refuse(c)        BY <1>4 DEF Refuse
<1>5. CASE UnlockCheck(c)
    BY <1>5 DEF UnlockCheck, ClientInv, RunUndisturbed
<1>6. CASE UnlockSelect(c)
    <2>1. Present(c) => rowLock = Free
        BY <1>6, LockIsFree DEF UnlockSelect, DataInv, Locks
    <2>2. CASE ~Present(c)  BY <1>6, <2>2 DEF UnlockSelect, UnlockRaises
    <2>3. CASE Present(c)   BY <1>6, <2>1, <2>3 DEF UnlockSelect
    <2> QED  BY <2>2, <2>3
<1>7. CASE UnlockCommit(c)  BY <1>7 DEF UnlockCommit, AfterUnlock
<1>8. CASE Start(c)         BY <1>8 DEF Start
<1>9. CASE Validate(c)      BY <1>9 DEF Validate
<1>10. CASE Stores(c)
    <2>1. TypeOK
        BY DEF ClientTypeOK
    <2> HIDE DEF TypeOK, Goto, Unlock, Fail, Succeed, ClientTypeOK
    <2> QED  BY <1>10, <2>1, StoreEffect
<1>11. CASE InsertFails(c)  BY <1>11 DEF InsertFails
<1>12. CASE Tell(c)         BY <1>12 DEF Tell
<1>13. CASE Cleanup(c) \/ CleanupFails(c)
    BY <1>13 DEF Cleanup, CleanupFails, Finish, SerialUploads
<1>14. ~PublishFails(c) /\ ~Redeliver(c) /\ ~Crash(c)
    BY DEF SerialUploads, PublishFails, Redeliver, Crash
<1> QED
    BY <1>1, <1>2, <1>3, <1>4, <1>5, <1>6, <1>7, <1>8, <1>9, <1>10, <1>11, <1>12, <1>13,
       <1>14 DEF Serve, Stores, Progress, Fault

LEMMA ToldServe ==
    ASSUME SerialUploads, "crash" \notin Faults, ClientTypeOK, DataInv, DataInv',
           ClientInv, ToldInv, NEW c \in Calls, Serve(c)
    PROVE  ToldInv'
<1>1. Hear /\ CallInv(c) /\ Told(c)
    BY DEF Serve, ClientInv, ToldInv
<1>2. /\ \A d \in Calls \ {c} : poll'[d] = poll[d]
      /\ poll'[c] = Answered(c)
    BY <1>1, ServeTells, OnlyOneAnswer
<1>3. [Next]_vars
    BY DEF Serve, Next
<1>4. \A d \in Calls : Present(d)' => Present(d)
    <2>1. req' = req
        BY DEF Serve, Progress, Fault, LockSelect, LockCommit, Accept, Refuse, UnlockCheck,
               UnlockSelect, UnlockCommit, Start, Validate, Insert, VacuumFails, StoreRows,
               InsertFails, Tell, Cleanup, PublishFails, CleanupFails, Crash, Redeliver,
               Dies
    <2>2. RowMoves
        BY <1>3, RowsOnlyMove DEF ClientTypeOK, DataInv
    <2> QED
        BY <2>1, <2>2, HereTyped DEF RowMoves, ClientTypeOK, SerialUploads, Here, Present
<1>5. Told(c)'
    <2>1. poll'[c] = "error" => poll[c] = "error"
        BY <1>2 DEF Answered
    <2>2. poll[c] = "error" => goal[c] = "fail"
        BY <1>1 DEF CallInv, PollMatches
    <2> QED  BY <1>1, <1>4, <2>1, <2>2, ServeTells DEF Told
<1> QED
    BY <1>2, <1>4, <1>5, ToldKept, ServeTells DEF ToldInv

LEMMA ToldNext ==
    ASSUME SerialUploads, "crash" \notin Faults, ClientTypeOK, DataInv, DataInv',
           ClientInv, ToldInv, [ClientNext]_allVars
    PROVE  ToldInv'
<1>1. ASSUME NEW c \in Calls, Post(c) PROVE ToldInv'
    <2>1. /\ \A d \in Calls \ {c} : poll'[d] = poll[d] /\ pc'[d] = pc[d]
          /\ poll'[c] = Answered(c) /\ pc'[c] = "lock"
        BY <1>1, OnlyOneAnswer
        DEF Post, Request, Goto, ClientTypeOK, TypeOK, ClientInv, RunUndisturbed
    <2>2. UNCHANGED <<goal, cause, tracker, step, req>>
        BY <1>1 DEF Post, Request, dbVars
    <2>3. \A d \in Calls : Present(d)' = Present(d)
        BY <2>2 DEF Here, Present
    <2>4. poll'[c] = "error" => poll[c] = "error"
        BY <2>1 DEF Answered
    <2>5. poll[c] # "error"
        BY <1>1 DEF Post, Request, ClientInv, CallInv, PollMatches
    <2>6. Told(c)'
        BY <2>1, <2>2, <2>4, <2>5 DEF ToldInv, Told
    <2> QED  BY <2>1, <2>2, <2>3, <2>6, ToldKept DEF ToldInv
<1>2. ASSUME NEW c \in Calls, Poll(c) PROVE ToldInv'
    <2>1. /\ UNCHANGED vars /\ Waits(c)
          /\ \A d \in Calls \ {c} : poll'[d] = poll[d]
        BY <1>2 DEF Poll, ReadTracker, ReadStage, Waits, ClientTypeOK
    <2>2. /\ UNCHANGED <<goal, cause, tracker, pc, step, req>>
          /\ \A d \in Calls : Present(d)' = Present(d)
        BY <2>1 DEF vars, Here, Present
    <2>3. poll'[c] = "error" => Present(c) /\ Here(c).stage = "READY"
        BY <1>2, HereTyped DEF Poll, ReadTracker, ReadStage, ClientTypeOK, Stages
    <2>4. Told(c)'
        BY <2>1, <2>2, <2>3 DEF ToldInv, Told, ClientInv, CallInv, StageIsMine
    <2> QED  BY <2>1, <2>2, <2>4, ToldKept DEF ToldInv
<1>3. ASSUME UNCHANGED <<pc, goal, cause, tracker, req>>,
             \A p \in Paths : step'[p].id = step[p].id \/ step'[p].id = 0,
             UNCHANGED poll
      PROVE  ToldInv'
    <2>1. \A d \in Calls : Present(d)' => Present(d)
        BY <1>3, HereTyped DEF ClientTypeOK, Here, Present
    <2> QED  BY <1>3, <2>1, ToldKept DEF ToldInv
<1>4. CASE Edit /\ Hear
    <2>1. UNCHANGED <<pc, goal, cause, tracker, req>>
        BY <1>4 DEF Edit, EditCheck, DeleteStep, CreateStep, CreateCommit, EditRefused,
                    SetMutable, callVars
    <2>2. [Next]_vars
        BY <1>4 DEF Next
    <2>3. \A p \in Paths : step'[p].id = step[p].id \/ step'[p].id = 0
        BY <2>2, RowsOnlyMove DEF RowMoves, ClientTypeOK, DataInv, SerialUploads
    <2>4. \A d \in Calls : Answered(d) = poll[d]
        BY <2>1 DEF ClientInv, CallInv, PollMatches, Answered, EndPCs, UnlockPCs, Refusing
    <2>5. poll' = poll
        BY <1>4, <2>4 DEF Hear, ClientTypeOK
    <2> QED  BY <1>3, <2>1, <2>3, <2>5
<1>5. CASE AllReturned \/ UNCHANGED allVars
    BY <1>3, <1>5 DEF AllReturned, Quiet, clientVars, allVars, vars
<1> QED
    BY <1>1, <1>2, <1>4, <1>5, ToldServe DEF ClientNext

(* A client that is told its upload failed can read why, or will when the  *)
(* task has set the message, as long as no process dies.                   *)
THEOREM ErrorsAreTold ==
    ASSUME SerialUploads, "crash" \notin Faults PROVE ClientSpec => []ErrorIsExplained
<1>1. ClientInit => ToldInv
    BY DEF ClientInit, Init, ToldInv, Told
<1>2. /\ ClientTypeOK /\ DataInv /\ DataInv' /\ ClientInv /\ ToldInv
      /\ [ClientNext]_allVars
      => ToldInv'
    BY ToldNext
<1>3. ToldInv => ErrorIsExplained
    BY DEF ToldInv, Told, ErrorIsExplained
<1> QED
    BY <1>1, <1>2, <1>3, ClientInvariant, PTL DEF ClientSpec
===============================================================================
