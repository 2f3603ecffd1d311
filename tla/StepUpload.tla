----------------------------- MODULE StepUpload -----------------------------
(***************************************************************************)
(* How the data of a step gets to the server and into PostgreSQL.          *)
(*                                                                         *)
(* A call is one POST .../steps/{name}/data: the handler set_data locks    *)
(* the step, checks the file, puts it in S3 and queues a task; the task    *)
(* process_upload (a FastAPI background task, or a Celery task that is     *)
(* retried) reads the file, inserts the data and unlocks the step.  Every  *)
(* action is one database transaction or one call to S3 or the tracker,    *)
(* because that is where another call, an edit of the run or a crash can   *)
(* come in between.                                                        *)
(*                                                                         *)
(* SELECT ... FOR UPDATE NOWAIT in Steps.from_path joins steps to runs and *)
(* collections and names no table, so PostgreSQL locks the rows of all     *)
(* three: one lock, rowLock, stands for them, for every step of the run.   *)
(***************************************************************************)
EXTENDS Integers, FiniteSets

CONSTANTS Calls,        \* the POST .../data requests, each with its upload_id
          Paths,        \* the names of the steps of the run
          StepTypeOf,   \* [Paths -> "source" | "model" | "resolver"]
          Descendants,  \* [Paths -> SUBSET Paths], from the lineage
          Contents,     \* the non-empty tables, told apart by fingerprint
          Empty,        \* the table with no rows
          Invalid,      \* a file that is no Parquet file of the schema
          Editor,       \* the requests that edit the run (as lock holder)
          Free,         \* no transaction holds the row lock
          TaskRunner,   \* settings.task_runner, "api" or "celery"
          MaxRetries,   \* retries of a Celery task (3 in the code)
          MaxOpen,      \* calls in progress at a time (1: the rule of sync)
          EditOps,      \* what is edited: {"create", "delete", "mutable"}
          MaxEdits,     \* bound on edits of the run
          Faults,       \* what fails: {"crash", "redeliver", "s3", "publish",
                        \* "vacuum"}
          MaxFaults     \* bound on faults

Tables == Contents \cup {Empty}
Stages == {"READY", "PROCESSING", "COMPLETE"}
Causes == {"None", "NotFound", "NoFile", "NotWriteable", "InvalidData",
           "ExistingData", "Database", "Vacuum", "Locked", "File"}

ASSUME UploadAssumption ==
    /\ Paths # {}
    /\ StepTypeOf \in [Paths -> {"source", "model", "resolver"}]
    /\ Descendants \in [Paths -> SUBSET Paths]
    /\ Empty \notin Contents
    /\ Invalid \notin Tables
    /\ Free \notin Calls \cup {Editor}
    /\ Editor \notin Calls
    /\ TaskRunner \in {"api", "celery"}
    /\ MaxRetries \in Nat /\ MaxOpen \in Nat
    /\ MaxEdits \in Nat /\ MaxFaults \in Nat
    /\ EditOps \subseteq {"create", "delete", "mutable"}
    /\ Faults \subseteq {"crash", "redeliver", "s3", "publish", "vacuum"}

VARIABLES
    mutable,    \* runs.is_mutable
    step,       \* [Paths -> row of steps]; id 0 is no row
    nextId,     \* the identity column of steps
    rowLock,    \* the call or edit whose transaction holds the rows
    pc,         \* [Calls -> where the handler or the task is]
    req,        \* [Calls -> path and body of the request]
    saw,        \* [Calls -> the id and stage its last SELECT returned]
    goal,       \* [Calls -> what it unlocks the step for]
    cause,      \* [Calls -> the exception it handles]
    tries,      \* [Calls -> retries of its Celery task]
    s3,         \* the files in the cache bucket, by call
    tracker,    \* [Calls -> message in the upload tracker]
    editor,     \* the edit of a step that passed _check_writeable
    edits,      \* edits so far
    faults      \* faults so far

dbVars   == <<mutable, step, nextId>>
callVars == <<pc, req, saw, goal, cause, tries>>
envVars  == <<editor, edits, faults>>
vars     == <<mutable, step, nextId, rowLock, pc, req, saw, goal, cause, tries,
              s3, tracker, editor, edits, faults>>

Rows   == [id : Nat, fp : Tables, stage : Stages, copies : Nat]
NoStep == [id |-> 0, fp |-> Empty, stage |-> "READY", copies |-> 0]
NewStep(id, fp) == [id |-> id, fp |-> fp, stage |-> "READY", copies |-> 0]

UnlockPCs  == {"unlock", "unlock_select", "unlock_set"}
TaskPCs    == {"queued", "validate", "insert", "tell", "cleanup"}
EndPCs     == {"refused", "done", "failed", "lost"}
PCs        == {"idle", "lock", "lock_set", "accept"}
                  \cup UnlockPCs \cup TaskPCs \cup EndPCs

Here(c)    == step[req[c].path]
Present(c) == Here(c).id # 0
InTask(c)  == pc[c] \in TaskPCs \/ (pc[c] \in UnlockPCs /\ goal[c] # "refuse")
Running(c) == pc[c] \notin EndPCs \cup {"idle"}

(***************************************************************************)
(* A request is open, for the client that polls the stage, until its       *)
(* handler refuses it or the step is no longer PROCESSING.                 *)
(***************************************************************************)
Open(c) == /\ Running(c)
           /\ InTask(c) => Here(c).stage = "PROCESSING"

Init ==
    /\ mutable = TRUE
    /\ step \in [Paths -> {NoStep} \cup {NewStep(1, f) : f \in Tables}]
    /\ nextId = 2
    /\ rowLock = Free
    /\ pc = [c \in Calls |-> "idle"]
    /\ req \in [Calls -> [path : Paths, body : Tables \cup {Invalid}]]
    /\ saw = [c \in Calls |-> [id |-> 0, stage |-> "READY"]]
    /\ goal = [c \in Calls |-> "refuse"]
    /\ cause = [c \in Calls |-> "None"]
    /\ tries = [c \in Calls |-> 0]
    /\ s3 = {}
    /\ tracker = [c \in Calls |-> "None"]
    /\ editor = [op |-> "idle", path |-> CHOOSE p \in Paths : TRUE]
    /\ edits = 0
    /\ faults = 0

Goto(c, to)        == pc' = [pc EXCEPT ![c] = to]
Unlock(c, why)     == /\ Goto(c, "unlock")
                      /\ goal' = [goal EXCEPT ![c] = why]
Fail(c, e)         == /\ Unlock(c, "fail")
                      /\ cause' = [cause EXCEPT ![c] = e]
Succeed(c)         == Unlock(c, "complete") /\ UNCHANGED cause
(* Mutant of SetStage: a stage for failures that UploadStage does not have. *)
SetStageFailed(p, s) ==
    step' = [step EXCEPT ![p].stage = IF s = "READY" THEN "FAILED" ELSE s]

SetStage(p, s)     == step' = [step EXCEPT ![p].stage = s]

-----------------------------------------------------------------------------
(* The handler set_data.                                                   *)

(* lock_step_data begins with _check_writeable, in a session of its own.   *)
Request(c) ==
    /\ pc[c] = "idle"
    /\ Cardinality({d \in Calls : Open(d)}) < MaxOpen
    /\ Goto(c, IF mutable THEN "lock" ELSE "refused")
    /\ UNCHANGED <<dbVars, rowLock, req, saw, goal, cause, tries, s3, tracker, envVars>>

(* Mutant of LockSelect: a plain SELECT, that locks no row.                *)
LockSelectPlain(c) ==
    /\ pc[c] = "lock" /\ Present(c)
    /\ saw' = [saw EXCEPT ![c] = [id |-> Here(c).id, stage |-> Here(c).stage]]
    /\ Goto(c, "lock_set")
    /\ UNCHANGED <<dbVars, rowLock, req, goal, cause, tries, s3, tracker, envVars>>

(* SELECT ... FOR UPDATE NOWAIT: a missing step, or a row that another     *)
(* transaction has locked, refuses the request at once.                    *)
LockSelect(c) ==
    /\ pc[c] = "lock"
    /\ \/ /\ Present(c) /\ rowLock = Free
          /\ rowLock' = c
          /\ saw' = [saw EXCEPT ![c] = [id |-> Here(c).id, stage |-> Here(c).stage]]
          /\ Goto(c, "lock_set")
       \/ /\ ~Present(c) \/ rowLock # Free
          /\ Goto(c, "refused")
          /\ UNCHANGED <<rowLock, saw>>
    /\ UNCHANGED <<dbVars, req, goal, cause, tries, s3, tracker, envVars>>

(* Mutant of LockCommit: only PROCESSING is refused, not COMPLETE.         *)
LockCommitAgain(c) ==
    /\ pc[c] = "lock_set"
    /\ rowLock' = Free
    /\ \/ /\ saw[c].stage # "PROCESSING"
          /\ SetStage(req[c].path, "PROCESSING")
          /\ Goto(c, "accept")
       \/ /\ saw[c].stage = "PROCESSING"
          /\ Goto(c, "refused")
          /\ UNCHANGED step
    /\ UNCHANGED <<mutable, nextId, req, saw, goal, cause, tries, s3, tracker, envVars>>

(* Mutant of LockCommit: the new stage is not written.                     *)
LockCommitUnwritten(c) ==
    /\ pc[c] = "lock_set"
    /\ rowLock' = Free
    /\ Goto(c, IF saw[c].stage = "READY" THEN "accept" ELSE "refused")
    /\ UNCHANGED <<dbVars, req, saw, goal, cause, tries, s3, tracker, envVars>>

(* The end of the transaction: PROCESSING if the step was READY, a         *)
(* rollback and MatchboxLockError if it was not.                           *)
LockCommit(c) ==
    /\ pc[c] = "lock_set"
    /\ rowLock' = Free
    /\ \/ /\ saw[c].stage = "READY"
          /\ SetStage(req[c].path, "PROCESSING")
          /\ Goto(c, "accept")
       \/ /\ saw[c].stage # "READY"
          /\ Goto(c, "refused")
          /\ UNCHANGED step
    /\ UNCHANGED <<mutable, nextId, req, saw, goal, cause, tries, s3, tracker, envVars>>

(* The file is a Parquet file of the step's schema, S3 takes it, and the   *)
(* task is queued: the client gets its upload_id.                          *)
Accept(c) ==
    /\ pc[c] = "accept"
    /\ req[c].body # Invalid /\ Present(c)
    /\ s3' = s3 \cup {c}
    /\ Goto(c, "queued")
    /\ UNCHANGED <<dbVars, rowLock, req, saw, goal, cause, tries, tracker, envVars>>

(* Mutant of Refuse: no "except" around the checks of the file.            *)
RefuseLocked(c) ==
    /\ pc[c] = "accept"
    /\ Goto(c, "refused")
    /\ UNCHANGED <<dbVars, rowLock, req, saw, goal, cause, tries, s3, tracker, envVars>>

(* The file is refused, the step has gone, or S3 fails: the handler's      *)
(* "except" unlocks the step.                                              *)
Refuse(c) ==
    /\ pc[c] = "accept"
    /\ Unlock(c, "refuse")
    /\ UNCHANGED <<dbVars, rowLock, req, saw, cause, tries, s3, tracker, envVars>>

(* process_upload_celery.delay raises after the file went to S3; the       *)
(* "except" unlocks the step and leaves the file there.                    *)
PublishFails(c) ==
    /\ pc[c] = "accept" /\ TaskRunner = "celery"
    /\ "publish" \in Faults /\ faults < MaxFaults
    /\ req[c].body # Invalid /\ Present(c)
    /\ s3' = s3 \cup {c}
    /\ Unlock(c, "refuse")
    /\ faults' = faults + 1
    /\ UNCHANGED <<dbVars, rowLock, req, saw, cause, tries, tracker, editor, edits>>

-----------------------------------------------------------------------------
(* unlock_step_data, called by the handler and by the task.                *)

(* An exception of unlock_step_data itself: the handler ends with it; the  *)
(* task turns it into its failure; in the task's own "except" it leaves    *)
(* the block before tracker.set, and only "finally" still runs.            *)
UnlockRaises(c, e) ==
    \/ /\ goal[c] = "refuse"
       /\ Goto(c, "refused")
       /\ UNCHANGED <<goal, cause>>
    \/ /\ goal[c] = "complete"
       /\ Fail(c, e)
    \/ /\ goal[c] = "fail"
       /\ Goto(c, "cleanup")
       /\ UNCHANGED <<goal, cause>>

UnlockCheck(c) ==
    /\ pc[c] = "unlock"
    /\ \/ mutable /\ Goto(c, "unlock_select") /\ UNCHANGED <<goal, cause>>
       \/ ~mutable /\ UnlockRaises(c, "NotWriteable")
    /\ UNCHANGED <<dbVars, rowLock, req, saw, tries, s3, tracker, envVars>>

UnlockSelect(c) ==
    /\ pc[c] = "unlock_select"
    /\ \/ /\ Present(c) /\ rowLock = Free
          /\ rowLock' = c
          /\ Goto(c, "unlock_set")
          /\ UNCHANGED <<goal, cause>>
       \/ /\ ~Present(c) \/ rowLock # Free
          /\ UnlockRaises(c, IF Present(c) THEN "Locked" ELSE "NotFound")
          /\ UNCHANGED rowLock
    /\ UNCHANGED <<dbVars, req, saw, tries, s3, tracker, envVars>>

(* Mutant of AfterUnlock: a failed task does not set its message.          *)
AfterUnlockSilent == [complete |-> "cleanup", fail |-> "cleanup", refuse |-> "refused"]

AfterUnlock == [complete |-> "cleanup", fail |-> "tell", refuse |-> "refused"]

(* The new stage is set whatever the old one was.                          *)
UnlockCommit(c) ==
    /\ pc[c] = "unlock_set"
    /\ rowLock' = Free
    /\ SetStage(req[c].path, IF goal[c] = "complete" THEN "COMPLETE" ELSE "READY")
    /\ Goto(c, AfterUnlock[goal[c]])
    /\ UNCHANGED <<mutable, nextId, req, saw, goal, cause, tries, s3, tracker, envVars>>

-----------------------------------------------------------------------------
(* The task process_upload.                                                *)

(* get_step, the download from S3 and the insert's own _check_writeable.   *)
Start(c) ==
    /\ pc[c] = "queued"
    /\ \/ /\ Present(c) /\ c \in s3 /\ mutable
          /\ Goto(c, "validate")
          /\ UNCHANGED <<goal, cause>>
       \/ ~Present(c) /\ Fail(c, "NotFound")
       \/ Present(c) /\ c \notin s3 /\ Fail(c, "NoFile")
       \/ Present(c) /\ c \in s3 /\ ~mutable /\ Fail(c, "NotWriteable")
    /\ UNCHANGED <<dbVars, rowLock, req, saw, tries, s3, tracker, envVars>>

(* Mutant of NothingToInsert: a resolver returns on an empty table, too.   *)
NothingToInsertEver(c) == req[c].body = Empty

(* Sources and models return on an empty table before they look at the     *)
(* step; a resolver compares the fingerprint and counts the rows first.    *)
NothingToInsert(c) ==
    /\ req[c].body = Empty
    /\ StepTypeOf[req[c].path] = "resolver" =>
           Present(c) /\ Here(c).fp = Empty /\ Here(c).copies = 0

(* Mutant of CanInsert: the rows that are there already are not counted.   *)
CanInsertMore(c) == Present(c) /\ req[c].body # Empty /\ Here(c).fp = req[c].body

(* Mutant of CanInsert: the fingerprint is not compared.                   *)
CanInsertAny(c) == /\ Present(c) /\ req[c].body # Empty /\ Here(c).copies = 0

CanInsert(c) == /\ Present(c) /\ req[c].body # Empty
                /\ Here(c).fp = req[c].body /\ Here(c).copies = 0

(* The first transaction of insert_hashes, insert_model_edges and          *)
(* insert_clusters: fingerprint and existing data.                         *)
Validate(c) ==
    /\ pc[c] = "validate"
    /\ \/ /\ CanInsert(c)
          /\ saw' = [saw EXCEPT ![c] = [id |-> Here(c).id, stage |-> Here(c).stage]]
          /\ Goto(c, "insert")
          /\ UNCHANGED <<goal, cause>>
       \/ NothingToInsert(c) /\ Succeed(c) /\ UNCHANGED saw
       \/ /\ ~CanInsert(c) /\ ~NothingToInsert(c)
          /\ Fail(c, IF ~Present(c) THEN "NotFound"
                     ELSE IF Here(c).fp # req[c].body THEN "InvalidData"
                     ELSE "ExistingData")
          /\ UNCHANGED saw
    /\ UNCHANGED <<dbVars, rowLock, req, tries, s3, tracker, envVars>>

(* What the second transaction leaves: keys of a source are added however  *)
(* many there are, a resolver's rows are inserted ON CONFLICT DO NOTHING.  *)
AfterInsert(p) == IF StepTypeOf[p] = "resolver" THEN 1 ELSE step[p].copies + 1

(* Mutant of InsertAllowed: no unique constraint on the edges of a model.  *)
InsertAllowedTwice(c) == Here(c).id = saw[c].id

(* The second transaction, for the step_id that was read: a foreign key    *)
(* fails if that step has gone, and (step_id, left_id, right_id) is unique.*)
InsertAllowed(c) == /\ Here(c).id = saw[c].id
                    /\ StepTypeOf[req[c].path] = "model" => Here(c).copies = 0

StoreRows(c) ==
    /\ pc[c] = "insert" /\ InsertAllowed(c)
    /\ step' = [step EXCEPT ![req[c].path].copies = AfterInsert(req[c].path)]
    /\ UNCHANGED <<mutable, nextId, rowLock, req, saw, tries, s3, tracker>>

(* The commit, and vacuum_analyze after it.                                *)
Insert(c) ==
    /\ StoreRows(c)
    /\ Succeed(c)
    /\ UNCHANGED envVars

(* vacuum_analyze has a connection of its own, and is called when the rows *)
(* are committed and the "try" that rolls them back is over: when it       *)
(* raises, the task fails with its data stored.                            *)
VacuumFails(c) ==
    /\ "vacuum" \in Faults /\ faults < MaxFaults
    /\ StoreRows(c)
    /\ Fail(c, "Vacuum")
    /\ faults' = faults + 1
    /\ UNCHANGED <<editor, edits>>

(* Mutant of InsertFails: the rows are not rolled back.                    *)
InsertFailsHalfway(c) ==
    /\ pc[c] = "insert"
    /\ step' = [step EXCEPT ![req[c].path].copies = AfterInsert(req[c].path)]
    /\ Fail(c, "Database")
    /\ UNCHANGED <<mutable, nextId, rowLock, req, saw, tries, s3, tracker, envVars>>

(* A constraint, or the database itself, makes the transaction roll back.  *)
InsertFails(c) ==
    /\ pc[c] = "insert"
    /\ Fail(c, "Database")
    /\ UNCHANGED <<dbVars, rowLock, req, saw, tries, s3, tracker, envVars>>

Tell(c) ==
    /\ pc[c] = "tell"
    /\ tracker' = [tracker EXCEPT ![c] = cause[c]]
    /\ Goto(c, "cleanup")
    /\ UNCHANGED <<dbVars, rowLock, req, saw, goal, cause, tries, s3, envVars>>

(* "finally": the file is deleted, whatever happened; an error of S3 is    *)
(* only logged.  A Celery task that failed goes back to the queue, with    *)
(* the same arguments, until it has no retries left.                       *)
Finish(c) ==
    \/ goal[c] = "complete" /\ Goto(c, "done") /\ UNCHANGED tries
    \/ /\ goal[c] = "fail" /\ TaskRunner = "celery" /\ tries[c] < MaxRetries
       /\ Goto(c, "queued")
       /\ tries' = [tries EXCEPT ![c] = @ + 1]
    \/ /\ goal[c] = "fail" /\ (TaskRunner = "api" \/ tries[c] >= MaxRetries)
       /\ Goto(c, "failed")
       /\ UNCHANGED tries

(* Mutant of Cleanup: the file is deleted after success, not "finally".    *)
CleanupOnSuccess(c) ==
    /\ pc[c] = "cleanup"
    /\ s3' = IF goal[c] = "complete" THEN s3 \ {c} ELSE s3
    /\ Finish(c)
    /\ UNCHANGED <<dbVars, rowLock, req, saw, goal, cause, tracker, envVars>>

Cleanup(c) ==
    /\ pc[c] = "cleanup"
    /\ s3' = s3 \ {c}
    /\ Finish(c)
    /\ UNCHANGED <<dbVars, rowLock, req, saw, goal, cause, tracker, envVars>>

CleanupFails(c) ==
    /\ pc[c] = "cleanup" /\ "s3" \in Faults /\ faults < MaxFaults
    /\ faults' = faults + 1
    /\ Finish(c)
    /\ UNCHANGED <<dbVars, rowLock, req, saw, goal, cause, s3, tracker, editor, edits>>

-----------------------------------------------------------------------------
(* Crashes.  A database session that dies rolls back and lets go of its    *)
(* locks.  The API process takes its background tasks with it; a Celery    *)
(* task that is not acknowledged (task_acks_late) is delivered again when  *)
(* the whole worker is lost, and is not when its time limit kills it.      *)

Dies(c, to) ==
    /\ Running(c) /\ faults < MaxFaults
    /\ faults' = faults + 1
    /\ rowLock' = IF rowLock = c THEN Free ELSE rowLock
    /\ Goto(c, to)
    /\ UNCHANGED <<dbVars, req, saw, goal, cause, tries, s3, tracker, editor, edits>>

Crash(c)     == "crash" \in Faults /\ Dies(c, "lost")

(* Mutant of Redeliver: the task is acknowledged before it runs.           *)
RedeliverNever(c) == /\ "redeliver" \in Faults /\ TaskRunner = "celery" /\ InTask(c)
                     /\ Dies(c, "lost")

Redeliver(c) == /\ "redeliver" \in Faults /\ TaskRunner = "celery" /\ InTask(c)
                /\ Dies(c, "queued")

-----------------------------------------------------------------------------
(* Edits of the run by other requests.                                     *)

(* create_step and delete_step also begin with _check_writeable in a       *)
(* session of its own.                                                     *)
EditCheck(op, p) ==
    /\ editor.op = "idle" /\ op \in EditOps /\ edits < MaxEdits /\ mutable
    /\ editor' = [op |-> op, path |-> p]
    /\ edits' = edits + 1
    /\ UNCHANGED <<dbVars, rowLock, callVars, s3, tracker, faults>>

EditDone == editor' = [editor EXCEPT !.op = "idle"]

(* The step and its descendants go, with all their data.                   *)
DeleteStep ==
    LET doomed == {editor.path} \cup Descendants[editor.path]
    IN  /\ editor.op = "delete" /\ step[editor.path].id # 0
        /\ rowLock \in Calls => req[rowLock].path \notin doomed
        /\ step' = [p \in Paths |-> IF p \in doomed THEN NoStep ELSE step[p]]
        /\ EditDone
        /\ UNCHANGED <<mutable, nextId, rowLock, callVars, s3, tracker, edits, faults>>

(* The row of steps has a foreign key to runs: until the transaction ends  *)
(* the row of the run is locked FOR KEY SHARE, which FOR UPDATE NOWAIT     *)
(* does not get past.                                                      *)
CreateStep ==
    /\ editor.op = "create" /\ step[editor.path].id = 0
    /\ rowLock = Free
    /\ rowLock' = Editor
    /\ editor' = [editor EXCEPT !.op = "create_commit"]
    /\ UNCHANGED <<dbVars, callVars, s3, tracker, edits, faults>>

CreateCommit ==
    /\ editor.op = "create_commit"
    /\ \E f \in Tables : step' = [step EXCEPT ![editor.path] = NewStep(nextId, f)]
    /\ nextId' = nextId + 1
    /\ rowLock' = Free
    /\ EditDone
    /\ UNCHANGED <<mutable, callVars, s3, tracker, edits, faults>>

(* The step to delete is not there, or the one to create is.               *)
EditRefused ==
    /\ \/ editor.op = "delete" /\ step[editor.path].id = 0
       \/ editor.op = "create" /\ step[editor.path].id # 0
    /\ EditDone
    /\ UNCHANGED <<dbVars, rowLock, callVars, s3, tracker, edits, faults>>

(* set_run_mutable updates the row of the run, and waits for its lock.     *)
SetMutable ==
    /\ "mutable" \in EditOps /\ edits < MaxEdits /\ rowLock = Free
    /\ mutable' = ~mutable
    /\ edits' = edits + 1
    /\ UNCHANGED <<step, nextId, rowLock, callVars, s3, tracker, editor, faults>>

-----------------------------------------------------------------------------
Progress(c) ==
    \/ LockSelect(c) \/ LockCommit(c) \/ Accept(c) \/ Refuse(c)
    \/ UnlockCheck(c) \/ UnlockSelect(c) \/ UnlockCommit(c)
    \/ Start(c) \/ Validate(c) \/ Insert(c) \/ InsertFails(c)
    \/ Tell(c) \/ Cleanup(c)

Fault(c) == PublishFails(c) \/ CleanupFails(c) \/ Crash(c) \/ Redeliver(c)

Edit == \/ \E op \in {"create", "delete"}, p \in Paths : EditCheck(op, p)
        \/ DeleteStep \/ CreateStep \/ CreateCommit \/ EditRefused \/ SetMutable

(* Every request has been made and every task has ended.                   *)
Quiet == /\ \A c \in Calls : pc[c] \in EndPCs
         /\ editor.op = "idle"
         /\ UNCHANGED vars

Next == \/ \E c \in Calls : Request(c) \/ Progress(c) \/ VacuumFails(c) \/ Fault(c)
        \/ Edit
        \/ Quiet

Spec == Init /\ [][Next]_vars

(* The threads of the API server and the workers of Celery keep running,   *)
(* and so does the transaction of an edit; nobody has to send a request,   *)
(* edit a run or crash.                                                    *)
Fairness == /\ \A c \in Calls : WF_vars(Progress(c))
            /\ WF_vars(DeleteStep \/ CreateStep \/ CreateCommit \/ EditRefused)

FairSpec == Spec /\ Fairness

-----------------------------------------------------------------------------
(* Type correctness: what each variable of the protocol can hold.          *)
TypeOK ==
    /\ mutable \in BOOLEAN
    /\ step \in [Paths -> Rows]
    /\ nextId \in Nat
    /\ rowLock \in Calls \cup {Free, Editor}
    /\ pc \in [Calls -> PCs]
    /\ req \in [Calls -> [path : Paths, body : Tables \cup {Invalid}]]
    /\ saw \in [Calls -> [id : Nat, stage : Stages]]
    /\ goal \in [Calls -> {"refuse", "fail", "complete"}]
    /\ cause \in [Calls -> Causes]
    /\ tries \in [Calls -> Nat]
    /\ s3 \subseteq Calls
    /\ tracker \in [Calls -> Causes]
    /\ editor \in [op : {"idle", "create", "create_commit", "delete"}, path : Paths]
    /\ edits \in Nat
    /\ faults \in Nat

(* A call holds its step from the commit that made it PROCESSING to the    *)
(* commit that ends that.                                                  *)
Holds(c) == pc[c] \in {"accept", "queued", "validate", "insert"} \cup UnlockPCs

(* "Lock step so only one client can initiate the upload"                  *)
(* (lock_step_data): no two calls work on the data of one step.            *)
OneUpload == \A c, d \in Calls :
    Holds(c) /\ Holds(d) /\ req[c].path = req[d].path => c = d

(* "Data can only be set once on a step" (insert_source_data): the rows of *)
(* one upload are never added to those of another.                         *)
DataSetOnce == \A p \in Paths : step[p].copies <= 1

(* The same for the edges of models and the clusters of resolvers alone,   *)
(* which a constraint of the database protects, too.                       *)
EdgesSetOnce == \A p \in Paths : StepTypeOf[p] # "source" => step[p].copies <= 1

(* The inductive invariant behind them when tasks are not retried and no   *)
(* step is deleted: who has the row lock, that what was read under it      *)
(* still stands, and that a call that holds its step finds it PROCESSING,  *)
(* with no data yet when it is about to insert.                            *)
LockOwned ==
    /\ \A c \in Calls : pc[c] \in {"lock_set", "unlock_set"} <=> rowLock = c
    /\ editor.op = "create_commit" <=> rowLock = Editor
LockedRead == \A c \in Calls :
    pc[c] = "lock_set" => Present(c) /\ saw[c].stage = Here(c).stage
HeldIsProcessing == \A c \in Calls :
    Holds(c) => Present(c) /\ Here(c).stage = "PROCESSING"
InsertIsFirst == \A c \in Calls : pc[c] = "insert" => Here(c).copies = 0
AbsentIsBlank == \A p \in Paths :
    step[p].id = 0 => step[p].stage = "READY" /\ step[p].copies = 0
CreatesNew ==
    /\ nextId > 0
    /\ editor.op # "delete"
    /\ editor.op = "create_commit" => step[editor.path].id = 0

UploadInv == /\ LockOwned /\ LockedRead /\ HeldIsProcessing /\ InsertIsFirst
             /\ AbsentIsBlank /\ CreatesNew /\ OneUpload /\ DataSetOnce

(* "Once set to complete, step data stage cannot be changed"               *)
(* (lock_step_data): as long as the step is the same row.                  *)
CompleteIsFinal ==
    [][\A p \in Paths : step[p].stage = "COMPLETE" /\ step'[p].id = step[p].id
                           => step'[p].stage = "COMPLETE"]_vars

(* A step that is COMPLETE has the data its fingerprint was declared for,  *)
(* which every reader of the step takes for granted: a resolver always; a  *)
(* source or a model unless the file was empty, which completes it without *)
(* a look at the fingerprint.                                              *)
CompleteHasItsData == \A p \in Paths :
    step[p].stage = "COMPLETE" =>
        IF step[p].copies = 0
        THEN step[p].fp = Empty \/ (StepTypeOf[p] # "resolver" /\ \E c \in Calls : req[c].path = p /\ req[c].body = Empty /\ pc[c] # "idle")
        ELSE step[p].fp # Empty

(* "After failure, signal to clients they can try again" (process_upload): *)
(* a step that is READY has no data that would make every try fail.  With  *)
(* two clients at once it is false.                                        *)
ReadyCanBeTried == \A p \in Paths : step[p].stage = "READY" => step[p].copies = 0

(* With one client at a time the only step that is READY for a next try    *)
(* and has data that refuses it is one whose vacuum_analyze failed: not a  *)
(* step whose insert failed, that was deleted under its upload, or whose   *)
(* file was refused.                                                       *)
VacuumFailed(p)  == \E c \in Calls : req[c].path = p /\ cause[c] = "Vacuum"
OnlyVacuumBlocks == \A p \in Paths :
    step[p].stage = "READY" => step[p].copies = 0 \/ VacuumFailed(p)

(* The "finally" of process_upload and the order of set_data: as long as   *)
(* S3 and the processes do not fail, no file stays in the bucket when      *)
(* nothing will process it any more.                                       *)
NoOrphanFile == \A c \in s3 : Running(c) \/ faults > 0

(* "Try-except to ensure we release the lock" (set_data) and the unlock in *)
(* process_upload: no step stays PROCESSING for ever.                      *)
ProcessingEnds == \A p \in Paths :
    step[p].stage = "PROCESSING" ~> step[p].stage # "PROCESSING"

(* The protocol implements the promise of the abstract class.              *)
Contract == INSTANCE UploadContract WITH
    stage  <- [p \in Paths |-> IF step[p].id = 0 THEN "ABSENT" ELSE step[p].stage],
    copies <- [p \in Paths |-> step[p].copies]
ContractSpec == Contract!CSpec
=============================================================================
