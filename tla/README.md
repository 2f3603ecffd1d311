# Matchbox in TLA+

Matchbox is a record-matching system: a Python client runs *steps* (sources,
models, resolvers) on local data and sends their results to a FastAPI server,
which keeps them in PostgreSQL. This directory models that system in TLA+,
checks the models with TLC and proves some of their theorems with TLAPS.
Paths below are relative to `src/src/matchbox/`.

    tlasany M.tla                       parse
    tlc -workers 2 -config X.cfg M      check; PROJECT.json says which M goes with X
    tlapm StepUpload_proofs.tla         prove (and the other *_proofs.tla)

## 1. The system

| part | state | operations | where |
| --- | --- | --- | --- |
| step data upload | `steps.upload_stage`, the data tables, the S3 cache bucket, the upload tracker, the task queue | `set_data`, `process_upload`, `lock_step_data`, `unlock_step_data`, `insert_*_data`, `get_upload_status` | `server/uploads.py`, `server/api/routers/collections.py`, `server/postgresql/adapter/collections.py`, `server/postgresql/utils/insert.py` |
| client upload | the upload it polls for | `set_data` | `client/_handler/collections.py` |
| runs and collections | `collections`, `runs(is_mutable, is_default)` | create, delete, freeze, make default; `DAG.new_run`, `load_pending`, `set_default` | `server/postgresql/adapter/collections.py`, `client/dags.py` |
| step graph | `steps`, the closure table `step_from` | `create_step`, `update_step`, `delete_step`, `get_lineage` | `server/postgresql/orm.py` |
| clusters | `clusters`, `contains`, `cluster_keys`, `model_edges`, `resolver_clusters`, `eval_judgements` | `insert_hashes`, `insert_model_edges`, `insert_clusters`, `insert_judgement`, `delete_orphans` | `server/postgresql/utils/insert.py`, `adapter/admin.py`, `adapter/eval.py` |
| query and match | none | `query`, `match` | `server/postgresql/utils/query.py` |
| permissions | `users`, `groups`, `user_groups`, `permissions` | `login`, group and grant operations, `RequiresPermission` | `adapter/admin.py`, `adapter/groups.py`, `server/api/dependencies.py` |
| DAG of the client | nodes, graph, local data of each step | `run_and_sync`, `StepABC.sync`, topological sort | `client/dags.py`, `client/steps.py` |
| HTTP client | none | `http_retry` around every request | `client/_handler/main.py` |
| resolution algorithms | a `DisjointSet` during a call | `Components`, hashes, scores | `common/transform.py`, `common/hash.py`, `common/eval.py` |

The parts meet in four places. The client calls the server by HTTP, each
request in a thread of its own, and repeats requests that fail. A request for
an upload hands over to a task (a FastAPI background task in the API process,
or a Celery task in a worker) through S3 and, for Celery, Redis. Everything
else is shared through PostgreSQL at READ COMMITTED, and most operations are
several transactions: `_check_writeable`, for one, reads `runs.is_mutable` in a
session of its own before the session that makes the change. And steps of one
run depend on each other: a model on sources and resolvers, a resolver on models.

What is hard, then, is what happens between two transactions: another request,
the death of a process, a task delivered again, a lock that is not there at
once (`FOR UPDATE NOWAIT`), a client that reads the stage of a step and not of
its upload. `PROJECT.json` lists these hazards line by line.

What should hold, by part:

* upload: one upload of a step at a time; the data of a step stored once; a
  COMPLETE step stays COMPLETE and has the data it was declared with; an
  upload that failed before its commit can be tried again; no step is locked for ever; the client that waits
  gets its answer, and the right one;
* runs: at most one default run; a default run is not changed; `new_run` leaves
  one pending run;
* step graph: `step_from` is the closure of the parent relation, and typed;
  deleting a step leaves no dangling child;
* clusters: one cluster for one hash; nothing that was uploaded is lost or mixed
  with what others uploaded; a leaf has one root in a lineage; deleting steps and
  orphans changes no answer of the steps that stay;
* permissions: who is an administrator was made one by a setup login or by an
  administrator; nothing is changed without the permission for it; a name that is
  used again inherits nothing;
* client: `sync` leaves the server with the local step; algorithms compute what
  their definitions say.

## 2. The modules

| module | models |
| --- | --- |
| `UploadContract` | what the abstract class of the backend (`server/base.py`) promises about the data of a step: four transitions of (stage, copies) |
| `StepUpload` | the protocol that keeps the promise: handler, task, lock, unlock, insertions, faults, edits |
| `UploadClient` | the client's `set_data` on top of it |
| `Runs` | the runs of a collection, on the server and in its clients |
| `StepSync` | the steps of a run, their lineage, and the clients that sync them |
| `Clusters` | what the steps of all runs, judges and `delete_orphans` do to the tables they share, and what a query makes of them |
| `Permissions` | requests: login, check, and what they change of groups, memberships, grants and collections |
| `MCStepUpload`, `MCUploadClient`, `MCRuns`, `MCStepSync`, `MCClusters`, `MCPermissions` | small instances for TLC |
| `StepUpload_proofs`, `UploadData_proofs`, `UploadClient_proofs`, `Runs_proofs`, `StepSync_proofs`, `Clusters_proofs`, `ClustersData_proofs`, `Permissions_proofs` | theorems |

### StepUpload

An action is one database transaction, or the part of one up to the row lock it
takes, or one call to S3 or the tracker: nothing else can come between two
statements of a transaction that matter here.

| action | code |
| --- | --- |
| `Request` | `lock_step_data` up to the end of `_check_writeable` |
| `LockSelect`, `LockCommit` | its transaction: `Steps.from_path(for_update=True)`, then PROCESSING and commit, or rollback |
| `Accept`, `Refuse`, `PublishFails` | the body of the `try` in `set_data`, its `except`, and `.delay()` raising after S3 has the file |
| `UnlockCheck`, `UnlockSelect`, `UnlockCommit` | `unlock_step_data`, called from three places; `goal` says which |
| `Start` | `get_step`, the download and `_check_writeable` of `insert_*_data` |
| `Validate`, `Insert`, `InsertFails` | the two transactions of `insert_hashes`, `insert_model_edges`, `insert_clusters`, and the `vacuum_analyze` after the commit |
| `VacuumFails` | that `vacuum_analyze` raises: the rows are stored, and the task fails |
| `Tell`, `Cleanup`, `CleanupFails` | `tracker.set` and the `finally` of `process_upload`; `Finish` is the retry of `process_upload_celery` |
| `Crash`, `Redeliver` | a process dies; Celery delivers an unacknowledged task again |
| `EditCheck` ... `SetMutable` | `create_step`, `delete_step`, `set_run_mutable` by other requests |

*The row lock.* `SELECT ... FOR UPDATE NOWAIT` in `Steps.from_path` joins
`steps` to `runs` and `collections` and has no `OF`, so PostgreSQL locks the
rows of all three. `rowLock` is therefore one lock for the run, not one for the
step: two uploads of different steps of one run contend for it, and so does
`create_step`, whose foreign key locks the row of the run.

*Data.* A table is its fingerprint: a member of `Contents`, `Empty`, or
`Invalid` for a file the handler refuses. `step[p].copies` counts how many
uploads have put their rows under the step. What the rows are, and which
clusters they make, is in `Clusters`. S3 and the
tracker are maps from upload to file and message; Redis's expiry of messages is
left out. `update_step` changes neither stage nor data and is in `StepSync`.

*Faults.* A database session that dies rolls back. An API process that dies
takes its background tasks with it (`Crash`); a Celery worker that is lost has
its task delivered again because of `task_acks_late` (`Redeliver`), but not one
that its time limit kills (`Crash`). `InsertFails` is always
possible. The `vacuum_analyze` that ends each insertion has a connection of its own
and runs when the rows are committed, outside the `try` that rolls them back: if it
raises, the `except` of `process_upload` sets the step READY with its data
(`VacuumFails`, a fault like that of S3, in all three passing runs).

### UploadClient

`Post` is the POST, `Answered` its answer, `ReadTracker` and `ReadStage` the
two reads of `get_upload_status` in the order of the code, between which the
server goes on. `Serial` is the rule that `StepABC.sync` states: "only one
client should call sync at a time".

### Runs

`collection`, `live`, `mutable` and `default` are the tables `collections` and
`runs` for one collection: whether it exists, and the ids of its runs, of those
with `is_mutable` and of those with `is_default`. `client[c]` is a `DAG` object
with the local variables of its current method.

| action | code |
| --- | --- |
| `Begin`, `Quit` | a method of `DAG` is called, and the process dies |
| `GetCollection` (`NotFound`, `ListForNew`, `ListForLoad`) | the listing that `new_run`, `load_pending` and `load_default` start with |
| `CreateCollection`, `CreateRun`, `LoadRun`, `Freeze` | one call each: `create_collection`, `create_run`, `get_run`, `set_run_mutable` |
| `DeleteRead`, `DeleteCommit` | the two statements of `delete_run` |
| `DefaultRead`, `DefaultUnset`, `DefaultCommit`, `DefaultFails` | the statements of `set_run_default` |
| `SetRunMutable`, `UnsetDefault`, `DeleteRun`, `DeleteCollection` | the same calls, made by somebody who uses the API directly |

*Statements.* At READ COMMITTED each statement sees what is committed when it
begins. So `set_run_default` reads the run, then unsets the default of a later
moment, and what it sets meets, at its commit, the default of a still later one:
the unique index `ix_default_run_collection` then refuses it. Where the row that
it unsets is locked by another transaction it waits for that one and looks at
the row again; in the model it looks at it when it commits, which gives the same
outcomes. The other calls are one action: nothing that another client can do
between their read and their write changes more than the error they end in.

*Answers.* An answer may be lost after the call was carried out; `http_retry`
then makes the call again, at most four times (`MaxLost`).

*History.* `clean` holds the clients whose operation no change of anybody else
has overlapped, and `thawed` the runs that somebody asked to make mutable again.

### StepSync

`step` and `from` are the rows of `steps` and `step_from` for one run, and
`client[c]` is a call of `StepABC.sync`: the step it wants on the server, where
it is, and, for a deletion, the ids that have been selected (`victims`). Between
two calls of `sync` a client may turn to any step of `Configs`, so the order of
`run_and_sync` is one among those checked.

| action | code |
| --- | --- |
| `StartSync`, `GetStep` | `sync` up to its decision between update, deletion and creation |
| `UpdateStep` | `update_step` |
| `DeleteCheck`, `DeleteRead`, `DeleteCommit` | `delete_step`: `_check_writeable`, the step and its `descendants`, the DELETE with its cascades |
| `CreateCheck`, `CreateCommit` | `create_step`: `_check_writeable`, then `from_dto` with `_create_closure_entries` |
| `SetData` | the client's `set_data`, as one action that fails or completes the step |
| `Deadlocked`, `Interrupted`, `SetMutable` | the database aborts a transaction, the client is stopped or gives up, somebody freezes or thaws the run |

*Transactions.* `create_step` inserts into `step_from`, whose foreign keys lock
the rows of the parents and ancestors until the commit; if one is deleted before
it is locked, the insertion fails. So what a successful `create_step` has read
still holds when it commits, and it is one action. `delete_step` locks nothing
when it reads the descendants, and is two. Ids are given at the commit: gaps in
the sequence, and two steps whose ids are in the other order than their commits,
are left out.

*Data.* A configuration is its name, type, inputs, fingerprint and one value,
`setting`, for all that `update_step` may change. For a model the inputs are
stored (`left_query`, `right_query`); for a resolver they are not, and the
server returns its parents in the order of their ids (`SameParents`); `Mirrors`
therefore compares the order of the inputs for models only. A resolver
that has lost its parents cannot be served (`Unreadable`). What an upload does
in detail is `StepUpload`: here it is one step that ends in COMPLETE or fails.

*History.* `late` holds the steps that were created below a step which a
deletion had selected, and `clean` the clients whose last sync no change made
for another client has overlapped.

### Clusters

`clusters`, `contains` and `judgements` are the tables; `refs` is the union of
`cluster_keys`, `model_edges` and `resolver_clusters`, each row reduced to a step
and a cluster. A cluster is its hash and a number (`gen`) that tells it from an
earlier one with the same hash; `used` holds all that were ever committed, so
that an id is not given twice. `tx[a]` is what the open transaction of a step or
judge has written.

| action | code |
| --- | --- |
| `Declare` | the client computes the data of a step from the clusters its query returns, and declares it |
| `InsertNothing` | an empty table: `insert_hashes` and `insert_model_edges` return before they look at the fingerprint, whatever was declared; `insert_clusters` compares it first |
| `InsertHashes`, `InsertKeys` | `insert_hashes`: the clusters; the keys of the rows that join with a cluster |
| `InsertEdges` | `insert_model_edges` |
| `ComputeHashes`, `InsertClusters`, `InsertContains`, `InsertMembers` | the four statements of `insert_clusters` |
| `Commit`, `Fail` | the end of one of these transactions |
| `Sample`, `GetOrCreate`, `StoreJudgement` | `sample_for_eval`; `insert_judgement` up to its clusters, and its commit |
| `DeleteStep` | the cascades of `delete_step` |
| `FindOrphans`, `DeleteOrphans` | the snapshot that `delete_orphans` decides by, and its DELETE with the cascades |

*Statements.* Each reads what is committed when it begins and what its own
transaction wrote (`SeenClusters`, `SeenContains`). ON CONFLICT DO NOTHING waits
for an open transaction with the same hash (`CanAdd`); a DELETE waits for the
transactions that hold a foreign key to its rows (`Locked`) and then deletes
them, with the rows that were committed meanwhile. `GetOrCreate` takes the
clusters of one judgement together: what happens between them ends in the same
clusters, or in `Fail`.

*Uploads.* A commit completes its step. That the unlock or the VACUUM after it may fail
and leave the step READY with its data is in `StepUpload`; `query` refuses such a step.

*Hashes.* SHA-256 is taken to be injective: the hash of a cluster is the set of
the hashes of its leaves, that of a row is the row, and no hash is both.

*Queries.* `Projected` is the COALESCE over one LEFT JOIN for each resolver of a
lineage, nearest first, with two rows for a leaf that one resolver has twice. The
lineages that a model queries through are constants, `Left` and `Right`, which are
the same for a deduper. A key of a source stands for all keys of a row.

*History.* `step[s].empty` marks a step that was declared with data and is COMPLETE
by an empty table. `step[s].touched` marks a step whose transaction `delete_orphans`
overlapped: it may have lost rows, without an error. A resolver that is built on
such a step may expand a group to other leaves when it inserts `contains` than it
did when it computed the hash; `mixed` holds the clusters it adds leaves to.
`Reliable` says that a step is not `touched` and, for a resolver, that none of its
clusters is `mixed`. The properties that speak of data are about steps that are
COMPLETE and whose whole lineage is `Reliable` (`Sound`).

### Permissions

| action | code |
| --- | --- |
| `Send` | `get_current_user`: a request with a token or without |
| `Upsert`, `CountOthers`, `Enter` | `login`: the upsert of the user, the search for others, the memberships and the commit |
| `CheckGroups`, `CheckGrant` | the two queries of `check_permission`, called by `RequiresPermission` |
| `LookUp` | the handler finds its group and collection by name |
| `CreateGroup` ... `RevokePermission` | what it then writes, with the cascades |
| `Raise` | 401, 403, 404, 409, a foreign key that is gone, a lost session |

*Names.* A resource is given by its name. `check_permission`, `grant_permission` and
`revoke_permission` take the name `system` for the system before they look for a
collection (`Denoted`); `delete_collection` looks among the collections only
(`Collection`). Nothing keeps a collection from being called `system`, and one
is in the run.

Every request is its own transaction for each of these (login is one transaction
in three statements), so that others commit between them. A group or collection
is its name and its id; a new one of the same name has a new id. `Holds` says
that the tables give a user a permission on a resource.

*History.* `early` holds the users who began a login when nobody else was
registered; `appointed` those whom a request put into admins; `dismissed` that
somebody was taken out; `checked` the resource on which a request's check found its
grant; `shaken` a request that lost a membership, or a grant on that resource, since
its check began. That the resource was deleted does not count as lost.

## 3. The runs

| run | bounds | shows |
| --- | --- | --- |
| `UploadApi` | 2 calls, a source and a resolver, 1 table besides the empty one, 2 edits, 1 crash or failing VACUUM, background tasks | `TypeOK`; the inductive invariant `UploadInv`; `OneUpload`, `DataSetOnce`, `CompleteHasItsData`, `CompleteIsFinal`; the refinement `ContractSpec` |
| `UploadCelery` | 2 calls on a model, 1 retry, 2 faults (redelivery, S3, broker, VACUUM), 1 deletion | `EdgesSetOnce` without the help of the lock; `CompleteHasItsData`; `ProcessingEnds` |
| `ClientSerial` | 2 calls of `set_data`, one after the other, a source and a model, 1 deletion, 1 failure of S3 or of the VACUUM | `OkIsMine`, `ErrorIsExplained`, `OnlyVacuumBlocks`, `NoOrphanFile`; `PollEnds`, `ProcessingEnds` |
| `RunsClients` | 2 clients, 4 operations, 1 lost answer, 1 direct use of the API | `TypeOK`; the inductive invariant `RunsInv`; `OneDefault`, `DefaultIsFrozen`, `DefaultSurvives`; `NewRunLeavesOne`, `SetDefaultPublishes`, `SetDefaultFailsFirst` of operations that are not overlapped |
| `SyncClients` | 2 clients with different DAGs, 6 configurations of 4 steps, 5 calls of `sync`, 1 lost answer | `TypeOK`; `ParentsTyped`, `ParentsNamed`, `LineageIsClosure` and the inductive `LineageInv`; `SyncMirrors`, `SyncedData` of syncs that nothing disturbed |
| `ClustersShared` | 4 rows, 2 sources that share one, a deduper and a linker that queries through the deduper's resolver, 2 resolvers, 1 judge; 6 uploads, 1 step declared with data and filled with an empty table (`MaxEmpty`), 1 deletion of a step, 1 `delete_orphans`, 1 judgement; 2 edges for a model | `TypeOK`, `NothingLost`, `OneClusterPerKey`; `AnswersAreStable`, `LeavesKeepTheirRoots` |
| `PermissionsRequests` | 2 users and the public one, 2 requests at a time, 4 in all, 1 group besides the system's, 2 collections of which one is called `system`, 3 creations | `TypeOK`, `Bootstrap`; `OnlyWithPermission` |
| `UploadCeleryRetry` | 2 calls, 1 retry | violates `CompleteIsFinal` |
| `UploadContention` | 2 calls | violates `ReadyCanBeTried` |
| `RunsNewRun` | 2 clients, 3 operations | violates `NewRunSparesDefault` |
| `SyncNoData` | 1 client, 2 syncs | violates `SyncSendsData` |
| `SyncResolver` | 1 client, 5 syncs | violates `ResyncKeeps` |

*Why the bounds are enough.* Every property is about one step and the calls that
work on it. A race needs two calls; a third adds no new kind of partner, and the
theorems hold for any number. One non-empty table and the empty one tell equal
from different fingerprints. One retry puts a task without the lock next to a
call with it. Four operations let two clients each create and publish a run, or
one publish while the other starts anew. Five syncs
build a source, a model, a resolver and a linker that reaches the source along
paths of two lengths, and replace the model under them. `MaxOpen` is the number of calls that clients have open at a time.
Six uploads fill two sources, two models and two resolvers, one of them after a
deletion; four rows make clusters of two, three and four, and a shared row lets
two sources meet in one cluster. The step without its data (`MaxEmpty`) may be any
of the sources and models, with others built on it. Four requests are the two that make an
administrator and a grant, and two that race for it; each creation gives one id.

*Fairness.* `FairSpec` assumes that the threads of the server and the workers
go on (weak fairness of each call's next step) and that a transaction that edits
the run ends; nothing is assumed of requests, edits and faults. `ClientFairSpec`
adds that a client keeps polling, which its loop does without a limit. Neither
assumes that an insertion succeeds. `Runs`, `StepSync`, `Clusters` and
`Permissions` have safety properties only, and stop at their bounds
(`CHECK_DEADLOCK FALSE`): what they would wait for is a user.

*Five runs fail,* and are kept because the code disagrees with its own comments:

* `UploadCeleryRetry`: `process_upload` sets the step READY and raises; Celery
  retries the task, which never locks the step again. If another upload has
  completed the step by then, the retry fails on the data it finds (or on its
  file, which `finally` deleted) and `unlock_step_data` turns COMPLETE into
  READY. "Once set to complete, step data stage cannot be changed."
* `UploadContention`: the unlock after a successful insertion is `NOWAIT` too. A
  second request for any step of the run that holds the row lock at that moment,
  only to find out that it must give up, makes it raise. The data is committed,
  the step becomes READY, and each new try ends in `MatchboxStepExistingData`.
  (A VACUUM that fails does the same to one upload alone, see `OnlyVacuumBlocks`.)
  "After failure, signal to clients they can try again."
* `RunsNewRun`: `new_run` compares runs with the default of the listing it read
  first. A run that another client has made the default since then is deleted,
  and the collection has no default run. "Delete non-default runs."
* `SyncNoData`: an upload fails, or the client is stopped before it, and the step
  stays without data. The next `sync` finds the same fingerprint and parents, calls
  `update_step` and returns. "Send step config and local data to the server."
* `SyncResolver`: the resolver `r` on `n` and `m` is served as one on `m` and `n`
  if `m` is the older; `sync` compares lists, deletes the resolver with all that is
  built on it, and starts again. (`update_step` would refuse it, and `_add_step`
  refuses the script's resolver in a DAG loaded from the server, for the same reason.)

The properties of the passing runs are stated with the limits the model showed:

* `CompleteHasItsData`: sources and models return on an empty file *before* they
  compare fingerprints, so an empty file completes a step declared with data. For
  the same reason `NothingLost` says of such a step (`empty`) that it is a source or
  a model and stores nothing, never a part of its data; of every other step that it
  stores what was declared;
* `OnlyVacuumBlocks`: between clients that take turns, a step that is READY has no
  data that would refuse the next try, except one whose `vacuum_analyze` failed: it
  runs after the commit (`utils/insert.py:160`, `249`, `507`), and nothing puts the
  step right again. `ReadyCanBeTried`, which is what the comment in `process_upload`
  promises, is therefore only in the run that violates it;
* `ErrorIsExplained`: the step is READY before the message is in the tracker, so
  a poll in between raises without one;
* `ProcessingEnds`, `PollEnds` need that no background task dies: nothing in the
  code unlocks its step, and the client polls for ever. They also need that no
  second request for the run comes between (`MaxOpen`, `Serial`): an unlock in an
  `except` block that does not get the lock is not tried again;
* a run may be made immutable after `_check_writeable` and before the change
  that follows it, so no property says that the steps of a frozen run stand still;
* after a repeated `create_run` there is a run that no client knows of
  (`NewRunLeavesOne` counts it), and after a publication the former default run
  is "pending"; `load_pending` takes whichever the database lists first, although
  the documentation speaks of the latest;
* `ParentsNamed` and `LineageIsClosure` exempt the steps that are `late`: created
  while a deletion that has read the descendants waits. They stay without parents
  and with rows of `step_from` that no chain of edges explains any more;
* `SyncMirrors` and `SyncedData` are about syncs that no other client disturbed,
  as the docstring asks, although lost answers and freezing the run may;
* a step whose transaction `delete_orphans` overlaps may lose rows and still
  become COMPLETE: `insert_hashes` joins its rows with clusters that an orphan
  deletion took between its two statements, and a resolver drops a group whose
  leaves are all gone, although its docstring expects a foreign key violation.
  `NothingLost` and the properties after it exempt these steps (`touched`) and
  what is built on them;
* they exempt the clusters that are `mixed` as well, whoever holds them. An
  insertion by a resolver expands its groups twice, once for the hashes and once
  for `contains`. Over steps that lost rows the two may differ, the rows of the
  second go to a cluster that has the hash of the first, and a resolver that
  nothing happened to may share that cluster. The proof of `NothingLost` did not
  go through without this exemption;
* `OneClusterPerKey`, on which `match` relies ("Exactly one cluster per key"),
  is about leaves that each resolver's models see within one cluster (`SeenAlike`).
  If one query returns a row and another a cluster of an earlier resolver that has
  it, the connected components do not see that the row is in the cluster, and it
  ends in two clusters of one resolver. It is enough that the second query returns
  the cluster for another row: a model that queries the earlier resolver through
  one of its two sources never gets the key of the other source, and yet its
  groups take that source's leaf along. A first form of the property looked only
  at the keys that queries return; the proof attempt showed it false of such a DAG;
* `SyncMirrors` does not ask for the order of a resolver's inputs, which the
  server does not keep: two DAGs that list them in different orders both find
  their step as long as the order of the ids is not against them. It was stated
  with the order before the attempt to prove it;
* `delete_orphans` does not look at `contains`, although `server/base.py` and the
  command line say so: a cluster that only judgements and resolvers know keeps
  its leaves as long as their sources do (`LeavesKeepTheirRoots`), and no longer;
* users who log in for the first time at the same time all become administrators,
  so `Bootstrap` speaks of those who were `early`; and one who is alone becomes one
  at each login, also after having been removed;
* a request whose membership or grant is taken away after its check still goes
  through: `OnlyWithPermission` exempts it (`shaken`). It does not exempt one whose
  collection was deleted. If the name is in use again when the handler looks it up,
  the request changes the *new* collection with a permission on the old one: the
  property names this case (`Replaced`: the checked collection is gone, and the one
  that is changed is a younger one of its name), and allows no other mismatch
  between what is checked and what is changed, but for the next item;
* a collection may be called `system` (`common/dtos.py` has no rule against it).
  `create_collection` needs no permission, and `grant_permission` takes the name for
  the system resource (`utils/db.py:153`): the first grants of such a collection are
  on the system. A request to delete it is checked against the system (`Misnamed`),
  and so are grants and revocations. `OnlyWithPermission` states this as what the
  code lets through: `create_collection` adds grants on its own new collection, or
  on the system if it is called so, and on nothing else;
* `OnlyWithPermission` takes the permission from the routers (`Needed`). They ask for
  write to delete a collection (`server/api/routers/collections.py:136`), whereas
  `docs/server/permissions.md:36-37` lists "delete resources" under Admin and only "Create
  and modify data" under Write: with the document's rule the property would not hold;
* deleting a step and creating it again under an upload lets the old task unlock
  the new step, so the invariants of the API task runner exclude deletions.

## 4. The proofs

`StepUpload_proofs` proves, for any sets of calls, steps and tables and any bounds:

| theorem | assumption | says |
| --- | --- | --- |
| `UploadTyped` | | `Spec => []TypeOK` |
| `EdgesAreSetOnce` | | `Spec => []EdgesSetOnce`: models and resolvers, any task runner, faults and edits |
| `UploadInvariant` | `ApiUploads` | `Spec => []UploadInv` |
| `OneUploadAtATime`, `DataIsSetOnce` | `ApiUploads` | two of its consequences |
| `CompleteStays` | `ApiUploads` | `Spec => CompleteIsFinal` |
| `UploadRefinesContract` | `ApiUploads` | `Spec => ContractSpec` |

`ApiUploads` says that uploads are background tasks and that no step is deleted;
`UploadCeleryRetry` shows that the first half is needed. The constants satisfy
`UploadAssumption`.

*The argument.* `OneUpload` is not inductive: nothing in it says why a call that
is about to lock a step finds no other that has it. `UploadInv` adds the chain
the code relies on. Only the owner of `rowLock` is between a locked read and its
commit (`LockOwned`); so what it read still stands (`LockedRead`); so it makes
PROCESSING only what is READY; a call that holds a step finds it PROCESSING
(`HeldIsProcessing`), hence no second call gets in; and between the count of the
rows and their insertion nobody else inserts (`InsertIsFirst`), so that there is
one copy at most. `AbsentIsBlank` and `CreatesNew` are what `create_step` needs:
it does not touch a step that an upload holds. `EdgesAreSetOnce` needs none of
this, only the unique constraint (`InsertAllowed`), which is why it holds with
retries as well. `CompleteStays` and the refinement follow from `UploadInv` step
by step: under it every action maps to one of the four of `UploadContract` or to
a stutter.

`UploadData_proofs` proves, with the same constants:

| theorem | assumption | says |
| --- | --- | --- |
| `NoFileIsLeft` | | `Spec => []NoOrphanFile`: both task runners, with retries |
| `DataInvariant` | `RowsStay` | `Spec => [](TypeOK /\ DataInv)` |
| `CompleteHasData` | `RowsStay` | `Spec => []CompleteHasItsData` |

`RowsStay` says that other requests create steps or delete them, but not both:
with both, an upload that outlives its step completes the one that took its
place, which was declared with other data. The run `UploadApi` creates, the run
`UploadCelery` deletes.

*The argument.* A file is in the bucket only while its call is in a task
(`FilesInTask`), or a fault has happened. For the data neither the stage nor the
row lock is enough, since a retried task does not lock its step. What a call has
validated has to last until it inserts (`Declared`: the step, if it is still
there, is the one that was read, and its fingerprint is that of the file), and
what it has inserted until it unlocks (`HasData`); both last because rows are
never removed but with their step, and a fingerprint never changes under an id.

`UploadClient_proofs` proves:

| theorem | assumption | says |
| --- | --- | --- |
| `ClientsTyped` | | `ClientSpec => []ClientTypeOK` |
| `ClientInvariant` | `SerialUploads` | `ClientSpec => [](ClientTypeOK /\ DataInv /\ ClientInv)` |
| `CompleteIsOwn`, `ReadyIsBlank` | `SerialUploads` | `OkIsMine`, `OnlyVacuumBlocks` |
| `ErrorsAreTold` | `SerialUploads`, no crash | `ErrorIsExplained` |

`SerialUploads` is what the run `ClientSerial` assumes: clients take turns,
uploads are background tasks, and others delete steps at most. `UploadContention`
shows that clients have to take turns. A process that dies (`"crash"`) explains
nothing to anybody, hence the last assumption.

*The argument.* A client polls the stage of a step and not of its upload. That it
reads its own result (`StageIsMine`) needs that one client is waiting
(`OneWaiting`), that the calls which clients have turned away from are at their
end or touch no step any more (`PollMatches`), and that the call at work finds its
step PROCESSING and, unless a VACUUM failed, empty until its insertion succeeds
(`HoldsEmpty`). Then a failed upload leaves the step as blank as it was. A task whose
VACUUM failed only unlocks and ends and is never tried again (`VacuumIsFinal`), so
that it stays known which step has its data (`VacuumKept`). `ToldInv` follows the message
from the exception to the tracker.

`Runs_proofs` proves, for any set of clients and any bounds, without assumptions:

| theorem | says |
| --- | --- |
| `RunsTyped`, `RunsInvariant` | `Spec => []TypeOK`, `Spec => []RunsInv` |
| `AtMostOneDefault`, `DefaultFrozen`, `SetDefaultWorks` | three of its consequences |
| `DefaultStays`, `SetDefaultHasNoConflict` | `Spec => DefaultSurvives`, `Spec => SetDefaultFailsFirst` |
| `NewRunClears` | `Spec => []NewRunLeavesOne` |

*The argument.* `RunsInv` carries what a client has read across the steps of
`set_run_default`: the run it is about to publish is frozen or was thawed on
purpose (`FrozenWhenRead`), and for a client that nobody has overlapped it is
still there and frozen (`StillFrozen`) and the default it unsets is still the one
there is (`StillDefault`), so that the index lets it pass. `OneDefault` needs the
index alone: a commit that it allows leaves one default, and nothing else adds
one. Each step of one client leaves the facts about the others alone (`QuietStep`)
or ends their being clean (`LoudStep`). `NewRunClears` has an invariant of its own,
`LeavesInv`: all runs besides the default are among those that the client has still
to delete (`Clearing`), but for as many as there were answers lost; when it returns
its own has come to these (`Made`).

`StepSync_proofs` proves, for any clients, configurations and bounds that satisfy
`StepSyncAssumption` (what the DTOs demand of a configuration):

| theorem | says |
| --- | --- |
| `SyncTyped`, `SyncInvariant` | `Spec => []TypeOK`, `Spec => []SyncInv` |
| `StepsAreTyped`, `StepsKeepParents`, `LineageClosed`, `DeletionsAreClosed` | the parts of `SyncInv` that the run checks |
| `SyncLeavesMirror`, `SyncLeavesData` | `Spec => []SyncMirrors`, `Spec => []SyncedData` |

*The argument.* A step loses a parent only if a deletion selects the parent and
not the step. A deletion selects what `step_from` calls descendants; if the table
is transitive that set is closed (`DescendantsClosed`), and stays so but for
`late` steps while others create (`VictimsClosed`). Transitivity itself is kept
by `create_step`, which copies all rows that end at a parent, and by a deletion,
whose cascade takes a row only with one of its ends; it needs no exemption for
`late` steps, which is why `LineageInv` states it instead of an induction over
paths. What a sync leaves behind is `AllSynced`: once a client's step has been
written, and as long as the client is `clean`, the server has it as the client
wants it (`Mirrored`), and if the client made it, then with its data when the
sync has returned (`HasSent`). A step of another client leaves the tables alone
or ends the client's being clean (`OthersSynced`).

`Clusters_proofs` proves, for any steps, lineages, rows and judges that satisfy
`ClustersAssumption`:

| theorem | says |
| --- | --- |
| `ClustersInvariant`, `ClustersTyped` | `Spec => []ClustersInv`, `Spec => []TypeOK`: one cluster for a hash, and nothing refers to what is not there |
| `RootsAreKept` | `Spec => LeavesKeepTheirRoots` |

*The argument.* `TypeOK` speaks of what is committed; that a commit keeps it needs
that the clusters of open transactions have hashes of their own
(`OwnClusters`, which is what the waiting of ON CONFLICT gives) and that their rows
refer to what is committed or their own (`Refers`), which `delete_orphans` keeps
by waiting for foreign keys. For `RootsAreKept`: a leaf leaves `contains` with its
root staying only when it is a victim; when the victims were chosen nobody
referred to them, and whoever does now was committed since, and is `touched`
(`VictimsAreNew`). That a step is declared with no rows left from a former one
of its name is `OnlyComplete`.

`ClustersData_proofs` proves, under the same assumption:

| theorem | says |
| --- | --- |
| `StoredInvariant` | `Spec => []StoredInv` |
| `NothingIsLost` | `Spec => []NothingLost` |
| `AnswersStay` | `Spec => AnswersAreStable` |
| `OneClusterForAKey` | `Spec => []OneClusterPerKey` |

*The argument.* `StoredInv` says of an open transaction what each of its statements
has written so far, compared with what the step declares (`Phase`, `UploadOK`): the
hashes are those of the groups, each hash has a cluster that the transaction sees,
each such cluster has the leaves of its group. Between two statements others
commit, but they only add, and what they add to a cluster of one hash are leaves of
that hash (`RootsOK`) unless the cluster is `mixed`. So a group's cluster has exactly
the leaves of the group, whoever made it, and `NothingLost` is the last of these
facts carried over the commit (`Kept`: a step filled by an empty table has no rows,
and gets none, since nothing is inserted for a step that is COMPLETE). It stays because what a sound step refers to is no
victim (`Stands`), and because the leaves of a resolver's clusters are held by
the keys of its sources (`LeavesHeld`). Hence the two tables that a query joins do
not change for a sound lineage, which is `AnswersStay`. For `OneClusterForAKey`,
`DrawnInv` adds where groups come from: a model's from what its queries returned,
a resolver's from its edges, and no two of them meet (`ComponentsApart`). If a
leaf is in two groups then two clusters that the models were shown have it, and
`SeenAlike` makes them one. The nearest resolver that has the leaf (`FirstOf`, by
the library's theorem on well-founded orders) then gives one root.

`Permissions_proofs` proves, for any users, requests, groups and collections that
satisfy `PermissionsAssumption`:

| theorem | says |
| --- | --- |
| `PermissionsInvariant` | `Spec => []PermissionsInv` |
| `PermissionsTyped`, `BootstrapHolds` | `Spec => []TypeOK`, `Spec => []Bootstrap` |
| `ChangesArePermitted` | `Spec => OnlyWithPermission` |

*The argument.* `Setup` carries what a login counted to its commit: if it found
nobody it began as one of the early, and if it found somebody they are still
there, since users are never deleted. `LetIn` carries what a check found to the
write: the memberships of the groups it read, then one membership and one grant
that together suffice, as long as no other request takes one away (`Shakes`) or the
resource is deleted (`Stays`). The name that the handler looks up again leads to the
very resource of that grant or, when that has gone, to a younger one (`Named`): ids
grow, and names are unique (`TypeOK`). `StepPermitted` puts the two together for each
handler, and `OpenGrants` looks at the grants of `create_collection`. No assumption
keeps a collection from being called `system`.

*Only model-checked:* `PollEnds` and `ProcessingEnds`, which are liveness
properties: fairness is stated with ENABLED, which is out of this prover's reach.
Every invariant and every action property of the passing runs, and the
refinement, is the conclusion of a theorem above, for all values of the constants
that meet its assumptions.

## 5. What could follow

The modules were written in the order `UploadContract`, `StepUpload`, `UploadClient`,
`Runs`, `StepSync`, `Clusters`, `Permissions`, each with its run and then its
proofs. What is left: `match` for one key
next to `query`; the algorithms (`DisjointSet`, the topological sort, precision and
recall) against reference definitions; and theorems about `StepUpload` when steps
are both created and deleted, for the properties that then still hold.

## 6. Not modelled

Linkers and dedupers (Splink and DuckDB on data frames), warehouses and
locations (I/O), the connection pool, dump and restore, migrations, the command
line and terminal interface, logging, settings, and the factories of the tests:
they have no state that several actors share, or are not the project's own logic.
`clear`, `drop` and `restore` replace the whole database, and `initialise` runs
before anybody uses it. Of groups the flag `is_system` that a request may set is left
out; so is the validation of tokens. `match`, the statistics of a sample and the scores of
judgements read tables and change nothing.
