------------------------------ MODULE Clusters ------------------------------
(***************************************************************************)
(* What the steps of all runs write into the tables they share: clusters,  *)
(* contains, and the rows that refer to clusters (cluster_keys of sources, *)
(* model_edges of models, resolver_clusters of resolvers, eval_judgements).*)
(*                                                                         *)
(* Clusters are addressed by their content: the row of a source has the    *)
(* hash of the row, the cluster of a resolver or a judgement the hash of   *)
(* its leaves' hashes.  Steps of different runs that store the same data   *)
(* meet in the same clusters, which delete_orphans removes when nobody     *)
(* refers to them any more.                                                *)
(*                                                                         *)
(* Transactions run at READ COMMITTED: each statement is an action that    *)
(* reads what is committed when it starts and what its own transaction     *)
(* wrote.  How a step gets to be uploaded, once, is StepUpload; so is the  *)
(* step that stays READY with its data because the VACUUM or the unlock    *)
(* after the commit fails: here a commit completes its step.               *)
(***************************************************************************)
EXTENDS Integers, Sequences, FiniteSets

CONSTANTS
  Source, Model, Resolver,   \* the steps, of all runs
  Inputs,      \* of each step: its parents
  Lineage,     \* of each step: itself and its ancestors, nearest first
  Left, Right, \* of each model: the lineages its queries go through
  Row,         \* the hashes of the rows of the warehouse
  Feed,        \* of each source: the sets of rows its table may hold
  Judge,       \* the users who judge
  MaxEdges,    \* edges of a model
  MaxGen,      \* how often a cluster of one hash is inserted
  MaxEmpty,    \* steps with declared data that are COMPLETE and empty
  MaxUploads, MaxDeletes, MaxPrunes, MaxJudgements   \* of the environment

Step == Source \cup Model \cup Resolver
Actor == Step \cup Judge
Elements(seq) == {seq[i] : i \in 1..Len(seq)}
Upstream(s) == Elements(Lineage[s]) \ {s}

ASSUME ClustersAssumption ==
  /\ Source \cap Model = {} /\ Source \cap Resolver = {} /\ Model \cap Resolver = {}
  /\ Step \cap Judge = {}
  /\ \A s \in Step : /\ Lineage[s] \in Seq(Step) /\ Lineage[s] # <<>>
                     /\ Lineage[s][1] = s
                     /\ \A t \in Upstream(s) : Upstream(t) \subseteq Upstream(s) \ {t}
                     /\ Inputs[s] \subseteq Upstream(s)
  /\ \A r \in Resolver : Inputs[r] \subseteq Model
  /\ \A m \in Model : Elements(Left[m]) \cup Elements(Right[m]) \subseteq Upstream(m)
  /\ \A s \in Source : Upstream(s) = {} /\ \A rows \in Feed[s] : rows \subseteq Row
  /\ MaxGen \in Nat \ {0} /\ MaxEmpty \in Nat
  /\ MaxUploads \in Nat /\ MaxDeletes \in Nat
  /\ MaxPrunes \in Nat /\ MaxJudgements \in Nat

VARIABLES
  step,        \* of each step: [stage, rows, groups], history: empty, touched
  clusters,    \* the rows of clusters, as ids: [hash, gen]
  used,        \* the ids that were ever committed
  contains,    \* [root, leaf]
  refs,        \* the rows by which steps refer to clusters: [step, cluster]
  judgements,  \* [user, shown, endorsed]
  tx,          \* of each actor: its transaction, with what it wrote
  item,        \* of each judge: the leaves it is shown
  prune,       \* delete_orphans: [phase, victims]
  mixed,       \* history: the clusters that may have leaves of another hash
  uploads, deletes, prunes   \* counters of the environment

vars == <<step, clusters, used, contains, refs, judgements, tx, item, prune,
          mixed, uploads, deletes, prunes>>

(* SHA-256 is taken to be injective: hash_cluster_leaves is one of the     *)
(* sorted hashes of the leaves, and never the hash of a row.               *)
HashOfRow(row) == [row |-> row]
HashOfLeaves(leaves) == [leaves |-> {l.hash : l \in leaves}]

Absent == [stage |-> "absent", rows |-> {}, groups |-> {}, empty |-> FALSE,
           touched |-> FALSE]
NoTx == [pc |-> "idle", hashes |-> {}, clusters |-> {}, contains |-> {},
         refs |-> {}, endorsed |-> {}, touched |-> FALSE]

Init ==
  /\ step = [s \in Step |-> Absent]
  /\ clusters = {} /\ used = {} /\ contains = {} /\ refs = {} /\ judgements = {}
  /\ tx = [a \in Actor |-> NoTx]
  /\ item = [j \in Judge |-> {}]
  /\ prune = [phase |-> "idle", victims |-> {}] /\ mixed = {}
  /\ uploads = 0 /\ deletes = 0 /\ prunes = 0

-----------------------------------------------------------------------------
(* Queries *)

Leaves(table, root) == {c.leaf : c \in {d \in table : d.root = root}}
Roots(s, leaf) == {c.root : c \in {d \in contains :
                      d.leaf = leaf /\ [step |-> s, cluster |-> d.root] \in refs}}

(* The root of a leaf is taken from the first resolver of a lineage that   *)
(* claims it (COALESCE over one LEFT JOIN for each resolver), and is the   *)
(* leaf itself when none does.  A leaf that a resolver has in two clusters *)
(* gives two rows.                                                         *)
Projected(lineage, leaf) ==
  LET claiming == {i \in 1..Len(lineage) :
                     lineage[i] \in Resolver /\ Roots(lineage[i], leaf) # {}}
      nearest == {i \in claiming : \A k \in claiming : i <= k}
  IN IF claiming = {} THEN {leaf} ELSE UNION {Roots(lineage[i], leaf) : i \in nearest}

(* Mutant of Keys: without the filter on the sources of the lineage.       *)
AllKeys(lineage) == {k.cluster : k \in {r \in refs : r.step \in Source}}
Keys(lineage) == {k.cluster : k \in {r \in refs :
                     r.step \in Source /\ r.step \in Elements(lineage)}}

(* _build_unified_query: the keys of the sources of a lineage, by the      *)
(* clusters they are in, with their roots.                                 *)
Answer(lineage) == UNION {{[leaf |-> l, root |-> r] : r \in Projected(lineage, l)} :
                            l \in Keys(lineage)}

-----------------------------------------------------------------------------
(* Steps *)

(* What a client computes from the data of the inputs: the rows of a table;*)
(* pairs of clusters, which a deduper forms within what its query returned *)
(* and a linker across its two queries; the connected components of the    *)
(* edges of a resolver's models (those below a threshold are left out).    *)
Visible(lineage) == {a.root : a \in Answer(lineage)}
Pairs(m) ==
  LET pairs == {{x, y} : x \in Visible(Left[m]), y \in Visible(Right[m])}
  IN IF Left[m] = Right[m] THEN {p \in pairs : Cardinality(p) = 2} ELSE pairs

(* Mutant of Components: edges that meet are not merged.                   *)
Unmerged(edges) == edges

Connected(edges, g) == \A e \in edges : e \cap g = {} \/ e \subseteq g
Components(edges) ==
  {g \in (SUBSET UNION edges) \ {{}} :
     /\ Connected(edges, g)
     /\ \A h \in (SUBSET g) \ {{}, g} : ~Connected(edges, h)}

Edges(r) == UNION {step[m].groups : m \in Inputs[r]}
Rows(s) == IF s \in Source THEN {{HashOfRow(r) : r \in table} : table \in Feed[s]} ELSE {{}}
Groups(s) ==
  CASE s \in Source -> {{}}
    [] s \in Model -> {p \in SUBSET Pairs(s) : Cardinality(p) <= MaxEdges}
    [] s \in Resolver -> {Components(Edges(s))}

Declare(s) ==
  /\ step[s].stage = "absent" /\ tx[s].pc = "idle"
  /\ uploads < MaxUploads /\ uploads' = uploads + 1
  /\ \A t \in Upstream(s) : step[t].stage = "complete"
  /\ \E rows \in Rows(s), groups \in Groups(s) :
       step' = [step EXCEPT ![s] = [stage |-> "ready", rows |-> rows, groups |-> groups,
                                    empty |-> FALSE, touched |-> FALSE]]
  /\ UNCHANGED <<clusters, used, contains, refs, judgements, tx, item, prune,
                 mixed, deletes, prunes>>

(* Mutant of DeleteStep: the clusters of the steps are emptied, though     *)
(* other steps and judgements may share them.                              *)
DeleteStepEmpties(s) ==
  LET gone == {t \in Step : s \in Elements(Lineage[t])}
      emptied == {r.cluster : r \in {q \in refs : q.step \in gone}}
  IN /\ step[s].stage # "absent"
     /\ deletes < MaxDeletes /\ deletes' = deletes + 1
     /\ \A t \in gone : tx[t].refs = {}
     /\ step' = [t \in Step |-> IF t \in gone THEN Absent ELSE step[t]]
     /\ refs' = {r \in refs : r.step \notin gone}
     /\ contains' = {c \in contains : c.root \notin emptied}
     /\ UNCHANGED <<clusters, used, judgements, tx, item, prune, mixed, uploads, prunes>>

(* delete_step takes the descendants along, and their rows by cascade.  It *)
(* waits for the transactions that refer to one of them.                   *)
DeleteStep(s) ==
  LET gone == {t \in Step : s \in Elements(Lineage[t])}
  IN /\ step[s].stage # "absent"
     /\ deletes < MaxDeletes /\ deletes' = deletes + 1
     /\ \A t \in gone : tx[t].refs = {}
     /\ step' = [t \in Step |-> IF t \in gone THEN Absent ELSE step[t]]
     /\ refs' = {r \in refs : r.step \notin gone}
     /\ UNCHANGED <<clusters, used, contains, judgements, tx, item, prune,
                    mixed, uploads, prunes>>

-----------------------------------------------------------------------------
(* Insertions *)

Becomes(a, rec) == tx' = [tx EXCEPT ![a] = rec]
Tables == <<clusters, used, contains, refs, judgements>>
Rest == <<item, prune, mixed, uploads, deletes, prunes>>

SeenClusters(a) == clusters \cup tx[a].clusters
SeenContains(a) == contains \cup tx[a].contains
Mapped(a, hashes) == {c \in SeenClusters(a) : c.hash \in hashes}

Missing(a, hashes) == hashes \ {c.hash : c \in SeenClusters(a)}
Ids(h) == {[hash |-> h, gen |-> g] : g \in 1..MaxGen}
NewCluster(h) == CHOOSE c \in Ids(h) : c \notin used

(* INSERT INTO clusters ... ON CONFLICT DO NOTHING waits for a transaction *)
(* that has inserted one of the hashes.                                    *)
CanAdd(a, hashes) ==
  \A h \in Missing(a, hashes) :
    /\ \A b \in Actor \ {a} : \A c \in tx[b].clusters : c.hash # h
    /\ \E c \in Ids(h) : c \notin used

Added(a, hashes) == tx[a].clusters \cup {NewCluster(h) : h \in Missing(a, hashes)}

(* The session that validates an upload: the step has no data.             *)
MayInsert(s) == /\ step[s].stage = "ready" /\ tx[s].pc = "idle"
                /\ \A r \in refs : r.step # s

(* insert_hashes and insert_model_edges return on an empty table before    *)
(* they look at the fingerprint or at existing data, and the step becomes  *)
(* COMPLETE whatever was declared for it: then empty.  insert_clusters     *)
(* compares the fingerprint first.                                         *)
InsertNothing(s) ==
  LET declared == step[s].rows \cup step[s].groups
  IN /\ step[s].stage = "ready" /\ tx[s].pc = "idle"
     /\ s \in Resolver => MayInsert(s) /\ declared = {}
     /\ declared # {} => Cardinality({t \in Step : step[t].empty}) < MaxEmpty
     /\ step' = [step EXCEPT ![s].stage = "complete", ![s].empty = declared # {}]
     /\ UNCHANGED <<Tables, tx, Rest>>

(* insert_hashes: the clusters of the rows, then a key for each row that   *)
(* joins with a cluster, in two statements of one transaction.             *)
InsertHashes(s) ==
  /\ MayInsert(s) /\ step[s].rows # {} /\ CanAdd(s, step[s].rows)
  /\ Becomes(s, [NoTx EXCEPT !.pc = "keys", !.clusters = Added(s, step[s].rows)])
  /\ UNCHANGED <<step, Tables, Rest>>

InsertKeys(s) ==
  /\ tx[s].pc = "keys" /\ step[s].stage = "ready"
  /\ Becomes(s, [tx[s] EXCEPT !.pc = "commit",
                   !.refs = {[step |-> s, cluster |-> c] : c \in Mapped(s, step[s].rows)}])
  /\ UNCHANGED <<step, Tables, Rest>>

(* insert_model_edges: one statement, which fails when a cluster is gone.  *)
InsertEdges(m) ==
  LET ends == UNION step[m].groups
  IN /\ m \in Model /\ MayInsert(m) /\ ends # {} /\ ends \subseteq clusters
     /\ Becomes(m, [NoTx EXCEPT !.pc = "commit",
                      !.refs = {[step |-> m, cluster |-> c] : c \in ends}])
     /\ UNCHANGED <<step, Tables, Rest>>

(* Mutant of Expanded: the clusters of the earlier resolver stay as they   *)
(* are.                                                                    *)
Unexpanded(a, group) == group

(* _build_expanded_leaves_subquery: a cluster that contains nothing stands *)
(* for itself.                                                             *)
Expanded(a, group) ==
  UNION {LET leaves == Leaves(SeenContains(a), child)
         IN IF leaves = {} THEN {child} ELSE leaves : child \in group}

(* insert_clusters, first statement: the hash of each group, of the leaves *)
(* that exist.  A group of which no leaf exists has none.                  *)
ComputeHashes(r) ==
  LET known(g) == Expanded(r, g) \cap clusters
  IN /\ r \in Resolver /\ MayInsert(r) /\ step[r].groups # {}
     /\ Becomes(r, [NoTx EXCEPT !.pc = "clusters",
          !.hashes = {[group |-> g, hash |-> HashOfLeaves(known(g))] :
                        g \in {h \in step[r].groups : known(h) # {}}}])
     /\ UNCHANGED <<step, Tables, Rest>>

HashesOf(r) == {h.hash : h \in tx[r].hashes}

InsertClusters(r) ==
  /\ tx[r].pc = "clusters" /\ CanAdd(r, HashesOf(r))
  /\ Becomes(r, [tx[r] EXCEPT !.pc = "contains", !.clusters = Added(r, HashesOf(r))])
  /\ UNCHANGED <<step, Tables, Rest>>

(* The groups are expanded again.  The foreign keys of contains refuse a   *)
(* leaf that is not a cluster.                                             *)
InsertContains(r) ==
  LET new == UNION {{[root |-> c, leaf |-> l] :
                       c \in Mapped(r, {h.hash}), l \in Expanded(r, h.group)} :
                      h \in tx[r].hashes}
  IN /\ tx[r].pc = "contains"
     /\ \A c \in new : c.leaf \in SeenClusters(r) /\ c.root # c.leaf
     /\ Becomes(r, [tx[r] EXCEPT !.pc = "members", !.contains = new])
     /\ UNCHANGED <<step, Tables, Rest>>

InsertMembers(r) ==
  /\ tx[r].pc = "members" /\ step[r].stage = "ready"
  /\ Becomes(r, [tx[r] EXCEPT !.pc = "commit",
                   !.refs = {[step |-> r, cluster |-> c] : c \in Mapped(r, HashesOf(r))}])
  /\ UNCHANGED <<step, Tables, Rest>>

(* Nothing has come between the clusters that a step refers to and what it *)
(* stored: no delete_orphans, and no leaves that are not of their hash.    *)
ClustersOf(s) == {r.cluster : r \in {q \in refs : q.step = s}}
Reliable(s) == /\ ~step[s].touched
               /\ s \in Resolver => ClustersOf(s) \cap mixed = {}

(* touched records that delete_orphans overlapped the transaction, mixed   *)
(* that the two expansions of its groups need not have been the same.      *)
Commit(s) ==
  LET touched == tx[s].touched \/ prune.phase = "deleting"
      reliable == ~touched /\ \A t \in Upstream(s) : Reliable(t)
  IN
  /\ tx[s].pc = "commit" /\ step[s].stage = "ready"
  /\ clusters' = clusters \cup tx[s].clusters
  /\ used' = used \cup tx[s].clusters
  /\ contains' = contains \cup tx[s].contains
  /\ refs' = refs \cup tx[s].refs
  /\ step' = [step EXCEPT ![s].stage = "complete",
                          ![s].touched = touched]
  /\ mixed' = mixed \cup {c.root : c \in IF reliable THEN {} ELSE tx[s].contains}
  /\ Becomes(s, NoTx)
  /\ UNCHANGED <<judgements, item, prune, uploads, deletes, prunes>>

(* A transaction fails: a foreign key, a row that is gone, a lost session, *)
(* the victim of a deadlock.                                               *)
Fail(a) ==
  /\ tx[a].pc # "idle"
  /\ Becomes(a, NoTx)
  /\ item' = IF a \in Judge THEN [item EXCEPT ![a] = {}] ELSE item
  /\ UNCHANGED <<step, Tables, prune, mixed, uploads, deletes, prunes>>

-----------------------------------------------------------------------------
(* Judgements *)

Partitions(S) == {p \in SUBSET ((SUBSET S) \ {{}}) :
                    UNION p = S /\ \A g, h \in p : g = h \/ g \cap h = {}}

(* sample_for_eval: a cluster of a resolver that the user has not judged,  *)
(* by those of its leaves that hold keys of the resolver's sources.        *)
Sample(j) ==
  /\ item[j] = {} /\ Cardinality(judgements) < MaxJudgements
  /\ \E r \in Resolver : \E m \in refs :
       /\ m.step = r
       /\ \A g \in judgements : ~(g.user = j /\ g.shown = m.cluster)
       /\ LET shown == Leaves(contains, m.cluster) \cap Keys(Lineage[r])
          IN shown # {} /\ item' = [item EXCEPT ![j] = shown]
  /\ UNCHANGED <<step, Tables, tx, prune, mixed, uploads, deletes, prunes>>

(* insert_judgement: the user groups what it was shown; validate_ids, and  *)
(* get_or_create_cluster for what was shown and for each group.  Only the  *)
(* leaves of a new cluster are stored.                                     *)
GetOrCreate(j) ==
  /\ tx[j].pc = "idle" /\ item[j] # {} /\ item[j] \subseteq clusters
  /\ \E endorsed \in Partitions(item[j]) :
       LET groups == {item[j]} \cup endorsed
           hashes == {HashOfLeaves(g) : g \in groups}
           created == {g \in groups : HashOfLeaves(g) \in Missing(j, hashes)}
       IN /\ CanAdd(j, hashes)
          /\ Becomes(j, [NoTx EXCEPT !.pc = "store", !.endorsed = endorsed,
               !.clusters = Added(j, hashes),
               !.contains = UNION {{[root |-> NewCluster(HashOfLeaves(g)), leaf |-> l] :
                                      l \in g} : g \in created}])
  /\ UNCHANGED <<step, Tables, Rest>>

ClusterOf(j, g) == Mapped(j, {HashOfLeaves(g)})

StoreJudgement(j) ==
  /\ tx[j].pc = "store"
  /\ \A g \in {item[j]} \cup tx[j].endorsed : ClusterOf(j, g) # {}
  /\ clusters' = clusters \cup tx[j].clusters
  /\ used' = used \cup tx[j].clusters
  /\ contains' = contains \cup tx[j].contains
  /\ judgements' = judgements \cup
       UNION {{[user |-> j, shown |-> c, endorsed |-> d] :
                 c \in ClusterOf(j, item[j]), d \in ClusterOf(j, g)} :
               g \in tx[j].endorsed}
  /\ Becomes(j, NoTx) /\ item' = [item EXCEPT ![j] = {}]
  /\ UNCHANGED <<step, refs, prune, mixed, uploads, deletes, prunes>>

-----------------------------------------------------------------------------
(* delete_orphans *)

JudgedClusters == {g.shown : g \in judgements} \cup {g.endorsed : g \in judgements}
Referenced == {r.cluster : r \in refs} \cup JudgedClusters

(* The DELETE finds the clusters that keys, edges, resolver clusters and   *)
(* judgements do not refer to; contains does not count.  It does not look  *)
(* again after it has waited for a transaction that holds a foreign key to *)
(* one of them: the row itself did not change.                             *)
FindOrphans ==
  LET orphans == clusters \ Referenced
  IN /\ prune.phase = "idle" /\ prunes < MaxPrunes /\ orphans # {}
     /\ prune' = [phase |-> "deleting", victims |-> orphans]
     /\ prunes' = prunes + 1
     /\ UNCHANGED <<step, Tables, tx, item, mixed, uploads, deletes>>

Locked(a) == {r.cluster : r \in tx[a].refs} \cup {c.root : c \in tx[a].contains}
               \cup {c.leaf : c \in tx[a].contains}

(* Mutant of DeleteOrphans: no cascade on contains.leaf.                   *)
DeleteOrphansKeepsLeaves ==
  LET gone == prune.victims
  IN /\ prune.phase = "deleting"
     /\ \A a \in Actor : Locked(a) \cap gone = {}
     /\ clusters' = clusters \ gone
     /\ contains' = {c \in contains : c.root \notin gone}
     /\ refs' = {r \in refs : r.cluster \notin gone}
     /\ judgements' = {g \in judgements : g.shown \notin gone /\ g.endorsed \notin gone}
     /\ tx' = [a \in Actor |-> IF tx[a].pc = "idle" THEN NoTx
                               ELSE [tx[a] EXCEPT !.touched = TRUE]]
     /\ prune' = [phase |-> "idle", victims |-> {}]
     /\ UNCHANGED <<step, used, item, mixed, uploads, deletes, prunes>>

(* Rows that refer to a cluster go with it (ON DELETE CASCADE), those too  *)
(* that were committed while the DELETE waited.                            *)
DeleteOrphans ==
  LET gone == prune.victims
  IN /\ prune.phase = "deleting"
     /\ \A a \in Actor : Locked(a) \cap gone = {}
     /\ clusters' = clusters \ gone
     /\ contains' = {c \in contains : c.root \notin gone /\ c.leaf \notin gone}
     /\ refs' = {r \in refs : r.cluster \notin gone}
     /\ judgements' = {g \in judgements : g.shown \notin gone /\ g.endorsed \notin gone}
     /\ tx' = [a \in Actor |-> IF tx[a].pc = "idle" THEN NoTx
                               ELSE [tx[a] EXCEPT !.touched = TRUE]]
     /\ prune' = [phase |-> "idle", victims |-> {}]
     /\ UNCHANGED <<step, used, item, mixed, uploads, deletes, prunes>>

-----------------------------------------------------------------------------
StepActions(s) ==
  \/ Declare(s) \/ DeleteStep(s) \/ InsertNothing(s)
  \/ InsertHashes(s) \/ InsertKeys(s) \/ InsertEdges(s)
  \/ ComputeHashes(s) \/ InsertClusters(s) \/ InsertContains(s) \/ InsertMembers(s)
  \/ Commit(s)
JudgeActions(j) == Sample(j) \/ GetOrCreate(j) \/ StoreJudgement(j)

Next ==
  \/ \E s \in Step : StepActions(s)
  \/ \E j \in Judge : JudgeActions(j)
  \/ \E a \in Actor : Fail(a)
  \/ FindOrphans \/ DeleteOrphans

Spec == Init /\ [][Next]_vars

-----------------------------------------------------------------------------
(* Every row refers to clusters that exist, and a hash has one cluster.    *)
TypeOK ==
  /\ clusters \subseteq used
  /\ \A c \in used : c = [hash |-> c.hash, gen |-> c.gen] /\ c.gen \in 1..MaxGen
  /\ \A c, d \in clusters : c.hash = d.hash => c = d
  /\ \A c \in contains : c.root \in clusters /\ c.leaf \in clusters
  /\ \A r \in refs : r.step \in Step /\ r.cluster \in clusters
  /\ \A g \in judgements : g.user \in Judge /\ g.shown \in clusters /\ g.endorsed \in clusters

(* A step whose data, and whose ancestors' data, went in while no          *)
(* delete_orphans was at work, and that shares no cluster with a resolver  *)
(* of which that cannot be said.                                           *)
Sound(s) == step[s].stage = "complete" /\ \A t \in Elements(Lineage[s]) : Reliable(t)

LeavesOf(group) ==
  UNION {IF Leaves(contains, c) = {} THEN {c} ELSE Leaves(contains, c) : c \in group}

(* A source has the rows that were declared, a model the ends of its       *)
(* edges, a resolver one cluster for each group, with exactly the leaves   *)
(* of the group and their hash.                                            *)
AsDeclared(s) ==
  /\ s \in Source => {c.hash : c \in ClustersOf(s)} = step[s].rows
  /\ s \in Model => ClustersOf(s) = UNION step[s].groups
  /\ s \in Resolver =>
       /\ \A c \in ClustersOf(s) : c.hash = HashOfLeaves(Leaves(contains, c))
       /\ {Leaves(contains, c) : c \in ClustersOf(s)} = {LeavesOf(g) : g \in step[s].groups}

(* A step that is COMPLETE has the data that was declared, whatever others *)
(* inserted, judged, deleted or pruned in the meantime, and a source or a  *)
(* model for which an empty table was accepted in its place has none, but  *)
(* never a part of it, and no resolver is such a step.  insert_hashes      *)
(* joins its rows with what another transaction may have inserted;         *)
(* insert_clusters expands its groups twice, and adds to the contains rows *)
(* of whoever inserted the same hash.                                      *)
NothingLost ==
  \A s \in Step : Sound(s) =>
    IF step[s].empty THEN s \notin Resolver /\ ClustersOf(s) = {} ELSE AsDeclared(s)

(* What the queries of a resolver's models show of a leaf: the leaf, or a  *)
(* cluster it is in, be it through the key of another leaf.                *)
Queries(r) == UNION {{Left[m], Right[m]} : m \in Inputs[r]}
SeenAs(r, l) == {x \in UNION {Visible(q) : q \in Queries(r)} : l \in LeavesOf({x})}
SeenAlike(s, l) ==
  \A r \in Elements(Lineage[s]) \cap Resolver : \A x, y \in SeenAs(r, l) : x = y

(* "Exactly one cluster per key" (_build_target_cluster_cte takes any one  *)
(* of them, LIMIT 1): whatever resolvers and judgements share the leaf,    *)
(* the resolvers of a lineage put it into one cluster.  A leaf that one    *)
(* query shows as itself and another within a cluster is left out:         *)
(* Components keeps the two apart.                                         *)
OneClusterPerKey ==
  \A s \in Step : Sound(s) =>
    \A l \in Keys(Lineage[s]) :
      Cardinality(Projected(Lineage[s], l)) = 1 \/ ~SeenAlike(s, l)

(* What query returns for a step changes in no step of anybody: no upload, *)
(* judgement, deletion or delete_orphans of others reaches it through the  *)
(* clusters they share.                                                    *)
AnswersAreStable ==
  [][\A s \in Step : Sound(s) /\ Sound(s)' => Answer(Lineage[s])' = Answer(Lineage[s])]_vars

(* A cluster that stays loses none of its leaves as long as a source has a *)
(* key for the leaf, unless the key was committed while delete_orphans was *)
(* waiting: contains does not keep a leaf alive, its keys do.              *)
LeavesKeepTheirRoots ==
  [][\A c \in contains : c.root \in clusters' /\ c \notin contains' =>
       \A r \in refs : r.step \in Source /\ r.cluster = c.leaf => step[r.step].touched]_vars
=============================================================================
