-------------------------- MODULE ClustersData_proofs --------------------------
(***************************************************************************)
(* Theorems about the data of the steps in Clusters: what was declared is  *)
(* what is stored, whoever shares the clusters, and what a query returns   *)
(* does not change.                                                        *)
(***************************************************************************)
EXTENDS Clusters_proofs, FiniteSetTheorems, WellFoundedInduction

(* The fields that a step, or a transaction, has.                          *)
FullStep(rec) == {"stage", "rows", "groups", "empty", "touched"} \subseteq DOMAIN rec
FullTx(rec) == {"pc", "hashes", "clusters", "contains", "refs", "endorsed", "touched"}
                 \subseteq DOMAIN rec

IsRowHash(h)  == h = [row |-> h.row]
IsRootHash(h) == h = [leaves |-> h.leaves]

(* A step stands on steps that are there, and has no transaction open once *)
(* it is COMPLETE.                                                         *)
StageOK(s) ==
  /\ FullStep(step[s]) /\ step[s].stage \in {"absent", "ready", "complete"}
  /\ step[s].stage # "absent" => \A t \in Upstream(s) : step[t].stage = "complete"
  /\ step[s].stage = "absent" => step[s] = Absent
  /\ step[s].stage # "complete" => step[s].empty = FALSE
  /\ tx[s].pc # "idle" => step[s].stage # "complete"

(* What s can know of clusters: those of the sources and resolvers that it *)
(* is built on.                                                            *)
Known(s) == {r.cluster : r \in {q \in refs : q.step \in Upstream(s) \ Model}}
Rests(s) == \A t \in Upstream(s) : Reliable(t)

DeclaredOK(s) ==
  /\ s \notin Source => step[s].rows = {}
  /\ \A h \in step[s].rows : IsRowHash(h)
  /\ s \in Source => step[s].groups = {}
  /\ s \in Resolver => {} \notin step[s].groups
  /\ Rests(s) => \A g \in step[s].groups : g \subseteq Known(s)

(* The leaves of a cluster that is not mixed are of its hash.              *)
RootsOK ==
  \A d \in contains : /\ IsRootHash(d.root.hash)
                      /\ d.root \notin mixed => d.leaf.hash \in d.root.hash.leaves

(* Where a transaction is, and what it has written so far.                 *)
Phase(a, rec) ==
  /\ FullTx(rec)
  /\ rec.pc = "idle" => rec = NoTx
  /\ a \in Judge => rec.pc \in {"idle", "store"}
  /\ a \in Source => rec.pc \in {"idle", "keys", "commit"}
  /\ a \in Model => rec.pc \in {"idle", "commit"}
  /\ a \in Resolver => rec.pc \in {"idle", "clusters", "contains", "members", "commit"}
  /\ rec.pc \in {"keys", "clusters", "contains"} => rec.contains = {}
  /\ a \in Source \cup Model => rec.contains = {}
  /\ \A h \in rec.hashes : IsRootHash(h.hash)
  /\ \A d \in rec.contains :
       /\ IsRootHash(d.root.hash)
       /\ a \in Judge => d.leaf.hash \in d.root.hash.leaves

(* What an upload has done so far, if nothing has come between.            *)
HashesRight(s) ==
  tx[s].hashes = {[group |-> g, hash |-> HashOfLeaves(LeavesOf(g))] : g \in step[s].groups}
Covered(s, hashes) == \A h \in hashes : \E c \in SeenClusters(s) : c.hash = h
GroupHashes(s) == {HashOfLeaves(LeavesOf(g)) : g \in step[s].groups}
ContainsRight(s) ==
  /\ \A d \in tx[s].contains : \E g \in step[s].groups :
       d.root.hash = HashOfLeaves(LeavesOf(g)) /\ d.leaf \in LeavesOf(g)
  /\ \A g \in step[s].groups : \A c \in SeenClusters(s) :
       c.hash = HashOfLeaves(LeavesOf(g)) =>
         \A l \in LeavesOf(g) : [root |-> c, leaf |-> l] \in tx[s].contains
Written(s) == {r.cluster : r \in tx[s].refs}
WrittenHashes(s) == {c.hash : c \in Written(s)}

Uploading(s) ==
  /\ tx[s].pc = "keys" => Covered(s, step[s].rows)
  /\ tx[s].pc = "commit" /\ s \in Source => WrittenHashes(s) = step[s].rows
  /\ tx[s].pc = "commit" /\ s \in Model => Written(s) = UNION step[s].groups
  /\ s \in Resolver =>
       /\ tx[s].pc # "idle" => HashesRight(s)
       /\ tx[s].pc \in {"contains", "members", "commit"} => Covered(s, GroupHashes(s))
       /\ tx[s].pc \in {"members", "commit"} => ContainsRight(s)
       /\ tx[s].pc = "commit" => WrittenHashes(s) = GroupHashes(s)

UploadOK(s) ==
  step[s].stage = "ready" /\ ~tx[s].touched /\ Rests(s) => Uploading(s)

(* What a resolver has put into its clusters others hold as well.          *)
LeavesHeld ==
  \A s \in Resolver : Sound(s) => \A c \in ClustersOf(s) : Leaves(contains, c) \subseteq Known(s)

StoredInv ==
  /\ \A s \in Step : StageOK(s) /\ DeclaredOK(s) /\ UploadOK(s)
  /\ \A a \in Actor : Phase(a, tx[a])
  /\ RootsOK /\ NothingLost /\ LeavesHeld

-----------------------------------------------------------------------------
(* The shape of a lineage.                                                 *)
LEMMA LineageShape ==
  ASSUME NEW s \in Step
  PROVE  /\ Elements(Lineage[s]) = {s} \cup Upstream(s)
         /\ Upstream(s) \subseteq Step /\ s \notin Upstream(s)
         /\ \A t \in Upstream(s) : Upstream(t) \subseteq Upstream(s) /\ s \notin Upstream(t)
<1>1. /\ Lineage[s] \in Seq(Step) /\ Lineage[s] # <<>> /\ Lineage[s][1] = s
      /\ \A t \in Upstream(s) : Upstream(t) \subseteq Upstream(s) \ {t}
    BY ClustersAssumption
<1>2. Len(Lineage[s]) \in Nat \ {0} /\ \A i \in 1..Len(Lineage[s]) : Lineage[s][i] \in Step
    BY <1>1
<1>3. s \in Elements(Lineage[s])
    BY <1>1, <1>2 DEF Elements
<1>4. Elements(Lineage[s]) \subseteq Step
    BY <1>2 DEF Elements
<1> QED
    BY <1>1, <1>3, <1>4 DEF Upstream

(* A hash has one cluster among those that a transaction sees.             *)
LEMMA SeenOnce ==
  ASSUME ClustersInv, NEW a \in Actor, NEW c \in SeenClusters(a), NEW d \in SeenClusters(a),
         c.hash = d.hash
  PROVE  c = d
BY DEF ClustersInv, TypeOK, TxOK, OwnClusters, SeenClusters

(* What a step of the system is to the tables.                             *)
Writes(a, rec) == Becomes(a, rec) /\ UNCHANGED <<step, Tables, mixed>>
Silent == UNCHANGED <<step, Tables, tx, mixed>>

LEMMA Statements ==
  ASSUME NEW s \in Step,
         \/ InsertHashes(s) \/ InsertKeys(s) \/ InsertEdges(s) \/ ComputeHashes(s)
         \/ InsertClusters(s) \/ InsertContains(s) \/ InsertMembers(s)
  PROVE  \E rec : Writes(s, rec)
BY DEF InsertHashes, InsertKeys, InsertEdges, ComputeHashes, InsertClusters, InsertContains,
       InsertMembers, Writes, Rest

LEMMA Kinds ==
  ASSUME [Next]_vars
  PROVE  \/ \E a \in Actor : \E rec : Writes(a, rec)
         \/ Silent
         \/ \E s \in Step : Declare(s) \/ DeleteStep(s) \/ InsertNothing(s) \/ Commit(s)
         \/ \E j \in Judge : StoreJudgement(j)
         \/ DeleteOrphans
<1>1. ASSUME NEW s \in Step, StepActions(s)
      PROVE  \/ \E rec : Writes(s, rec)
             \/ Declare(s) \/ DeleteStep(s) \/ InsertNothing(s) \/ Commit(s)
    BY <1>1, Statements DEF StepActions
<1>2. ASSUME NEW j \in Judge, JudgeActions(j)
      PROVE  (\E rec : Writes(j, rec)) \/ Silent \/ StoreJudgement(j)
    <2>1. GetOrCreate(j) => \E rec : Writes(j, rec)
        BY DEF GetOrCreate, Writes, Rest
    <2>2. Sample(j) => Silent
        BY DEF Sample, Silent
    <2> QED  BY <1>2, <2>1, <2>2 DEF JudgeActions
<1>3. ASSUME NEW a \in Actor, Fail(a) PROVE \E rec : Writes(a, rec)
    BY <1>3 DEF Fail, Writes
<1>4. FindOrphans \/ UNCHANGED vars => Silent
    BY DEF FindOrphans, vars, Silent, Tables
<1> QED
    BY <1>1, <1>2, <1>3, <1>4 DEF Next, Actor

-----------------------------------------------------------------------------
(***************************************************************************)
(* What stands while others go on.                                         *)
(***************************************************************************)

(* A step that stays what it is, and its rows unless delete_orphans        *)
(* overlapped it.                                                          *)
RowsOf(t) == {r \in refs : r.step = t}
Stands(t) ==
  /\ step'[t] = step[t] /\ mixed \subseteq mixed'
  /\ ~step[t].touched => RowsOf(t)' = RowsOf(t)

LEMMA StepStands ==
  ASSUME ClustersInv, StoredInv, [Next]_vars, NEW t \in Step,
         step'[t].stage = step[t].stage, step[t].stage # "absent"
  PROVE  Stands(t)
<1>0. Shaped /\ \A r \in refs : r.step \in Step
    BY DEF ClustersInv, TypeOK
<1>1. ASSUME NEW a \in Actor, NEW rec, Writes(a, rec) PROVE Stands(t)
    BY <1>1 DEF Writes, Stands, Tables, RowsOf
<1>2. CASE Silent
    BY <1>2 DEF Silent, Stands, Tables, RowsOf
<1>3. ASSUME NEW s \in Step, Declare(s) \/ InsertNothing(s) PROVE Stands(t)
    <2>1. UNCHANGED <<refs, mixed>>
        BY <1>3 DEF Declare, InsertNothing, Tables, Rest
    <2>2. t # s
        <3>1. CASE Declare(s)
            <4>1. s = t => step'[t].stage = "ready"
                BY <1>0, <3>1 DEF Declare, Shaped
            <4> QED  BY <3>1, <4>1 DEF Declare
        <3>2. CASE InsertNothing(s)
            <4>1. s = t => step'[t].stage = "complete"
                BY <1>0, <3>2 DEF InsertNothing, Shaped, StepShaped
            <4> QED  BY <3>2, <4>1 DEF InsertNothing
        <3> QED  BY <1>3, <3>1, <3>2
    <2>3. step'[t] = step[t]
        BY <1>0, <1>3, <2>2 DEF Declare, InsertNothing, Shaped
    <2> QED  BY <2>1, <2>3 DEF Stands, RowsOf
<1>4. ASSUME NEW s \in Step, Commit(s) PROVE Stands(t)
    <2>1. /\ refs' = refs \cup tx[s].refs /\ mixed \subseteq mixed'
          /\ \A r \in tx[s].refs : r.step = s
        BY <1>4 DEF Commit, ClustersInv, TxOK, Refers, Actor
    <2>2. t # s
        <3>1. s = t => step'[t].stage = "complete"
            BY <1>0, <1>4 DEF Commit, Shaped, StepShaped
        <3> QED  BY <1>4, <3>1 DEF Commit
    <2>3. step'[t] = step[t]
        BY <1>0, <1>4, <2>2 DEF Commit, Shaped
    <2> QED  BY <2>1, <2>2, <2>3 DEF Stands, RowsOf
<1>5. ASSUME NEW s \in Step, DeleteStep(s) PROVE Stands(t)
    <2> DEFINE gone == {u \in Step : s \in Elements(Lineage[u])}
    <2>1. /\ step' = [u \in Step |-> IF u \in gone THEN Absent ELSE step[u]]
          /\ refs' = {r \in refs : r.step \notin gone} /\ mixed' = mixed
        BY <1>5 DEF DeleteStep
    <2> HIDE DEF gone
    <2>2. t \notin gone
        BY <2>1 DEF Absent
    <2> QED  BY <2>1, <2>2 DEF Stands, RowsOf
<1>6. ASSUME NEW j \in Judge, StoreJudgement(j) PROVE Stands(t)
    BY <1>6 DEF StoreJudgement, Stands, RowsOf
<1>7. CASE DeleteOrphans
    <2>1. /\ step' = step /\ mixed' = mixed
          /\ refs' = {r \in refs : r.cluster \notin prune.victims}
        BY <1>7 DEF DeleteOrphans
    <2>2. \A r \in refs : r.step = t /\ ~step[t].touched => r \in refs'
        BY <1>7, <2>1 DEF DeleteOrphans, ClustersInv, VictimsAreNew
    <2> QED  BY <2>1, <2>2 DEF Stands, RowsOf
<1> QED
    BY <1>1, <1>2, <1>3, <1>4, <1>5, <1>6, <1>7, Kinds

(* What is reliable after the step was so before.                          *)
LEMMA ReliableBefore ==
  ASSUME NEW t \in Step, Stands(t), Reliable(t)'
  PROVE  /\ Reliable(t) /\ ClustersOf(t)' = ClustersOf(t)
         /\ t \in Resolver => ClustersOf(t) \cap mixed' = {}
BY DEF Stands, Reliable, ClustersOf, RowsOf

(* The steps that a step is built on stay, if the step does.               *)
LEMMA UpstreamStands ==
  ASSUME ClustersInv, StoredInv, [Next]_vars, NEW s \in Step, StageOK(s)',
         step[s].stage # "absent", step'[s].stage # "absent"
  PROVE  \A t \in Upstream(s) : Stands(t) /\ step[t].stage = "complete"
<1>1. ASSUME NEW t \in Upstream(s) PROVE step[t].stage = "complete" /\ step'[t].stage = "complete"
    BY DEF StoredInv, StageOK, Upstream
<1>2. \A t \in Upstream(s) : t \in Step
    BY LineageShape
<1> QED
    BY <1>1, <1>2, StepStands

LEMMA RestsBefore ==
  ASSUME NEW s \in Step, \A t \in Upstream(s) : Stands(t), Rests(s)'
  PROVE  Rests(s) /\ Known(s)' = Known(s)
<1>1. \A t \in Upstream(s) : t \in Step
    BY LineageShape
<1>2. \A t \in Upstream(s) : Reliable(t)' /\ t \in Step
    BY <1>1 DEF Rests, Upstream
<1>3. \A t \in Upstream(s) : Reliable(t) /\ ClustersOf(t)' = ClustersOf(t)
    BY <1>2, ReliableBefore
<1>4. Known(s) = UNION {ClustersOf(t) : t \in Upstream(s) \ Model}
    BY DEF Known, ClustersOf
<1>5. Known(s)' = UNION {ClustersOf(t)' : t \in Upstream(s) \ Model}
    BY DEF Known, ClustersOf, Upstream
<1> QED
    BY <1>3, <1>4, <1>5 DEF Rests

-----------------------------------------------------------------------------
(***************************************************************************)
(* Stages.                                                                 *)
(***************************************************************************)
LEMMA StatementPCs ==
  ASSUME NEW a \in Actor, NEW rec, Becomes(a, rec), Shaped
  PROVE  tx'[a] = rec /\ \A b \in Actor \ {a} : tx'[b] = tx[b]
BY DEF Becomes, Shaped

LEMMA ReadyWrites ==
  ASSUME Shaped, StoredInv, [Next]_vars, UNCHANGED step, NEW s \in Step, tx'[s].pc # "idle"
  PROVE  step[s].stage # "complete"
<1>0. s \in Actor /\ StageOK(s)
    BY DEF Actor, StoredInv
<1>1. ASSUME NEW t \in Step, StepActions(t) PROVE step[s].stage # "complete"
    <2>1. CASE /\ \/ InsertHashes(t) \/ InsertKeys(t) \/ InsertEdges(t) \/ ComputeHashes(t)
                  \/ InsertClusters(t) \/ InsertContains(t) \/ InsertMembers(t)
               /\ t = s
        BY <1>0, <2>1 DEF InsertHashes, InsertKeys, InsertEdges, ComputeHashes, InsertClusters,
           InsertContains, InsertMembers, MayInsert, StageOK
    <2>2. CASE \/ Declare(t) \/ DeleteStep(t) \/ InsertNothing(t) \/ Commit(t)
               \/ /\ \/ InsertHashes(t) \/ InsertKeys(t) \/ InsertEdges(t) \/ ComputeHashes(t)
                     \/ InsertClusters(t) \/ InsertContains(t) \/ InsertMembers(t)
                  /\ t # s
        <3>1. tx'[s] = tx[s] \/ tx'[s] = NoTx
            BY <1>0, <2>2 DEF Declare, DeleteStep, InsertNothing, Commit, InsertHashes,
               InsertKeys, InsertEdges, ComputeHashes, InsertClusters, InsertContains,
               InsertMembers, Becomes, Shaped
        <3> QED  BY <1>0, <3>1 DEF NoTx, StageOK
    <2> QED  BY <1>1, <2>1, <2>2 DEF StepActions
<1>2. CASE UNCHANGED tx \/ (\E a \in Actor : Fail(a)) \/ (\E j \in Judge : JudgeActions(j))
    <2>1. ASSUME NEW j \in Judge, JudgeActions(j) PROVE tx'[s] = tx[s]
        <3>1. j # s
            BY ClustersAssumption
        <3>2. tx' = tx \/ \E rec : Becomes(j, rec)
            <4>1. GetOrCreate(j) => \E rec : Becomes(j, rec)
                BY DEF GetOrCreate
            <4>2. StoreJudgement(j) => Becomes(j, NoTx)
                BY DEF StoreJudgement
            <4> QED  BY <2>1, <4>1, <4>2 DEF JudgeActions, Sample
        <3> QED
            BY <1>0, <3>1, <3>2 DEF Becomes, Shaped
    <2>2. ASSUME NEW a \in Actor, Fail(a) PROVE tx'[s] = tx[s] \/ tx'[s] = NoTx
        BY <1>0, <2>2 DEF Fail, Becomes, Shaped
    <2> QED  BY <1>0, <1>2, <2>1, <2>2 DEF StageOK, NoTx
<1>3. CASE DeleteOrphans
    <2>1. tx'[s] = IF tx[s].pc = "idle" THEN NoTx ELSE [tx[s] EXCEPT !.touched = TRUE]
        BY <1>0, <1>3 DEF DeleteOrphans
    <2> QED  BY <1>0, <2>1 DEF StageOK, NoTx
<1> QED
    BY <1>1, <1>2, <1>3 DEF Next, FindOrphans, vars

LEMMA StageNext ==
  ASSUME ClustersInv, StoredInv, [Next]_vars, NEW s \in Step PROVE StageOK(s)'
<1>0. Shaped /\ s \in Actor /\ \A t \in Step : StageOK(t)
    BY DEF ClustersInv, Actor, StoredInv
<1>1. CASE UNCHANGED step
    BY <1>0, <1>1, ReadyWrites DEF StageOK
<1>2. ASSUME NEW t \in Step, Declare(t) PROVE StageOK(s)'
    <2>1. PICK rows \in Rows(t), groups \in Groups(t) :
            step' = [step EXCEPT ![t] = [stage |-> "ready", rows |-> rows,
                                         groups |-> groups,
                                         empty |-> FALSE, touched |-> FALSE]]
        BY <1>2 DEF Declare
    <2> DEFINE new == [stage |-> "ready", rows |-> rows, groups |-> groups,
                       empty |-> FALSE, touched |-> FALSE]
    <2>2. FullStep(new) /\ new.stage = "ready" /\ new.empty = FALSE
        BY DEF FullStep
    <2> HIDE DEF new
    <2>3. step'[t] = new /\ \A u \in Step \ {t} : step'[u] = step[u]
        BY <1>0, <2>1 DEF Shaped, new
    <2>4. tx' = tx /\ \A u \in Upstream(t) : step[u].stage = "complete" /\ u \in Step /\ u # t
        BY <1>2, LineageShape DEF Declare
    <2>5. CASE s = t
        BY <1>0, <2>2, <2>3, <2>4, <2>5 DEF StageOK, Upstream
    <2>6. CASE s # t
        <3>1. \A u \in Upstream(s) : u \in Step /\ (step[u].stage = "complete" => u # t)
            BY <1>2, LineageShape DEF Declare
        <3> QED  BY <1>0, <2>3, <2>4, <2>6, <3>1 DEF StageOK, Upstream
    <2> QED  BY <2>5, <2>6
<1>3. ASSUME NEW t \in Step, InsertNothing(t) \/ Commit(t) PROVE StageOK(s)'
    <2>1. /\ step'[t].stage = "complete" /\ FullStep(step'[t])
          /\ \A u \in Step \ {t} : step'[u] = step[u]
        <3>1. FullStep(step[t])
            BY <1>0 DEF StageOK
        <3> DEFINE e == step[t].rows \cup step[t].groups # {}
        <3>2. InsertNothing(t) => step'[t] = [step[t] EXCEPT !.stage = "complete", !.empty = e]
            BY <1>0, <3>1 DEF InsertNothing, Shaped, FullStep
        <3>3. Commit(t) =>
                step'[t] = [step[t] EXCEPT !.stage = "complete",
                              !.touched = tx[t].touched \/ prune.phase = "deleting"]
            BY <1>0, <3>1 DEF Commit, Shaped, FullStep
        <3>4. \A u \in Step \ {t} : step'[u] = step[u]
            BY <1>0, <1>3 DEF InsertNothing, Commit, Shaped
        <3> DEFINE v == tx[t].touched \/ prune.phase = "deleting"
        <3> HIDE DEF v, e
        <3>5. /\ [step[t] EXCEPT !.stage = "complete", !.empty = e].stage = "complete"
              /\ FullStep([step[t] EXCEPT !.stage = "complete", !.empty = e])
              /\ [step[t] EXCEPT !.stage = "complete", !.touched = v].stage = "complete"
              /\ FullStep([step[t] EXCEPT !.stage = "complete", !.touched = v])
            BY <3>1 DEF FullStep
        <3> QED  BY <1>3, <3>2, <3>3, <3>4, <3>5 DEF v, e
    <2>2. step[t].stage = "ready"
        BY <1>3 DEF InsertNothing, Commit
    <2>3. tx'[t].pc = "idle" /\ \A u \in Step \ {t} : tx'[u] = tx[u]
        <3>1. t \in Actor /\ \A u \in Step \ {t} : u \in Actor
            BY DEF Actor
        <3> QED
            BY <1>0, <1>3, <3>1 DEF InsertNothing, Commit, Becomes, Shaped, NoTx
    <2>4. \A u \in Upstream(s) : u \in Step
        BY LineageShape
    <2> QED  BY <1>0, <2>1, <2>2, <2>3, <2>4 DEF StageOK, Upstream
<1>4. ASSUME NEW t \in Step, DeleteStep(t) PROVE StageOK(s)'
    <2> DEFINE gone == {u \in Step : t \in Elements(Lineage[u])}
    <2>1. tx' = tx /\ \A u \in Step : step'[u] = IF u \in gone THEN Absent ELSE step[u]
        BY <1>4 DEF DeleteStep
    <2>2. FullStep(Absent) /\ Absent.stage = "absent" /\ Absent.empty = FALSE
        BY DEF Absent, FullStep
    <2>3. \A u \in Upstream(s) : u \in Step /\ (u \in gone => s \in gone)
        BY LineageShape
    <2> HIDE DEF gone
    <2>4. CASE s \in gone
        BY <2>1, <2>2, <2>4 DEF StageOK
    <2>5. CASE s \notin gone
        BY <1>0, <2>1, <2>3, <2>5 DEF StageOK, Upstream
    <2> QED  BY <2>4, <2>5
<1> QED
    BY <1>1, <1>2, <1>3, <1>4, Kinds
    DEF Writes, Silent, StoreJudgement, DeleteOrphans

-----------------------------------------------------------------------------
(***************************************************************************)
(* Where transactions are.                                                 *)
(***************************************************************************)
LEMMA KindsApart ==
  /\ \A s \in Source : s \notin Model /\ s \notin Resolver /\ s \notin Judge /\ s \in Actor
  /\ \A s \in Model : s \notin Source /\ s \notin Resolver /\ s \notin Judge /\ s \in Actor
  /\ \A s \in Resolver : s \notin Source /\ s \notin Model /\ s \notin Judge /\ s \in Actor
  /\ \A s \in Judge : s \notin Source /\ s \notin Model /\ s \notin Resolver /\ s \in Actor
BY ClustersAssumption DEF Step, Actor

LEMMA BlankPhase == ASSUME NEW a PROVE Phase(a, NoTx)
BY DEF Phase, NoTx, FullTx

LEMMA RootHash == ASSUME NEW S PROVE IsRootHash(HashOfLeaves(S))
BY DEF IsRootHash, HashOfLeaves

LEMMA NewHash ==
  ASSUME NEW a, NEW hashes, CanAdd(a, hashes), NEW h \in Missing(a, hashes)
  PROVE  NewCluster(h).hash = h
<1>1. \E c \in Ids(h) : c \notin used
    BY DEF CanAdd
<1>2. NewCluster(h) \in Ids(h)
    BY <1>1 DEF NewCluster
<1> QED
    BY <1>2 DEF Ids

LEMMA StatementPhase ==
  ASSUME Shaped, StoredInv, NEW s \in Step,
         \/ InsertHashes(s) \/ InsertKeys(s) \/ InsertEdges(s) \/ ComputeHashes(s)
         \/ InsertClusters(s) \/ InsertContains(s) \/ InsertMembers(s)
  PROVE  Phase(s, tx'[s])
<1>0. s \in Actor /\ Phase(s, tx[s]) /\ DeclaredOK(s) /\ FullTx(tx[s]) /\ FullTx(NoTx)
    BY DEF Actor, StoredInv, Phase, NoTx, FullTx
<1>1. CASE InsertHashes(s)
    <2> DEFINE new == Added(s, step[s].rows)
    <2>1. tx'[s] = [NoTx EXCEPT !.pc = "keys", !.clusters = new]
        BY <1>0, <1>1 DEF InsertHashes, Becomes, Shaped
    <2>2. s \in Source
        BY <1>0, <1>1 DEF InsertHashes, DeclaredOK
    <2> HIDE DEF new
    <2> QED  BY <2>1, <2>2, KindsApart DEF Phase, NoTx, FullTx
<1>2. CASE InsertKeys(s)
    <2> DEFINE new == {[step |-> s, cluster |-> c] : c \in Mapped(s, step[s].rows)}
    <2>1. tx'[s] = [tx[s] EXCEPT !.pc = "commit", !.refs = new]
        BY <1>0, <1>2 DEF InsertKeys, Becomes, Shaped
    <2>2. s \in Source
        BY <1>0, <1>2 DEF InsertKeys, Phase, Step
    <2> HIDE DEF new
    <2> QED  BY <1>0, <2>1, <2>2, KindsApart DEF Phase, FullTx
<1>3. CASE InsertEdges(s)
    <2> DEFINE new == {[step |-> s, cluster |-> c] : c \in UNION step[s].groups}
    <2>1. tx'[s] = [NoTx EXCEPT !.pc = "commit", !.refs = new] /\ s \in Model
        BY <1>0, <1>3 DEF InsertEdges, Becomes, Shaped
    <2> HIDE DEF new
    <2> QED  BY <2>1, KindsApart DEF Phase, NoTx, FullTx
<1>4. CASE ComputeHashes(s)
    <2> DEFINE known(g) == Expanded(s, g) \cap clusters
               new == {[group |-> g, hash |-> HashOfLeaves(known(g))] :
                         g \in {h \in step[s].groups : known(h) # {}}}
    <2>1. tx'[s] = [NoTx EXCEPT !.pc = "clusters", !.hashes = new] /\ s \in Resolver
        BY <1>0, <1>4 DEF ComputeHashes, Becomes, Shaped
    <2>2. ASSUME NEW h \in new PROVE IsRootHash(h.hash)
        <3>1. PICK g : h = [group |-> g, hash |-> HashOfLeaves(known(g))]
            OBVIOUS
        <3> QED  BY <3>1, RootHash
    <2> HIDE DEF new
    <2> QED  BY <2>1, <2>2, KindsApart DEF Phase, NoTx, FullTx
<1>5. CASE InsertClusters(s)
    <2> DEFINE new == Added(s, HashesOf(s))
    <2>1. tx'[s] = [tx[s] EXCEPT !.pc = "contains", !.clusters = new]
        BY <1>0, <1>5 DEF InsertClusters, Becomes, Shaped
    <2>2. s \in Resolver
        BY <1>0, <1>5 DEF InsertClusters, Phase, Step
    <2> HIDE DEF new
    <2> QED  BY <1>0, <1>5, <2>1, <2>2, KindsApart DEF Phase, FullTx, InsertClusters
<1>6. CASE InsertContains(s)
    <2> DEFINE rows(h) == {[root |-> c, leaf |-> l] :
                             c \in Mapped(s, {h.hash}), l \in Expanded(s, h.group)}
               new == UNION {rows(h) : h \in tx[s].hashes}
    <2>1. tx'[s] = [tx[s] EXCEPT !.pc = "members", !.contains = new]
        BY <1>0, <1>6 DEF InsertContains, Becomes, Shaped
    <2>2. s \in Resolver
        BY <1>0, <1>6 DEF InsertContains, Phase, Step
    <2>3. ASSUME NEW d \in new PROVE IsRootHash(d.root.hash)
        <3>1. PICK h \in tx[s].hashes : d \in rows(h)
            OBVIOUS
        <3>2. d.root \in Mapped(s, {h.hash})
            BY <3>1
        <3> QED  BY <1>0, <3>2 DEF Mapped, Phase
    <2> HIDE DEF new
    <2> QED  BY <1>0, <2>1, <2>2, <2>3, KindsApart DEF Phase, FullTx
<1>7. CASE InsertMembers(s)
    <2> DEFINE new == {[step |-> s, cluster |-> c] : c \in Mapped(s, HashesOf(s))}
    <2>1. tx'[s] = [tx[s] EXCEPT !.pc = "commit", !.refs = new]
        BY <1>0, <1>7 DEF InsertMembers, Becomes, Shaped
    <2>2. s \in Resolver
        BY <1>0, <1>7 DEF InsertMembers, Phase, Step
    <2> HIDE DEF new
    <2> QED  BY <1>0, <2>1, <2>2, KindsApart DEF Phase, FullTx
<1> QED
    BY <1>1, <1>2, <1>3, <1>4, <1>5, <1>6, <1>7

LEMMA GetOrCreatePhase ==
  ASSUME Shaped, StoredInv, NEW j \in Judge, GetOrCreate(j) PROVE Phase(j, tx'[j])
<1> PICK endorsed \in Partitions(item[j]) :
      LET groups == {item[j]} \cup endorsed
          hashes == {HashOfLeaves(g) : g \in groups}
          created == {g \in groups : HashOfLeaves(g) \in Missing(j, hashes)}
      IN /\ CanAdd(j, hashes)
         /\ Becomes(j, [NoTx EXCEPT !.pc = "store", !.endorsed = endorsed,
              !.clusters = Added(j, hashes),
              !.contains = UNION {{[root |-> NewCluster(HashOfLeaves(g)), leaf |-> l] :
                                     l \in g} : g \in created}])
    BY DEF GetOrCreate
<1> DEFINE groups == {item[j]} \cup endorsed
           hashes == {HashOfLeaves(g) : g \in groups}
           created == {g \in groups : HashOfLeaves(g) \in Missing(j, hashes)}
           rows(g) == {[root |-> NewCluster(HashOfLeaves(g)), leaf |-> l] : l \in g}
           new == UNION {rows(g) : g \in created}
           added == Added(j, hashes)
<1>1. tx'[j] = [NoTx EXCEPT !.pc = "store", !.endorsed = endorsed,
                            !.clusters = added, !.contains = new]
    BY KindsApart DEF Becomes, Shaped
<1>2. ASSUME NEW d \in new
      PROVE  IsRootHash(d.root.hash) /\ d.leaf.hash \in d.root.hash.leaves
    <2>1. PICK g \in created : d \in rows(g)
        OBVIOUS
    <2>2. d.root.hash = HashOfLeaves(g) /\ d.leaf \in g
        BY <2>1, NewHash
    <2> QED  BY <2>2, RootHash DEF HashOfLeaves
<1> HIDE DEF new, added
<1> QED
    BY <1>1, <1>2, KindsApart DEF Phase, NoTx, FullTx

LEMMA PhaseNext ==
  ASSUME Shaped, StoredInv, [Next]_vars PROVE \A a \in Actor : Phase(a, tx'[a])
<1>0. \A a \in Actor : Phase(a, tx[a])
    BY DEF StoredInv
<1>1. ASSUME NEW a \in Actor, NEW rec, Becomes(a, rec), Phase(a, tx'[a])
      PROVE  \A b \in Actor : Phase(b, tx'[b])
    <2>1. \A b \in Actor \ {a} : tx'[b] = tx[b]
        BY <1>1, StatementPCs
    <2> QED  BY <1>0, <1>1, <2>1
<1>2. ASSUME NEW a \in Actor, Becomes(a, NoTx) PROVE \A b \in Actor : Phase(b, tx'[b])
    <2>1. tx'[a] = NoTx
        BY <1>2, StatementPCs
    <2> QED  BY <1>1, <1>2, <2>1, BlankPhase
<1>3. CASE UNCHANGED tx
    BY <1>0, <1>3
<1>4. ASSUME NEW s \in Step, StepActions(s) PROVE \A b \in Actor : Phase(b, tx'[b])
    <2>1. CASE \/ InsertHashes(s) \/ InsertKeys(s) \/ InsertEdges(s) \/ ComputeHashes(s)
               \/ InsertClusters(s) \/ InsertContains(s) \/ InsertMembers(s)
        <3>1. PICK rec : Writes(s, rec)
            BY <2>1, Statements
        <3> QED  BY <1>1, <2>1, <3>1, StatementPhase DEF Writes, Actor
    <2>2. CASE Declare(s) \/ DeleteStep(s) \/ InsertNothing(s)
        BY <1>3, <2>2 DEF Declare, DeleteStep, InsertNothing
    <2>3. CASE Commit(s)
        BY <1>2, <2>3 DEF Commit, Actor
    <2> QED  BY <1>4, <2>1, <2>2, <2>3 DEF StepActions
<1>5. ASSUME NEW j \in Judge, JudgeActions(j) PROVE \A b \in Actor : Phase(b, tx'[b])
    <2>1. CASE Sample(j)
        BY <1>3, <2>1 DEF Sample
    <2>2. CASE GetOrCreate(j)
        <3>1. \E rec : Becomes(j, rec)
            BY <2>2 DEF GetOrCreate
        <3> QED  BY <1>1, <2>2, <3>1, GetOrCreatePhase DEF Actor
    <2>3. CASE StoreJudgement(j)
        BY <1>2, <2>3 DEF StoreJudgement, Actor
    <2> QED  BY <1>5, <2>1, <2>2, <2>3 DEF JudgeActions
<1>6. ASSUME NEW a \in Actor, Fail(a) PROVE \A b \in Actor : Phase(b, tx'[b])
    BY <1>2, <1>6 DEF Fail
<1>7. CASE DeleteOrphans
    <2>1. ASSUME NEW a \in Actor PROVE Phase(a, tx'[a])
        <3>1. tx'[a] = IF tx[a].pc = "idle" THEN NoTx ELSE [tx[a] EXCEPT !.touched = TRUE]
            BY <1>7 DEF DeleteOrphans
        <3>2. tx[a].pc # "idle" => Phase(a, [tx[a] EXCEPT !.touched = TRUE])
            BY <1>0 DEF Phase, FullTx
        <3> QED  BY <3>1, <3>2, BlankPhase
    <2> QED  BY <2>1
<1> QED
    BY <1>3, <1>4, <1>5, <1>6, <1>7 DEF Next, FindOrphans, vars

-----------------------------------------------------------------------------
(***************************************************************************)
(* The leaves of the clusters that a step is built on stay.                *)
(***************************************************************************)
LEMMA RootsNext ==
  ASSUME ClustersInv, StoredInv, [Next]_vars PROVE RootsOK'
<1>1. CASE contains' \subseteq contains /\ mixed' = mixed
    BY <1>1 DEF StoredInv, RootsOK
<1>2. ASSUME NEW j \in Judge, StoreJudgement(j) PROVE RootsOK'
    <2>1. contains' = contains \cup tx[j].contains /\ mixed' = mixed
        BY <1>2 DEF StoreJudgement
    <2>2. Phase(j, tx[j])
        BY DEF StoredInv, Actor
    <2> QED  BY <2>1, <2>2 DEF StoredInv, RootsOK, Phase
<1>3. ASSUME NEW s \in Step, Commit(s) PROVE RootsOK'
    <2> DEFINE reliable == /\ ~(tx[s].touched \/ prune.phase = "deleting")
                           /\ \A t \in Upstream(s) : Reliable(t)
    <2>1. /\ contains' = contains \cup tx[s].contains /\ mixed \subseteq mixed'
          /\ reliable \/ \A d \in tx[s].contains : d.root \in mixed'
          /\ tx[s].pc = "commit" /\ step[s].stage = "ready"
        BY <1>3 DEF Commit
    <2>2. Phase(s, tx[s]) /\ UploadOK(s)
        BY DEF StoredInv, Actor
    <2>3. ASSUME NEW d \in tx[s].contains, reliable PROVE d.leaf.hash \in d.root.hash.leaves
        <3>1. Uploading(s) /\ s \in Resolver
            BY <2>1, <2>2, <2>3 DEF UploadOK, Rests, Phase, Step
        <3>2. PICK g \in step[s].groups :
                d.root.hash = HashOfLeaves(LeavesOf(g)) /\ d.leaf \in LeavesOf(g)
            BY <2>1, <2>3, <3>1 DEF Uploading, ContainsRight
        <3> QED  BY <3>2 DEF HashOfLeaves
    <2>4. \A d \in tx[s].contains : IsRootHash(d.root.hash)
        BY <2>2 DEF Phase
    <2> HIDE DEF reliable
    <2> QED  BY <2>1, <2>3, <2>4 DEF StoredInv, RootsOK
<1>4. Silent \/ (\E a \in Actor : \E rec : Writes(a, rec)) \/ DeleteOrphans
      \/ (\E s \in Step : Declare(s) \/ DeleteStep(s) \/ InsertNothing(s))
      => contains' \subseteq contains /\ mixed' = mixed
    BY DEF Silent, Writes, Tables, DeleteOrphans, Declare, DeleteStep, InsertNothing, Rest
<1> QED
    BY <1>1, <1>2, <1>3, <1>4, Kinds

(* Rows are added to contains and clusters, or delete_orphans is at work.  *)
LEMMA TablesGrow ==
  ASSUME [Next]_vars
  PROVE  (contains \subseteq contains' /\ clusters \subseteq clusters') \/ DeleteOrphans
<1>1. ASSUME NEW s \in Step, Declare(s) \/ DeleteStep(s) \/ InsertNothing(s) \/ Commit(s)
      PROVE  contains \subseteq contains' /\ clusters \subseteq clusters'
    BY <1>1 DEF Declare, DeleteStep, InsertNothing, Commit, Tables
<1>2. ASSUME NEW j \in Judge, StoreJudgement(j)
      PROVE  contains \subseteq contains' /\ clusters \subseteq clusters'
    BY <1>2 DEF StoreJudgement
<1> QED
    BY <1>1, <1>2, Kinds DEF Silent, Writes, Tables

(* A cluster that a step refers to without having been touched is no       *)
(* victim.                                                                 *)
LEMMA NoVictim ==
  ASSUME ClustersInv, DeleteOrphans, NEW t \in Step, ~step[t].touched, NEW c \in ClustersOf(t)
  PROVE  c \notin prune.victims
BY DEF ClustersInv, VictimsAreNew, ClustersOf, DeleteOrphans

(* Keys of rows contain nothing.                                           *)
LEMMA KeysAreLeaves ==
  ASSUME NEW table, NEW c, IsRowHash(c.hash),
         \A d \in table : IsRootHash(d.root.hash)
  PROVE  Leaves(table, c) = {}
<1>1. ASSUME NEW h, IsRowHash(h), IsRootHash(h) PROVE FALSE
    <2>1. DOMAIN h = {"row"} /\ DOMAIN h = {"leaves"}
        BY <1>1 DEF IsRowHash, IsRootHash
    <2> QED  BY <2>1
<1>2. \A d \in table : d.root # c
    BY <1>1
<1> QED
    BY <1>2 DEF Leaves

(* All of the leaves of a cluster of a sound step stay, and no others come.*)
LEMMA LeavesStand ==
  ASSUME ClustersInv, ClustersInv', StoredInv, [Next]_vars,
         NEW t \in Source \cup Resolver, Stands(t), Sound(t), Reliable(t)',
         NEW c \in ClustersOf(t)
  PROVE  Leaves(contains, c)' = Leaves(contains, c)
<1>0. t \in Step /\ RootsOK /\ RootsOK'
    BY RootsNext DEF Step, StoredInv
<1>1. CASE t \in Source
    <2>1. c.hash \in step[t].rows
        BY <1>0, <1>1 DEF StoredInv, NothingLost, AsDeclared
    <2>2. IsRowHash(c.hash)
        BY <1>0, <2>1 DEF StoredInv, DeclaredOK
    <2>3. \A d \in contains \cup contains' : IsRootHash(d.root.hash)
        BY <1>0 DEF RootsOK
    <2>4. Leaves(contains, c) = {}
        BY <2>2, <2>3, KeysAreLeaves
    <2>5. Leaves(contains', c) = {}
        BY <2>2, <2>3, KeysAreLeaves
    <2> QED  BY <2>4, <2>5
<1>2. CASE t \in Resolver
    <2>1. c.hash = HashOfLeaves(Leaves(contains, c)) /\ Leaves(contains, c) \subseteq Known(t)
        BY <1>0, <1>2 DEF StoredInv, NothingLost, AsDeclared, LeavesHeld
    <2>2. c \notin mixed'
        BY <1>0, <1>2, ReliableBefore
    <2>3. \A u \in Upstream(t) : u \in Step /\ ~step[u].touched
        BY <1>0, LineageShape DEF Sound, Reliable
    <2>4. ~step[t].touched
        BY <1>0, LineageShape DEF Sound, Reliable
    <2>5. ASSUME NEW d \in contains, d.root = c PROVE d \in contains'
        <3>1. CASE DeleteOrphans
            <4>1. c \notin prune.victims
                BY <1>0, <2>4, <3>1, NoVictim
            <4>2. d.leaf \in Known(t)
                BY <2>1, <2>5 DEF Leaves
            <4>3. PICK u \in Upstream(t) : d.leaf \in ClustersOf(u)
                BY <4>2 DEF Known, ClustersOf
            <4>4. d.leaf \notin prune.victims
                BY <2>3, <3>1, <4>3, NoVictim
            <4> QED  BY <2>5, <3>1, <4>1, <4>4 DEF DeleteOrphans
        <3> QED  BY <3>1, TablesGrow
    <2>6. ASSUME NEW d \in contains', d.root = c, d \notin contains
          PROVE  d.leaf \in Leaves(contains, c)
        <3>1. clusters \subseteq clusters'
            BY <2>6, TablesGrow DEF DeleteOrphans
        <3>2. d.leaf.hash \in c.hash.leaves
            BY <1>0, <2>2, <2>6 DEF RootsOK
        <3>3. PICK l \in Leaves(contains, c) : l.hash = d.leaf.hash
            BY <2>1, <3>2 DEF HashOfLeaves
        <3>4. l \in clusters' /\ d.leaf \in clusters'
            BY <2>6, <3>1, <3>3 DEF Leaves, ClustersInv, TypeOK
        <3>5. l = d.leaf
            BY <3>3, <3>4 DEF ClustersInv, TypeOK
        <3> QED  BY <3>3, <3>5
    <2> QED
        BY <2>5, <2>6 DEF Leaves
<1> QED
    BY <1>1, <1>2

-----------------------------------------------------------------------------
(***************************************************************************)
(* The groups of a step, with the leaves of their clusters.                *)
(***************************************************************************)
LEMMA UpstreamSound ==
  ASSUME StoredInv, NEW s \in Step, step[s].stage # "absent", Rests(s)
  PROVE  \A t \in Upstream(s) : t \in Step /\ Sound(t) /\ Known(t) \subseteq Known(s)
<1>1. ASSUME NEW t \in Upstream(s)
      PROVE  t \in Step /\ Elements(Lineage[t]) \subseteq Upstream(s)
    BY LineageShape
<1>2. \A t \in Upstream(s) : step[t].stage = "complete"
    BY DEF StoredInv, StageOK
<1>3. \A t \in Upstream(s) : Upstream(t) \subseteq Upstream(s)
    BY LineageShape
<1> QED
    BY <1>1, <1>2, <1>3 DEF Sound, Rests, Known

LEMMA KnownFrom ==
  ASSUME NEW s \in Step, NEW x \in Known(s)
  PROVE  \E t \in Upstream(s) : t \in Source \cup Resolver /\ t \in Step /\ x \in ClustersOf(t)
<1>1. PICK r \in refs : r.step \in Upstream(s) \ Model /\ r.cluster = x
    BY DEF Known
<1>2. r.step \in Step /\ r.step \in Source \cup Resolver
    BY <1>1, LineageShape DEF Step
<1> QED
    BY <1>1, <1>2 DEF ClustersOf

LEMMA GroupLeaves ==
  ASSUME ClustersInv, StoredInv, NEW s \in Step, step[s].stage # "absent", Rests(s),
         NEW g \in step[s].groups
  PROVE  /\ g \subseteq Known(s) /\ LeavesOf(g) \subseteq Known(s) /\ Known(s) \subseteq clusters
         /\ g # {} => LeavesOf(g) # {}
<1>1. g \subseteq Known(s)
    BY DEF StoredInv, DeclaredOK
<1>2. Known(s) \subseteq clusters
    BY DEF Known, ClustersInv, TypeOK
<1>3. ASSUME NEW x \in g, NEW l \in Leaves(contains, x) PROVE l \in Known(s)
    <2>1. PICK t \in Upstream(s) : t \in Source \cup Resolver /\ t \in Step /\ x \in ClustersOf(t)
        BY <1>1, <1>3, KnownFrom
    <2>2. Sound(t) /\ Known(t) \subseteq Known(s)
        BY UpstreamSound
    <2>3. CASE t \in Source
        <3>1. x.hash \in step[t].rows
            BY <2>1, <2>2, <2>3 DEF StoredInv, NothingLost, AsDeclared
        <3>2. IsRowHash(x.hash) /\ \A d \in contains : IsRootHash(d.root.hash)
            BY <2>1, <3>1 DEF StoredInv, DeclaredOK, RootsOK
        <3> QED  BY <1>3, <3>2, KeysAreLeaves
    <2>4. CASE t \in Resolver
        BY <1>3, <2>1, <2>2, <2>4 DEF StoredInv, LeavesHeld
    <2> QED  BY <2>1, <2>3, <2>4
<1>4. LeavesOf(g) \subseteq Known(s)
    BY <1>1, <1>3 DEF LeavesOf
<1>5. g # {} => LeavesOf(g) # {}
    BY DEF LeavesOf
<1> QED
    BY <1>1, <1>2, <1>4, <1>5

LEMMA GroupsStand ==
  ASSUME ClustersInv, ClustersInv', StoredInv, [Next]_vars, NEW s \in Step,
         step[s].stage # "absent", step'[s].stage # "absent", Rests(s)'
  PROVE  /\ Rests(s) /\ Known(s)' = Known(s)
         /\ \A g \in step[s].groups : LeavesOf(g)' = LeavesOf(g)
<1>1. \A t \in Upstream(s) : Stands(t) /\ step[t].stage = "complete"
    BY StageNext, UpstreamStands
<1>2. Rests(s) /\ Known(s)' = Known(s)
    BY <1>1, RestsBefore
<1>3. ASSUME NEW g \in step[s].groups, NEW x \in g
      PROVE  Leaves(contains, x)' = Leaves(contains, x)
    <2>1. x \in Known(s)
        BY <1>2 DEF StoredInv, DeclaredOK
    <2>2. PICK t \in Upstream(s) : t \in Source \cup Resolver /\ t \in Step /\ x \in ClustersOf(t)
        BY <2>1, KnownFrom
    <2>3. Sound(t) /\ Reliable(t)'
        BY <1>2, UpstreamSound DEF Rests, Upstream
    <2> QED  BY <1>1, <2>2, <2>3, LeavesStand
<1>4. ASSUME NEW g \in step[s].groups PROVE LeavesOf(g)' = LeavesOf(g)
    <2> DEFINE now(x) == IF Leaves(contains, x) = {} THEN {x} ELSE Leaves(contains, x)
    <2>1. \A x \in g : now(x)' = now(x)
        BY <1>3
    <2>2. LeavesOf(g) = UNION {now(x) : x \in g}
        BY DEF LeavesOf
    <2>3. LeavesOf(g)' = UNION {now(x)' : x \in g}
        BY DEF LeavesOf
    <2> QED  BY <2>1, <2>2, <2>3
<1> QED
    BY <1>2, <1>4

-----------------------------------------------------------------------------
(***************************************************************************)
(* What a step declares.                                                   *)
(***************************************************************************)
LEMMA RowsOfKeys == ASSUME NEW lineage, NEW s \in Step, Elements(lineage) \subseteq Upstream(s)
                    PROVE  Keys(lineage) \subseteq Known(s)
BY KindsApart DEF Keys, Known

LEMMA VisibleKnown ==
  ASSUME NEW lineage, NEW s \in Step, Elements(lineage) \subseteq Upstream(s)
  PROVE  Visible(lineage) \subseteq Known(s)
<1>1. ASSUME NEW l \in Keys(lineage), NEW x \in Projected(lineage, l) PROVE x \in Known(s)
    <2>1. x = l \/ \E i \in 1..Len(lineage) : lineage[i] \in Resolver /\ x \in Roots(lineage[i], l)
        BY <1>1 DEF Projected
    <2>2. l \in Known(s)
        BY RowsOfKeys
    <2>3. ASSUME NEW i \in 1..Len(lineage), lineage[i] \in Resolver, x \in Roots(lineage[i], l)
          PROVE  x \in Known(s)
        <3>1. lineage[i] \in Upstream(s) \ Model
            BY <2>3, KindsApart DEF Elements
        <3>2. [step |-> lineage[i], cluster |-> x] \in refs
            BY <2>3 DEF Roots
        <3> QED  BY <3>1, <3>2 DEF Known
    <2> QED  BY <2>1, <2>2, <2>3
<1>2. ASSUME NEW v \in Visible(lineage) PROVE v \in Known(s)
    <2>1. PICK q \in Answer(lineage) : q.root = v
        BY <1>2 DEF Visible
    <2>2. PICK l \in Keys(lineage) : q \in {[leaf |-> l, root |-> r] : r \in Projected(lineage, l)}
        BY <2>1 DEF Answer
    <2> QED  BY <1>1, <2>1, <2>2
<1> QED
    BY <1>2

LEMMA ComponentsOf ==
  ASSUME NEW edges, NEW g \in Components(edges) PROVE g # {} /\ g \subseteq UNION edges
BY DEF Components

(* The groups that are declared are made of known clusters.                *)
LEMMA GroupsKnown ==
  ASSUME StoredInv, NEW s \in Step, \A t \in Upstream(s) : step[t].stage = "complete",
         Rests(s), NEW groups \in Groups(s), NEW g \in groups
  PROVE  s \notin Source /\ g \subseteq Known(s) /\ (s \in Resolver => g # {})
<1>1. CASE s \in Source
    BY <1>1, KindsApart DEF Groups
<1>2. CASE s \in Model
    <2>1. groups \subseteq Pairs(s)
        BY <1>2, KindsApart DEF Groups
    <2>2. /\ Elements(Left[s]) \subseteq Upstream(s) /\ Elements(Right[s]) \subseteq Upstream(s)
          /\ s \notin Source /\ s \notin Resolver
        BY <1>2, ClustersAssumption
    <2>3. g \subseteq Visible(Left[s]) \cup Visible(Right[s])
        BY <2>1 DEF Pairs
    <2> QED  BY <2>2, <2>3, VisibleKnown
<1>3. CASE s \in Resolver
    <2>1. g \in Components(Edges(s)) /\ s \notin Source
        BY <1>3, KindsApart DEF Groups
    <2>2. g # {} /\ g \subseteq UNION Edges(s)
        BY <2>1, ComponentsOf
    <2>3. ASSUME NEW x \in g PROVE x \in Known(s)
        <3>1. PICK m \in Inputs[s] : \E e \in step[m].groups : x \in e
            BY <2>2 DEF Edges
        <3>2. m \in Upstream(s) /\ m \in Step
            BY <3>1, ClustersAssumption, LineageShape
        <3>3. Upstream(m) \subseteq Upstream(s) /\ Rests(m)
            BY <3>2, LineageShape DEF Rests
        <3>4. x \in Known(m)
            BY <3>1, <3>2, <3>3 DEF StoredInv, DeclaredOK
        <3> QED  BY <3>3, <3>4 DEF Known
    <2> QED  BY <2>1, <2>2, <2>3
<1> QED
    BY <1>1, <1>2, <1>3 DEF Step

LEMMA RowsDeclared ==
  ASSUME NEW s \in Step, NEW rows \in Rows(s)
  PROVE  (s \notin Source => rows = {}) /\ \A h \in rows : IsRowHash(h)
BY DEF Rows, HashOfRow, IsRowHash

(* A step goes on with what it declared, goes, or comes.                   *)
LEMMA StepMoves ==
  ASSUME ClustersInv, StoredInv, [Next]_vars, NEW s \in Step
  PROVE  \/ step'[s].rows = step[s].rows /\ step'[s].groups = step[s].groups
            /\ (step'[s].stage = "absent" <=> step[s].stage = "absent")
         \/ step'[s] = Absent
         \/ Declare(s)
<1>0. Shaped /\ \A t \in Step : StageOK(t)
    BY DEF ClustersInv, StoredInv
<1>1. ASSUME NEW t \in Step, InsertNothing(t) \/ Commit(t)
      PROVE  step'[s].rows = step[s].rows /\ step'[s].groups = step[s].groups
             /\ (step'[s].stage = "absent" <=> step[s].stage = "absent")
    <2>1. CASE s # t
        <3>1. step'[s] = step[s]
            BY <1>0, <1>1, <2>1 DEF InsertNothing, Commit, Shaped
        <3> QED  BY <3>1
    <2>2. CASE s = t
        <3> DEFINE v == tx[t].touched \/ prune.phase = "deleting"
                   e == step[t].rows \cup step[t].groups # {}
        <3>1. FullStep(step[s]) /\ step[s].stage = "ready"
            BY <1>0, <1>1, <2>2 DEF StageOK, InsertNothing, Commit
        <3>2. \/ step'[s] = [step[s] EXCEPT !.stage = "complete", !.empty = e]
              \/ step'[s] = [step[s] EXCEPT !.stage = "complete", !.touched = v]
            BY <1>0, <1>1, <2>2, <3>1 DEF InsertNothing, Commit, Shaped, FullStep
        <3> HIDE DEF v, e
        <3> QED  BY <3>1, <3>2 DEF FullStep
    <2> QED  BY <2>1, <2>2
<1>2. ASSUME NEW t \in Step, Declare(t), t # s PROVE step'[s] = step[s]
    BY <1>0, <1>2 DEF Declare, Shaped
<1>3. ASSUME NEW t \in Step, DeleteStep(t) PROVE step'[s] = step[s] \/ step'[s] = Absent
    <2> DEFINE gone == {u \in Step : t \in Elements(Lineage[u])}
    <2>1. step' = [u \in Step |-> IF u \in gone THEN Absent ELSE step[u]]
        BY <1>3 DEF DeleteStep
    <2> QED  BY <2>1
<1>4. Silent \/ (\E a \in Actor : \E rec : Writes(a, rec)) \/ DeleteOrphans
      \/ (\E j \in Judge : StoreJudgement(j)) => step' = step
    BY DEF Silent, Writes, DeleteOrphans, StoreJudgement
<1> QED
    BY <1>1, <1>2, <1>3, <1>4, Kinds

LEMMA DeclaredNext ==
  ASSUME ClustersInv, ClustersInv', StoredInv, [Next]_vars, NEW s \in Step
  PROVE  DeclaredOK(s)'
<1>0. Shaped /\ StageOK(s) /\ DeclaredOK(s)
    BY DEF ClustersInv, StoredInv
<1>1. CASE step'[s] = Absent
    BY <1>1 DEF DeclaredOK, Absent
<1>2. CASE Declare(s)
    <2>1. PICK rows \in Rows(s), groups \in Groups(s) :
            step' = [step EXCEPT ![s] = [stage |-> "ready", rows |-> rows,
                                         groups |-> groups,
                                         empty |-> FALSE, touched |-> FALSE]]
        BY <1>2 DEF Declare
    <2>2. /\ step'[s].rows = rows /\ step'[s].groups = groups
          /\ \A t \in Step \ {s} : step'[t] = step[t]
        BY <1>0, <2>1 DEF Shaped
    <2>3. /\ \A t \in Upstream(s) : step[t].stage = "complete" /\ t \in Step /\ t # s
          /\ refs' = refs /\ mixed' = mixed
        BY <1>2, LineageShape DEF Declare
    <2>4. Rests(s)' => Rests(s)
        BY <2>2, <2>3 DEF Rests, Reliable, ClustersOf, Upstream
    <2>5. Known(s)' = Known(s)
        BY <2>3 DEF Known, Upstream
    <2>6. ASSUME NEW g \in groups, Rests(s) PROVE g \subseteq Known(s)
        BY <2>3, <2>6, GroupsKnown
    <2>7. s \in Source => groups = {}
        BY <2>1, KindsApart DEF Groups
    <2>8. s \in Resolver => {} \notin groups
        BY <2>1, KindsApart, ComponentsOf DEF Groups
    <2> QED
        BY <2>2, <2>4, <2>5, <2>6, <2>7, <2>8, RowsDeclared DEF DeclaredOK
<1>3. CASE /\ step'[s].rows = step[s].rows /\ step'[s].groups = step[s].groups
           /\ step[s].stage # "absent" /\ step'[s].stage # "absent"
    <2>1. Rests(s)' => Rests(s) /\ Known(s)' = Known(s)
        BY <1>3, GroupsStand
    <2> QED  BY <1>0, <1>3, <2>1 DEF DeclaredOK
<1>4. CASE step[s].stage = "absent" /\ step'[s].stage = "absent"
    <2>1. step'[s] = Absent
        BY <1>4, StageNext DEF StageOK
    <2> QED  BY <1>1, <2>1
<1> QED
    BY <1>1, <1>2, <1>3, <1>4, StepMoves

-----------------------------------------------------------------------------
(***************************************************************************)
(* What an upload has done so far, statement by statement.                 *)
(***************************************************************************)
LEMMA AddedCovers ==
  ASSUME NEW a, NEW hashes, CanAdd(a, hashes), NEW h \in hashes
  PROVE  \E c \in clusters \cup Added(a, hashes) : c.hash = h
<1>1. CASE h \in Missing(a, hashes)
    BY <1>1, NewHash DEF Added
<1>2. CASE h \notin Missing(a, hashes)
    BY <1>2 DEF Missing, Added, SeenClusters
<1> QED
    BY <1>1, <1>2

LEMMA MappedRows ==
  ASSUME NEW s, NEW S, NEW rows,
         \A r : r \in rows <=> \E c \in S : r = [step |-> s, cluster |-> c]
  PROVE  {r.cluster : r \in rows} = S
<1>1. ASSUME NEW c \in S PROVE c \in {r.cluster : r \in rows}
    <2>1. [step |-> s, cluster |-> c] \in rows
        OBVIOUS
    <2> QED  BY <2>1
<1> QED
    BY <1>1

LEMMA MappedHashes ==
  ASSUME NEW a, NEW hashes, Covered(a, hashes)
  PROVE  {c.hash : c \in Mapped(a, hashes)} = hashes
BY DEF Covered, Mapped

LEMMA ExpandedLeaves ==
  ASSUME NEW a, tx[a].contains = {}, NEW g PROVE Expanded(a, g) = LeavesOf(g)
<1>1. SeenContains(a) = contains
    BY DEF SeenContains
<1> QED
    BY <1>1 DEF Expanded, LeavesOf

(* The tables that a statement of a transaction leaves alone.              *)
LEMMA SameTables ==
  ASSUME NEW s \in Step, NEW rec, Writes(s, rec), Shaped
  PROVE  /\ tx'[s] = rec /\ step' = step /\ Rests(s)' = Rests(s)
         /\ \A g : LeavesOf(g)' = LeavesOf(g)
         /\ GroupHashes(s)' = GroupHashes(s)
         /\ SeenClusters(s)' = clusters \cup rec.clusters
<1>1. tx'[s] = rec
    BY StatementPCs DEF Writes, Actor
<1>2. /\ step' = step /\ refs' = refs /\ mixed' = mixed /\ contains' = contains
      /\ clusters' = clusters
    BY DEF Writes, Tables
<1>3. Rests(s)' = Rests(s)
    BY <1>2 DEF Rests, Reliable, ClustersOf, Upstream
<1>4. \A g : LeavesOf(g)' = LeavesOf(g)
    BY <1>2 DEF LeavesOf, Leaves
<1>5. GroupHashes(s)' = GroupHashes(s)
    BY <1>2, <1>4 DEF GroupHashes, HashOfLeaves
<1> QED
    BY <1>1, <1>2, <1>3, <1>4, <1>5 DEF SeenClusters

LEMMA SourceStatements ==
  ASSUME Shaped, StoredInv, NEW s \in Step, InsertHashes(s) \/ InsertKeys(s)
  PROVE  UploadOK(s)'
<1>0. /\ s \in Actor /\ Phase(s, tx[s]) /\ FullTx(tx[s]) /\ FullTx(NoTx)
      /\ DeclaredOK(s) /\ UploadOK(s)
    BY DEF Actor, StoredInv, Phase, NoTx, FullTx
<1>1. CASE InsertHashes(s)
    <2> DEFINE new == Added(s, step[s].rows)
               rec == [NoTx EXCEPT !.pc = "keys", !.clusters = new]
    <2>1. Writes(s, rec) /\ s \in Source /\ CanAdd(s, step[s].rows)
        BY <1>0, <1>1 DEF InsertHashes, Writes, Rest, DeclaredOK
    <2>2. \A h \in step[s].rows : \E c \in clusters \cup new : c.hash = h
        BY <2>1, AddedCovers
    <2> HIDE DEF new
    <2>3. rec.pc = "keys" /\ rec.clusters = new
        BY DEF NoTx
    <2> HIDE DEF rec
    <2>4. Covered(s, step[s].rows)'
        BY <2>1, <2>2, <2>3, SameTables DEF Covered
    <2> QED  BY <2>1, <2>3, <2>4, SameTables, KindsApart DEF UploadOK, Uploading
<1>2. CASE InsertKeys(s)
    <2> DEFINE new == {[step |-> s, cluster |-> c] : c \in Mapped(s, step[s].rows)}
               rec == [tx[s] EXCEPT !.pc = "commit", !.refs = new]
    <2>1. Writes(s, rec) /\ tx[s].pc = "keys" /\ step[s].stage = "ready"
        BY <1>2 DEF InsertKeys, Writes, Rest
    <2>2. s \in Source
        BY <1>0, <2>1 DEF Phase, Step
    <2>3. {r.cluster : r \in new} = Mapped(s, step[s].rows)
        <3>1. \A r : r \in new <=>
                \E c \in Mapped(s, step[s].rows) : r = [step |-> s, cluster |-> c]
            OBVIOUS
        <3> HIDE DEF new
        <3> QED  BY <3>1, MappedRows
    <2> HIDE DEF new
    <2>4. rec.pc = "commit" /\ rec.refs = new /\ rec.touched = tx[s].touched
        BY <1>0 DEF FullTx
    <2> HIDE DEF rec
    <2>5. ASSUME ~tx'[s].touched, Rests(s)' PROVE WrittenHashes(s)' = step'[s].rows
        <3>1. Uploading(s)
            BY <1>0, <2>1, <2>4, <2>5, SameTables DEF UploadOK
        <3>2. {c.hash : c \in Mapped(s, step[s].rows)} = step[s].rows
            BY <2>1, <3>1, MappedHashes DEF Uploading
        <3>3. Written(s)' = Mapped(s, step[s].rows)
            BY <2>1, <2>3, <2>4, SameTables DEF Written
        <3> QED  BY <2>1, <3>2, <3>3, SameTables DEF WrittenHashes
    <2> QED  BY <2>1, <2>2, <2>4, <2>5, SameTables, KindsApart DEF UploadOK, Uploading
<1> QED
    BY <1>1, <1>2

LEMMA ModelStatement ==
  ASSUME Shaped, StoredInv, NEW s \in Step, InsertEdges(s) PROVE UploadOK(s)'
<1> DEFINE new == {[step |-> s, cluster |-> c] : c \in UNION step[s].groups}
           rec == [NoTx EXCEPT !.pc = "commit", !.refs = new]
<1>1. Writes(s, rec) /\ s \in Model
    BY DEF InsertEdges, Writes, Rest
<1>2. {r.cluster : r \in new} = UNION step[s].groups
    <2>1. \A r : r \in new <=>
            \E c \in UNION step[s].groups : r = [step |-> s, cluster |-> c]
        OBVIOUS
    <2> HIDE DEF new
    <2> QED  BY <2>1, MappedRows
<1> HIDE DEF new
<1>3. rec.pc = "commit" /\ rec.refs = new
    BY DEF NoTx
<1> HIDE DEF rec
<1>4. Written(s)' = UNION step'[s].groups
    BY <1>1, <1>2, <1>3, SameTables DEF Written
<1> QED
    BY <1>1, <1>3, <1>4, SameTables, KindsApart DEF UploadOK, Uploading

LEMMA ComputesRight ==
  ASSUME ClustersInv, StoredInv, NEW s \in Step, ComputeHashes(s) PROVE UploadOK(s)'
<1> DEFINE known(g) == Expanded(s, g) \cap clusters
           new == {[group |-> g, hash |-> HashOfLeaves(known(g))] :
                     g \in {h \in step[s].groups : known(h) # {}}}
           rec == [NoTx EXCEPT !.pc = "clusters", !.hashes = new]
<1>0. Shaped /\ s \in Actor
    BY DEF ClustersInv, Actor
<1>1. Writes(s, rec) /\ s \in Resolver /\ step[s].stage = "ready" /\ tx[s].pc = "idle"
    BY DEF ComputeHashes, MayInsert, Writes, Rest
<1>2. tx[s].contains = {}
    BY <1>0, <1>1 DEF StoredInv, Phase, NoTx
<1>3. ASSUME Rests(s), NEW g \in step[s].groups
      PROVE  known(g) = LeavesOf(g) /\ known(g) # {}
    <2>1. LeavesOf(g) \subseteq clusters /\ (g # {} => LeavesOf(g) # {})
        BY <1>1, <1>3, GroupLeaves
    <2>2. g # {}
        BY <1>1, <1>3 DEF StoredInv, DeclaredOK
    <2> QED  BY <1>2, <2>1, <2>2, ExpandedLeaves
<1>4. ASSUME Rests(s)
      PROVE  new = {[group |-> g, hash |-> HashOfLeaves(LeavesOf(g))] : g \in step[s].groups}
    BY <1>3, <1>4
<1> HIDE DEF new
<1>5. rec.pc = "clusters" /\ rec.hashes = new
    BY DEF NoTx
<1> HIDE DEF rec
<1>6. Rests(s)' => HashesRight(s)'
    BY <1>0, <1>1, <1>4, <1>5, SameTables DEF HashesRight, HashOfLeaves
<1> QED
    BY <1>0, <1>1, <1>5, <1>6, SameTables, KindsApart DEF UploadOK, Uploading

LEMMA HashesOfGroups ==
  ASSUME NEW s \in Step, HashesRight(s) PROVE HashesOf(s) = GroupHashes(s)
<1> DEFINE hash(g) == HashOfLeaves(LeavesOf(g))
           row(g) == [group |-> g, hash |-> hash(g)]
<1>1. tx[s].hashes = {row(g) : g \in step[s].groups}
    BY DEF HashesRight
<1>2. \A g : row(g).hash = hash(g)
    OBVIOUS
<1> HIDE DEF row
<1>3. {h.hash : h \in {row(g) : g \in step[s].groups}} = {hash(g) : g \in step[s].groups}
    BY <1>2
<1> QED
    BY <1>1, <1>3 DEF HashesOf, GroupHashes

LEMMA ClustersRight ==
  ASSUME ClustersInv, StoredInv, NEW s \in Step, InsertClusters(s) PROVE UploadOK(s)'
<1> DEFINE new == Added(s, HashesOf(s))
           rec == [tx[s] EXCEPT !.pc = "contains", !.clusters = new]
<1>0. Shaped /\ s \in Actor /\ FullTx(tx[s]) /\ UploadOK(s) /\ Phase(s, tx[s])
    BY DEF ClustersInv, Actor, StoredInv, Phase
<1>1. Writes(s, rec) /\ tx[s].pc = "clusters" /\ CanAdd(s, HashesOf(s))
    BY DEF InsertClusters, Writes, Rest
<1>2. s \in Resolver
    BY <1>0, <1>1 DEF Phase, Step
<1>3. \A h \in HashesOf(s) : \E c \in clusters \cup new : c.hash = h
    BY <1>1, AddedCovers
<1> HIDE DEF new
<1>4. /\ rec.pc = "contains" /\ rec.clusters = new /\ rec.hashes = tx[s].hashes
      /\ rec.touched = tx[s].touched
    BY <1>0 DEF FullTx
<1> HIDE DEF rec
<1>5. ASSUME step'[s].stage = "ready", ~tx'[s].touched, Rests(s)'
      PROVE  HashesRight(s)' /\ Covered(s, GroupHashes(s))'
    <2>1. HashesRight(s)
        BY <1>0, <1>1, <1>2, <1>4, <1>5, SameTables DEF UploadOK, Uploading
    <2>2. HashesRight(s)'
        BY <1>0, <1>1, <1>4, <2>1, SameTables DEF HashesRight, HashOfLeaves
    <2>3. Covered(s, GroupHashes(s))'
        BY <1>0, <1>1, <1>3, <1>4, <2>1, SameTables, HashesOfGroups DEF Covered
    <2> QED  BY <2>2, <2>3
<1> QED
    BY <1>0, <1>1, <1>2, <1>4, <1>5, SameTables, KindsApart DEF UploadOK, Uploading

(* Nothing that a resolver's rows of contains are measured against changes.*)
LEMMA ContainsRightStays ==
  ASSUME NEW s \in Step, step' = step, \A g : LeavesOf(g)' = LeavesOf(g),
         SeenClusters(s)' = SeenClusters(s),
         \A d \in tx'[s].contains : \E g \in step[s].groups :
           d.root.hash = HashOfLeaves(LeavesOf(g)) /\ d.leaf \in LeavesOf(g),
         \A g \in step[s].groups : \A c \in SeenClusters(s) :
           c.hash = HashOfLeaves(LeavesOf(g)) =>
             \A l \in LeavesOf(g) : [root |-> c, leaf |-> l] \in tx'[s].contains
  PROVE  ContainsRight(s)'
<1>1. \A g : HashOfLeaves(LeavesOf(g))' = HashOfLeaves(LeavesOf(g))
    BY DEF HashOfLeaves
<1>2. ASSUME NEW d \in tx'[s].contains
      PROVE  \E g \in step'[s].groups :
               d.root.hash = HashOfLeaves(LeavesOf(g))' /\ d.leaf \in LeavesOf(g)'
    BY <1>1
<1>3. ASSUME NEW g \in step'[s].groups, NEW c \in SeenClusters(s)',
             c.hash = HashOfLeaves(LeavesOf(g))', NEW l \in LeavesOf(g)'
      PROVE  [root |-> c, leaf |-> l] \in tx'[s].contains
    BY <1>1, <1>3
<1> QED
    BY <1>2, <1>3 DEF ContainsRight

LEMMA ContainsComputed ==
  ASSUME ClustersInv, StoredInv, NEW s \in Step, InsertContains(s) PROVE UploadOK(s)'
<1> DEFINE rows(h) == {[root |-> c, leaf |-> l] :
                         c \in Mapped(s, {h.hash}), l \in Expanded(s, h.group)}
           new == UNION {rows(h) : h \in tx[s].hashes}
           rec == [tx[s] EXCEPT !.pc = "members", !.contains = new]
<1>0. Shaped /\ s \in Actor /\ FullTx(tx[s]) /\ UploadOK(s) /\ Phase(s, tx[s])
    BY DEF ClustersInv, Actor, StoredInv, Phase
<1>1. Writes(s, rec) /\ tx[s].pc = "contains"
    BY DEF InsertContains, Writes, Rest
<1>2. s \in Resolver /\ tx[s].contains = {}
    BY <1>0, <1>1 DEF Phase, Step
<1>3. ASSUME HashesRight(s), NEW d \in new
      PROVE  \E g \in step[s].groups :
               d.root.hash = HashOfLeaves(LeavesOf(g)) /\ d.leaf \in LeavesOf(g)
    <2>1. PICK h \in tx[s].hashes : d \in rows(h)
        OBVIOUS
    <2>2. PICK g \in step[s].groups : h = [group |-> g, hash |-> HashOfLeaves(LeavesOf(g))]
        BY <1>3, <2>1 DEF HashesRight
    <2>3. h.group = g /\ h.hash = HashOfLeaves(LeavesOf(g))
        BY <2>2
    <2>4. d.root \in Mapped(s, {h.hash}) /\ d.leaf \in Expanded(s, h.group)
        BY <2>1
    <2> QED  BY <1>2, <2>3, <2>4, ExpandedLeaves DEF Mapped
<1>4. ASSUME HashesRight(s), NEW g \in step[s].groups, NEW c \in SeenClusters(s),
             c.hash = HashOfLeaves(LeavesOf(g)), NEW l \in LeavesOf(g)
      PROVE  [root |-> c, leaf |-> l] \in new
    <2> DEFINE h == [group |-> g, hash |-> HashOfLeaves(LeavesOf(g))]
    <2>1. h \in tx[s].hashes
        BY <1>4 DEF HashesRight
    <2>2. h.group = g /\ h.hash = HashOfLeaves(LeavesOf(g))
        OBVIOUS
    <2> HIDE DEF h
    <2>3. c \in Mapped(s, {h.hash}) /\ l \in Expanded(s, h.group)
        BY <1>2, <1>4, <2>2, ExpandedLeaves DEF Mapped
    <2>4. [root |-> c, leaf |-> l] \in rows(h)
        BY <2>3
    <2> HIDE DEF rows
    <2> QED  BY <2>1, <2>4
<1> HIDE DEF new
<1>5. /\ rec.pc = "members" /\ rec.contains = new /\ rec.hashes = tx[s].hashes
      /\ rec.clusters = tx[s].clusters /\ rec.touched = tx[s].touched
    BY <1>0 DEF FullTx
<1> HIDE DEF rec
<1>6. SeenClusters(s)' = SeenClusters(s)
    BY <1>0, <1>1, <1>5, SameTables DEF SeenClusters
<1>7. ASSUME step'[s].stage = "ready", ~tx'[s].touched, Rests(s)'
      PROVE  HashesRight(s)' /\ Covered(s, GroupHashes(s))' /\ ContainsRight(s)'
    <2>1. HashesRight(s) /\ Covered(s, GroupHashes(s))
        BY <1>0, <1>1, <1>2, <1>5, <1>7, SameTables DEF UploadOK, Uploading
    <2>2. HashesRight(s)'
        BY <1>0, <1>1, <1>5, <2>1, SameTables DEF HashesRight, HashOfLeaves
    <2>3. Covered(s, GroupHashes(s))'
        BY <1>0, <1>1, <1>6, <2>1, SameTables DEF Covered
    <2>4. ContainsRight(s)'
        <3>1. step' = step /\ (\A g : LeavesOf(g)' = LeavesOf(g)) /\ tx'[s].contains = new
            BY <1>0, <1>1, <1>5, SameTables
        <3> QED  BY <1>3, <1>4, <1>6, <2>1, <3>1, ContainsRightStays
    <2> QED  BY <2>2, <2>3, <2>4
<1> QED
    BY <1>0, <1>1, <1>2, <1>5, <1>7, SameTables, KindsApart DEF UploadOK, Uploading

LEMMA MembersRight ==
  ASSUME ClustersInv, StoredInv, NEW s \in Step, InsertMembers(s) PROVE UploadOK(s)'
<1> DEFINE new == {[step |-> s, cluster |-> c] : c \in Mapped(s, HashesOf(s))}
           rec == [tx[s] EXCEPT !.pc = "commit", !.refs = new]
<1>0. Shaped /\ s \in Actor /\ FullTx(tx[s]) /\ UploadOK(s) /\ Phase(s, tx[s])
    BY DEF ClustersInv, Actor, StoredInv, Phase
<1>1. Writes(s, rec) /\ tx[s].pc = "members"
    BY DEF InsertMembers, Writes, Rest
<1>2. s \in Resolver
    BY <1>0, <1>1 DEF Phase, Step
<1>3. {r.cluster : r \in new} = Mapped(s, HashesOf(s))
    <2>1. \A r : r \in new <=> \E c \in Mapped(s, HashesOf(s)) : r = [step |-> s, cluster |-> c]
        OBVIOUS
    <2> HIDE DEF new
    <2> QED  BY <2>1, MappedRows
<1> HIDE DEF new
<1>5. /\ rec.pc = "commit" /\ rec.refs = new /\ rec.contains = tx[s].contains
      /\ rec.hashes = tx[s].hashes
      /\ rec.clusters = tx[s].clusters /\ rec.touched = tx[s].touched
    BY <1>0 DEF FullTx
<1> HIDE DEF rec
<1>6. SeenClusters(s)' = SeenClusters(s)
    BY <1>0, <1>1, <1>5, SameTables DEF SeenClusters
<1>7. ASSUME step'[s].stage = "ready", ~tx'[s].touched, Rests(s)'
      PROVE  /\ HashesRight(s)' /\ Covered(s, GroupHashes(s))' /\ ContainsRight(s)'
             /\ WrittenHashes(s)' = GroupHashes(s)'
    <2>1. HashesRight(s) /\ Covered(s, GroupHashes(s)) /\ ContainsRight(s)
        BY <1>0, <1>1, <1>2, <1>5, <1>7, SameTables DEF UploadOK, Uploading
    <2>2. HashesRight(s)'
        BY <1>0, <1>1, <1>5, <2>1, SameTables DEF HashesRight, HashOfLeaves
    <2>3. Covered(s, GroupHashes(s))'
        BY <1>0, <1>1, <1>6, <2>1, SameTables DEF Covered
    <2>4. ContainsRight(s)'
        <3>1. step' = step /\ (\A g : LeavesOf(g)' = LeavesOf(g))
              /\ tx'[s].contains = tx[s].contains
            BY <1>0, <1>1, <1>5, SameTables
        <3> QED  BY <1>6, <2>1, <3>1, ContainsRightStays DEF ContainsRight
    <2>5. Written(s)' = Mapped(s, HashesOf(s))
        BY <1>0, <1>1, <1>3, <1>5, SameTables DEF Written
    <2>6. {c.hash : c \in Mapped(s, GroupHashes(s))} = GroupHashes(s)
        BY <2>1, MappedHashes
    <2>7. WrittenHashes(s)' = GroupHashes(s)'
        BY <1>0, <1>1, <2>1, <2>5, <2>6, HashesOfGroups, SameTables DEF WrittenHashes
    <2> QED  BY <2>2, <2>3, <2>4, <2>7
<1> QED
    BY <1>0, <1>1, <1>2, <1>5, <1>7, SameTables, KindsApart DEF UploadOK, Uploading

LEMMA UploadIdle == ASSUME NEW s \in Step, tx'[s].pc = "idle" PROVE UploadOK(s)'
BY DEF UploadOK, Uploading

LEMMA UploadStays ==
  ASSUME ClustersInv, ClustersInv', StoredInv, [Next]_vars, NEW s \in Step, tx'[s] = tx[s],
         tx[s].pc # "idle", step'[s].stage = "ready", ~tx[s].touched, Rests(s)'
  PROVE  Uploading(s)'
<1>0. s \in Actor /\ StageOK(s) /\ UploadOK(s) /\ FullTx(tx[s])
    BY DEF Actor, StoredInv, Phase
<1>1. /\ step'[s].rows = step[s].rows /\ step'[s].groups = step[s].groups
      /\ step[s].stage = "ready"
    BY <1>0, StepMoves DEF Absent, Declare, StageOK
<1>2. Rests(s) /\ \A g \in step[s].groups : LeavesOf(g)' = LeavesOf(g)
    BY <1>1, GroupsStand
<1>3. Uploading(s)
    BY <1>0, <1>1, <1>2 DEF UploadOK
<1>4. SeenClusters(s) \subseteq SeenClusters(s)'
    <2>1. CASE DeleteOrphans
        <3>1. tx'[s] = [tx[s] EXCEPT !.touched = TRUE]
            BY <1>0, <2>1 DEF DeleteOrphans
        <3> QED  BY <1>0, <3>1 DEF FullTx
    <2> QED  BY <2>1, TablesGrow DEF SeenClusters
<1>5. \A g \in step[s].groups : HashOfLeaves(LeavesOf(g))' = HashOfLeaves(LeavesOf(g))
    BY <1>2 DEF HashOfLeaves
<1>6. GroupHashes(s)' = GroupHashes(s)
    BY <1>1, <1>5 DEF GroupHashes
<1>7. HashesRight(s) => HashesRight(s)'
    BY <1>1, <1>5 DEF HashesRight
<1>8. Covered(s, step[s].rows) => Covered(s, step[s].rows)'
    BY <1>1, <1>4 DEF Covered
<1>9. Covered(s, GroupHashes(s)) => Covered(s, GroupHashes(s))'
    BY <1>4, <1>6 DEF Covered
<1>10. ASSUME ContainsRight(s), Covered(s, GroupHashes(s)) PROVE ContainsRight(s)'
    <2>1. ASSUME NEW c \in SeenClusters(s)', NEW d \in SeenClusters(s)', c.hash = d.hash PROVE c = d
        BY <1>0, <2>1 DEF ClustersInv, TypeOK, TxOK, OwnClusters, SeenClusters
    <2>2. ASSUME NEW g \in step[s].groups, NEW c \in SeenClusters(s)',
                 c.hash = HashOfLeaves(LeavesOf(g)), NEW l \in LeavesOf(g)
          PROVE  [root |-> c, leaf |-> l] \in tx[s].contains
        <3>1. PICK d \in SeenClusters(s) : d.hash = HashOfLeaves(LeavesOf(g))
            BY <1>10 DEF Covered, GroupHashes
        <3>2. c = d
            BY <1>4, <2>1, <2>2, <3>1
        <3> QED  BY <1>10, <2>2, <3>1, <3>2 DEF ContainsRight
    <2>3. ASSUME NEW d \in tx'[s].contains
          PROVE  \E g \in step'[s].groups :
                   d.root.hash = HashOfLeaves(LeavesOf(g))' /\ d.leaf \in LeavesOf(g)'
        <3>1. PICK g \in step[s].groups :
                d.root.hash = HashOfLeaves(LeavesOf(g)) /\ d.leaf \in LeavesOf(g)
            BY <1>10 DEF ContainsRight
        <3> QED  BY <1>1, <1>2, <1>5, <3>1
    <2>4. ASSUME NEW g \in step'[s].groups, NEW c \in SeenClusters(s)',
                 c.hash = HashOfLeaves(LeavesOf(g))', NEW l \in LeavesOf(g)'
          PROVE  [root |-> c, leaf |-> l] \in tx'[s].contains
        BY <1>1, <1>2, <1>5, <2>2, <2>4
    <2> QED  BY <2>3, <2>4 DEF ContainsRight
<1>11. Written(s)' = Written(s) /\ WrittenHashes(s)' = WrittenHashes(s)
    BY DEF Written, WrittenHashes
<1> QED
    BY <1>1, <1>3, <1>6, <1>7, <1>8, <1>9, <1>10, <1>11 DEF Uploading

LEMMA UploadNext ==
  ASSUME ClustersInv, ClustersInv', StoredInv, [Next]_vars, NEW s \in Step
  PROVE  UploadOK(s)'
<1>0. Shaped /\ s \in Actor
    BY DEF ClustersInv, Actor
<1>1. CASE tx'[s] = tx[s]
    BY <1>1, UploadIdle, UploadStays DEF UploadOK
<1>2. ASSUME NEW rec, Becomes(s, rec), rec = NoTx PROVE UploadOK(s)'
    <2>1. tx'[s].pc = "idle"
        BY <1>0, <1>2, StatementPCs DEF NoTx
    <2> QED  BY <2>1, UploadIdle
<1>3. ASSUME NEW a \in Actor \ {s}, NEW rec, Becomes(a, rec) PROVE UploadOK(s)'
    BY <1>0, <1>1, <1>3, StatementPCs
<1>4. ASSUME NEW t \in Step, StepActions(t) PROVE UploadOK(s)'
    <2>1. CASE \/ InsertHashes(t) \/ InsertKeys(t) \/ InsertEdges(t) \/ ComputeHashes(t)
               \/ InsertClusters(t) \/ InsertContains(t) \/ InsertMembers(t)
        <3>1. CASE t = s
            <4>1. CASE InsertHashes(t) \/ InsertKeys(t)
                BY <1>0, <3>1, <4>1, SourceStatements
            <4>2. CASE InsertEdges(t)
                BY <1>0, <3>1, <4>2, ModelStatement
            <4>3. CASE \/ ComputeHashes(t) \/ InsertClusters(t) \/ InsertContains(t)
                       \/ InsertMembers(t)
                BY <3>1, <4>3, ComputesRight, ClustersRight, ContainsComputed, MembersRight
            <4> QED  BY <2>1, <4>1, <4>2, <4>3
        <3>2. CASE t # s
            <4>1. \E rec : Becomes(t, rec)
                BY <2>1, Statements DEF Writes
            <4> QED  BY <1>3, <3>2, <4>1 DEF Actor
        <3> QED  BY <3>1, <3>2
    <2>2. CASE Declare(t) \/ DeleteStep(t) \/ InsertNothing(t)
        BY <1>1, <2>2 DEF Declare, DeleteStep, InsertNothing
    <2>3. CASE Commit(t)
        BY <1>2, <1>3, <2>3 DEF Commit, Actor
    <2> QED  BY <1>4, <2>1, <2>2, <2>3 DEF StepActions
<1>5. ASSUME NEW j \in Judge, JudgeActions(j) PROVE UploadOK(s)'
    <2>1. j \in Actor \ {s}
        BY KindsApart DEF Actor, Step
    <2>2. CASE Sample(j)
        BY <1>1, <2>2 DEF Sample
    <2>3. CASE GetOrCreate(j)
        <3>1. \E rec : Becomes(j, rec)
            BY <2>3 DEF GetOrCreate
        <3> QED  BY <1>3, <2>1, <3>1
    <2>4. CASE StoreJudgement(j)
        BY <1>3, <2>1, <2>4 DEF StoreJudgement
    <2> QED  BY <1>5, <2>2, <2>3, <2>4 DEF JudgeActions
<1>6. ASSUME NEW a \in Actor, Fail(a) PROVE UploadOK(s)'
    BY <1>2, <1>3, <1>6 DEF Fail
<1>7. CASE DeleteOrphans
    <2>1. tx'[s] = IF tx[s].pc = "idle" THEN NoTx ELSE [tx[s] EXCEPT !.touched = TRUE]
        BY <1>0, <1>7 DEF DeleteOrphans
    <2>2. FullTx(tx[s])
        BY <1>0 DEF StoredInv, Phase
    <2>3. tx'[s].pc = "idle" \/ tx'[s].touched
        BY <2>1, <2>2 DEF FullTx, NoTx
    <2> QED  BY <2>3, UploadIdle DEF UploadOK
<1> QED
    BY <1>1, <1>4, <1>5, <1>6, <1>7 DEF Next, FindOrphans, vars

-----------------------------------------------------------------------------
(***************************************************************************)
(* What a step that is COMPLETE has stored: its data, or that of an empty  *)
(* table.                                                                  *)
(***************************************************************************)
Stored(s) ==
  /\ s \in Source => {c.hash : c \in ClustersOf(s)} = step[s].rows
  /\ s \in Model => ClustersOf(s) = UNION step[s].groups
  /\ s \in Resolver =>
       /\ \A c \in ClustersOf(s) : c.hash = HashOfLeaves(Leaves(contains, c))
       /\ {Leaves(contains, c) : c \in ClustersOf(s)} = {LeavesOf(g) : g \in step[s].groups}
       /\ \A c \in ClustersOf(s) : Leaves(contains, c) \subseteq Known(s)
Kept(s) == IF step[s].empty THEN s \notin Resolver /\ ClustersOf(s) = {} ELSE Stored(s)

LEMMA SoundParts ==
  ASSUME NEW s \in Step
  PROVE  /\ Sound(s) <=> step[s].stage = "complete" /\ Reliable(s) /\ Rests(s)
         /\ Sound(s)' <=> step'[s].stage = "complete" /\ Reliable(s)' /\ Rests(s)'
BY LineageShape DEF Sound, Rests, Upstream

LEMMA SoundBefore ==
  ASSUME ClustersInv, ClustersInv', StoredInv, [Next]_vars, NEW s \in Step,
         step[s].stage = "complete", Sound(s)'
  PROVE  Sound(s) /\ Stands(s) /\ ClustersOf(s)' = ClustersOf(s) /\ Known(s)' = Known(s)
<1>1. step'[s].stage = "complete" /\ Reliable(s)' /\ Rests(s)'
    BY SoundParts
<1>2. Stands(s)
    BY <1>1, StepStands
<1>3. Rests(s) /\ Known(s)' = Known(s)
    BY <1>1, GroupsStand
<1> QED
    BY <1>1, <1>2, <1>3, ReliableBefore, SoundParts

LEMMA StoredStays ==
  ASSUME ClustersInv, ClustersInv', StoredInv, [Next]_vars, NEW s \in Step,
         step[s].stage = "complete", Sound(s)'
  PROVE  Kept(s)'
<1>1. Sound(s) /\ Stands(s) /\ ClustersOf(s)' = ClustersOf(s) /\ Known(s)' = Known(s)
    BY SoundBefore
<1>2. step'[s] = step[s] /\ Reliable(s)' /\ Rests(s)'
    BY <1>1, SoundParts DEF Stands
<1>3. Kept(s)
    BY <1>1 DEF StoredInv, NothingLost, AsDeclared, LeavesHeld, Stored, Kept
<1>4. s \in Resolver => \A c \in ClustersOf(s) : Leaves(contains, c)' = Leaves(contains, c)
    BY <1>1, <1>2, LeavesStand
<1>5. \A g \in step[s].groups : LeavesOf(g)' = LeavesOf(g)
    BY <1>2, GroupsStand
<1>6. CASE step[s].empty
    BY <1>1, <1>2, <1>3, <1>6 DEF Kept
<1>7. ASSUME ~step[s].empty, Stored(s)' PROVE Kept(s)'
    BY <1>2, <1>7 DEF Kept
<1>8. ASSUME ~step[s].empty PROVE Stored(s)'
    <2>0. Stored(s)
        BY <1>3, <1>8 DEF Kept
    <2>1. CASE s \in Source
        BY <1>1, <1>2, <2>0, <2>1, KindsApart DEF Stored
    <2>2. CASE s \in Model
        BY <1>1, <1>2, <2>0, <2>2, KindsApart DEF Stored
    <2>3. CASE s \in Resolver
        <3>1. \A c \in ClustersOf(s) : c.hash = HashOfLeaves(Leaves(contains, c))'
            BY <1>4, <2>0, <2>3 DEF Stored, HashOfLeaves
        <3>2. {Leaves(contains, c)' : c \in ClustersOf(s)} = {LeavesOf(g)' : g \in step[s].groups}
            BY <1>4, <1>5, <2>0, <2>3 DEF Stored
        <3>3. \A c \in ClustersOf(s) : Leaves(contains, c)' \subseteq Known(s)
            BY <1>4, <2>0, <2>3 DEF Stored
        <3> QED  BY <1>1, <1>2, <2>3, <3>1, <3>2, <3>3, KindsApart DEF Stored
    <2> QED
        BY <2>1, <2>2, <2>3 DEF Step
<1> QED
    BY <1>6, <1>7, <1>8

LEMMA StoredNothing ==
  ASSUME ClustersInv, StoredInv, NEW s \in Step, InsertNothing(s) PROVE Kept(s)'
<1> DEFINE declared == step[s].rows \cup step[s].groups
           empty == declared # {}
<1>1. /\ step[s].stage = "ready" /\ UNCHANGED refs
      /\ s \in Resolver => declared = {}
      /\ step' = [step EXCEPT ![s] = [step[s] EXCEPT !.stage = "complete", !.empty = empty]]
    BY DEF InsertNothing, Tables, ClustersInv, Shaped
<1>2. FullStep(step[s]) /\ DOMAIN step = Step
    BY DEF StoredInv, StageOK, ClustersInv, Shaped
<1> HIDE DEF empty
<1>3. step'[s].empty = empty /\ step'[s].rows = step[s].rows /\ step'[s].groups = step[s].groups
    BY <1>1, <1>2 DEF FullStep
<1>4. ClustersOf(s)' = {}
    BY <1>1 DEF ClustersOf, ClustersInv, OnlyComplete
<1>5. CASE empty
    BY <1>1, <1>3, <1>4, <1>5 DEF Kept, empty
<1>6. CASE ~empty
    <2>1. step'[s].rows = {} /\ step'[s].groups = {}
        BY <1>3, <1>6 DEF empty
    <2> QED  BY <1>3, <1>4, <1>6, <2>1 DEF Kept, Stored
<1> QED
    BY <1>5, <1>6

LEMMA StoredCommit ==
  ASSUME ClustersInv, ClustersInv', StoredInv, [Next]_vars, NEW s \in Step, Commit(s), Sound(s)'
  PROVE  Kept(s)'
<1>0. /\ Shaped /\ s \in Actor /\ StageOK(s) /\ UploadOK(s) /\ Phase(s, tx[s]) /\ TxOK(s)
      /\ FullStep(step[s])
    BY DEF ClustersInv, Actor, StoredInv, StageOK
<1>1. /\ tx[s].pc = "commit" /\ step[s].stage = "ready"
      /\ clusters' = clusters \cup tx[s].clusters /\ contains' = contains \cup tx[s].contains
      /\ refs' = refs \cup tx[s].refs
    BY DEF Commit
<1>2. /\ step'[s].rows = step[s].rows /\ step'[s].groups = step[s].groups
      /\ step'[s].stage = "complete" /\ (tx[s].touched => step'[s].touched)
      /\ step'[s].empty = step[s].empty
    <2> DEFINE v == tx[s].touched \/ prune.phase = "deleting"
    <2>1. step'[s] = [step[s] EXCEPT !.stage = "complete", !.touched = v]
        BY <1>0 DEF Commit, Shaped
    <2>2. tx[s].touched => v
        OBVIOUS
    <2> HIDE DEF v
    <2> QED  BY <1>0, <2>1, <2>2 DEF FullStep
<1>3. Reliable(s)' /\ Rests(s)' /\ ~tx[s].touched
    BY <1>2, SoundParts DEF Reliable
<1>4. Rests(s) /\ Known(s)' = Known(s) /\ \A g \in step[s].groups : LeavesOf(g)' = LeavesOf(g)
    BY <1>1, <1>2, <1>3, GroupsStand
<1>5. Uploading(s)
    BY <1>0, <1>1, <1>3, <1>4 DEF UploadOK
<1>6. ClustersOf(s)' = Written(s)
    <2>1. \A r \in refs : r.step # s
        BY <1>1 DEF ClustersInv, OnlyComplete
    <2>2. \A r \in tx[s].refs : r.step = s
        BY <1>0 DEF TxOK, Refers
    <2> QED  BY <1>1, <2>1, <2>2 DEF ClustersOf, Written
<1>7. ASSUME s \in Source PROVE Stored(s)'
    BY <1>1, <1>2, <1>5, <1>6, <1>7, KindsApart DEF Stored, Uploading, WrittenHashes
<1>8. ASSUME s \in Model PROVE Stored(s)'
    BY <1>1, <1>2, <1>5, <1>6, <1>8, KindsApart DEF Stored, Uploading
<1>9. ASSUME s \in Resolver PROVE Stored(s)'
    <2>1. ContainsRight(s) /\ WrittenHashes(s) = GroupHashes(s)
        BY <1>1, <1>5, <1>9 DEF Uploading
    <2>2. ASSUME NEW c \in Written(s), NEW g \in step[s].groups, c.hash = HashOfLeaves(LeavesOf(g))
          PROVE  Leaves(contains', c) = LeavesOf(g)
        <3>1. c \in SeenClusters(s) /\ c \notin mixed'
            BY <1>0, <1>3, <1>6, <1>9 DEF TxOK, Refers, Written, SeenClusters, Reliable
        <3>2. \A l \in LeavesOf(g) : [root |-> c, leaf |-> l] \in contains'
            BY <1>1, <2>1, <2>2, <3>1 DEF ContainsRight
        <3>3. ASSUME NEW d \in contains', d.root = c PROVE d.leaf \in LeavesOf(g)
            <4>1. d.leaf.hash \in c.hash.leaves
                BY <3>1, <3>3, RootsNext DEF RootsOK
            <4>2. PICK l \in LeavesOf(g) : l.hash = d.leaf.hash
                BY <2>2, <4>1 DEF HashOfLeaves
            <4>3. l \in clusters'
                BY <1>1, <1>4, GroupLeaves
            <4>4. d.leaf \in clusters'
                BY DEF ClustersInv, TypeOK
            <4> QED  BY <4>2, <4>3, <4>4 DEF ClustersInv, TypeOK
        <3>4. ASSUME NEW l \in LeavesOf(g) PROVE l \in Leaves(contains', c)
            <4> DEFINE d == [root |-> c, leaf |-> l]
            <4>1. d \in contains' /\ d.root = c /\ d.leaf = l
                BY <3>2
            <4> HIDE DEF d
            <4> QED  BY <4>1 DEF Leaves
        <3>5. ASSUME NEW l \in Leaves(contains', c) PROVE l \in LeavesOf(g)
            <4>1. PICK d \in contains' : d.root = c /\ l = d.leaf
                BY <3>5 DEF Leaves
            <4> QED  BY <3>3, <4>1
        <3> QED  BY <3>4, <3>5
    <2>3. \A c \in Written(s) : \E g \in step[s].groups : c.hash = HashOfLeaves(LeavesOf(g))
        BY <2>1 DEF WrittenHashes, GroupHashes
    <2>4. \A g \in step[s].groups : \E c \in Written(s) : c.hash = HashOfLeaves(LeavesOf(g))
        BY <2>1 DEF WrittenHashes, GroupHashes
    <2>5. \A c \in Written(s) : c.hash = HashOfLeaves(Leaves(contains', c))
        BY <2>2, <2>3
    <2>6. {Leaves(contains', c) : c \in Written(s)} = {LeavesOf(g) : g \in step[s].groups}
        BY <2>2, <2>3, <2>4
    <2>7. {Leaves(contains', c) : c \in Written(s)} = {LeavesOf(g)' : g \in step[s].groups}
        BY <1>4, <2>6
    <2>8. \A c \in Written(s) : Leaves(contains', c) \subseteq Known(s)
        BY <1>1, <1>4, <2>2, <2>3, GroupLeaves
    <2>9. \A c \in Written(s) : HashOfLeaves(Leaves(contains, c))' = HashOfLeaves(Leaves(contains', c))
        BY DEF HashOfLeaves, Leaves
    <2> QED
        BY <1>2, <1>4, <1>6, <1>9, <2>5, <2>7, <2>8, <2>9, KindsApart DEF Stored
<1>10. Stored(s)'
    BY <1>7, <1>8, <1>9 DEF Step
<1> QED
    BY <1>0, <1>1, <1>2, <1>10 DEF Kept, StageOK

LEMMA Completes ==
  ASSUME Shaped, [Next]_vars, NEW s \in Step, step'[s].stage = "complete"
  PROVE  step[s].stage = "complete" \/ InsertNothing(s) \/ Commit(s)
<1>1. ASSUME NEW t \in Step, Declare(t) \/ ((InsertNothing(t) \/ Commit(t)) /\ t # s)
      PROVE  step[s].stage = "complete"
    <2>1. step'[s] = step[s] \/ step'[s].stage = "ready"
        BY <1>1 DEF Declare, InsertNothing, Commit, Shaped
    <2> QED  BY <2>1
<1>2. ASSUME NEW t \in Step, DeleteStep(t) PROVE step[s].stage = "complete"
    <2> DEFINE gone == {u \in Step : t \in Elements(Lineage[u])}
    <2>1. step' = [u \in Step |-> IF u \in gone THEN Absent ELSE step[u]]
        BY <1>2 DEF DeleteStep
    <2> HIDE DEF gone
    <2> QED  BY <2>1 DEF Absent
<1> QED
    BY <1>1, <1>2, Kinds DEF Writes, Silent, StoreJudgement, DeleteOrphans

LEMMA StoredNext ==
  ASSUME ClustersInv, ClustersInv', StoredInv, [Next]_vars PROVE (NothingLost /\ LeavesHeld)'
<1>1. ASSUME NEW s \in Step, Sound(s)' PROVE Kept(s)'
    <2>1. step'[s].stage = "complete"
        BY <1>1 DEF Sound
    <2> QED  BY <1>1, <2>1, Completes, StoredStays, StoredNothing, StoredCommit DEF ClustersInv
<1> QED
    BY <1>1 DEF NothingLost, AsDeclared, LeavesHeld, Kept, Stored, Step

-----------------------------------------------------------------------------
LEMMA StoredInit == Init => StoredInv
<1> SUFFICES ASSUME Init PROVE StoredInv
    OBVIOUS
<1>1. ASSUME NEW s \in Step PROVE StageOK(s) /\ DeclaredOK(s) /\ UploadOK(s)
    <2>1. step[s] = Absent /\ tx[s] = NoTx
        BY DEF Init, Actor
    <2>2. /\ Absent.stage = "absent" /\ Absent.rows = {} /\ Absent.groups = {}
          /\ Absent.empty = FALSE /\ FullStep(Absent)
        BY DEF Absent, FullStep
    <2>3. NoTx.pc = "idle"
        BY DEF NoTx
    <2> QED  BY <2>1, <2>2, <2>3 DEF StageOK, DeclaredOK, UploadOK
<1>2. \A a \in Actor : Phase(a, tx[a])
    BY BlankPhase DEF Init
<1>3. RootsOK
    BY DEF Init, RootsOK
<1>4. \A s \in Step : step[s].stage # "complete"
    BY DEF Init, Absent
<1> QED
    BY <1>1, <1>2, <1>3, <1>4 DEF StoredInv, NothingLost, LeavesHeld, Sound, Step

LEMMA StoredInvNext ==
  ASSUME ClustersInv, ClustersInv', StoredInv, [Next]_vars PROVE StoredInv'
<1>1. \A s \in Step : StageOK(s)' /\ DeclaredOK(s)' /\ UploadOK(s)'
    BY StageNext, DeclaredNext, UploadNext
<1>2. \A a \in Actor : Phase(a, tx[a])'
    BY PhaseNext DEF ClustersInv, Phase
<1> QED
    BY <1>1, <1>2, RootsNext, StoredNext DEF StoredInv

(* Every transaction, whatever others insert, judge, delete or prune in    *)
(* the meantime, has written what belongs to the data of its step; and the *)
(* steps below have what they declared, or nothing of it if an empty table *)
(* was accepted for a source or a model (insert_hashes and                 *)
(* insert_model_edges return on one before they compare the fingerprint).  *)
THEOREM StoredInvariant == Spec => []StoredInv
<1>1. Init => StoredInv
    BY StoredInit
<1>2. ClustersInv /\ ClustersInv' /\ StoredInv /\ [Next]_vars => StoredInv'
    BY StoredInvNext
<1>3. Spec => []ClustersInv
    BY ClustersInvariant
<1> QED
    BY <1>1, <1>2, <1>3, PTL DEF Spec

(* A step that is COMPLETE has the data that was declared, however its     *)
(* transaction met those of other runs, of judges and of delete_orphans in *)
(* clusters and contains (insert_hashes, insert_model_edges,               *)
(* insert_clusters); a source or a model that an empty table was accepted  *)
(* for has none of it, and no resolver is in that case.                    *)
THEOREM NothingIsLost == Spec => []NothingLost
<1>1. StoredInv => NothingLost
    BY DEF StoredInv
<1> QED
    BY <1>1, StoredInvariant, PTL

(* The keys and the roots that a query reads for a sound step.             *)

-----------------------------------------------------------------------------
(***************************************************************************)
(* What a query returns.                                                   *)
(***************************************************************************)
LEMMA RootsStand ==
  ASSUME ClustersInv, ClustersInv', StoredInv, [Next]_vars, NEW t \in Resolver,
         Sound(t), Sound(t)', NEW l
  PROVE  Roots(t, l)' = Roots(t, l)
<1>1. t \in Step /\ Stands(t) /\ Reliable(t) /\ Reliable(t)'
    BY SoundBefore, SoundParts DEF Sound, Step
<1>2. RowsOf(t)' = RowsOf(t)
    BY <1>1 DEF Stands, Reliable
<1> DEFINE row(c) == [step |-> t, cluster |-> c]
<1>3. ASSUME NEW c PROVE row(c) \in refs <=> row(c) \in refs'
    <2>1. row(c).step = t
        OBVIOUS
    <2> HIDE DEF row
    <2> QED  BY <1>2, <2>1 DEF RowsOf
<1>4. ASSUME NEW c, row(c) \in refs PROVE Leaves(contains, c)' = Leaves(contains, c)
    <2>1. row(c).step = t /\ row(c).cluster = c
        OBVIOUS
    <2> HIDE DEF row
    <2>2. c \in ClustersOf(t)
        BY <1>4, <2>1 DEF ClustersOf
    <2> QED  BY <1>1, <2>2, LeavesStand
<1>5. \A c : c \in Roots(t, l) <=> row(c) \in refs /\ l \in Leaves(contains, c)
    BY DEF Roots, Leaves
<1>6. \A c : c \in Roots(t, l)' <=> row(c) \in refs' /\ l \in Leaves(contains, c)'
    BY DEF Roots, Leaves
<1> HIDE DEF row
<1>7. \A c : c \in Roots(t, l)' <=> c \in Roots(t, l)
    BY <1>3, <1>4, <1>5, <1>6
<1> QED
    BY <1>7 DEF Roots

(* The lineage of a sound step is made of sound steps.                     *)
LEMMA LineageSoundNow ==
  ASSUME StoredInv, NEW s \in Step, Sound(s)
  PROVE  \A t \in Elements(Lineage[s]) : t \in Step /\ Sound(t)
<1>1. ASSUME NEW t \in Elements(Lineage[s])
      PROVE  t \in Step /\ Elements(Lineage[t]) \subseteq Elements(Lineage[s])
    BY LineageShape
<1>2. \A t \in Elements(Lineage[s]) : step[t].stage = "complete"
    BY LineageShape DEF StoredInv, StageOK, Sound
<1> QED
    BY <1>1, <1>2 DEF Sound

LEMMA LineageSound ==
  ASSUME ClustersInv, StoredInv, [Next]_vars, NEW s \in Step, Sound(s), Sound(s)'
  PROVE  \A t \in Elements(Lineage[s]) : t \in Step /\ Sound(t) /\ Sound(t)'
<1>1. ASSUME NEW t \in Elements(Lineage[s])
      PROVE  t \in Step /\ Elements(Lineage[t]) \subseteq Elements(Lineage[s])
    BY LineageShape
<1>2. \A t \in Elements(Lineage[s]) : step'[t].stage = "complete"
    BY LineageShape, StageNext DEF StageOK, Sound, Upstream
<1>3. \A t \in Elements(Lineage[s]) : Reliable(t)'
    BY DEF Sound, Elements
<1> QED
    BY <1>1, <1>2, <1>3, LineageSoundNow DEF Sound, Elements

LEMMA KeysStand ==
  ASSUME ClustersInv, ClustersInv', StoredInv, [Next]_vars, NEW lineage,
         \A t \in Elements(lineage) : t \in Step /\ Sound(t) /\ Sound(t)'
  PROVE  Keys(lineage)' = Keys(lineage)
<1>1. \A t \in Elements(lineage) : Stands(t) /\ Reliable(t)
    BY SoundBefore, SoundParts DEF Sound
<1>2. \A t \in Elements(lineage) : RowsOf(t)' = RowsOf(t)
    BY <1>1 DEF Stands, Reliable
<1>3. \A r : r.step \in Elements(lineage) => (r \in refs <=> r \in refs')
    BY <1>2 DEF RowsOf
<1> QED
    BY <1>3 DEF Keys, Elements

LEMMA ProjectedStand ==
  ASSUME ClustersInv, ClustersInv', StoredInv, [Next]_vars, NEW lineage, NEW l,
         \A t \in Elements(lineage) : t \in Step /\ Sound(t) /\ Sound(t)'
  PROVE  Projected(lineage, l)' = Projected(lineage, l)
<1> DEFINE claiming == {i \in 1..Len(lineage) :
                          lineage[i] \in Resolver /\ Roots(lineage[i], l) # {}}
           nearest == {i \in claiming : \A k \in claiming : i <= k}
<1>1. ASSUME NEW i \in 1..Len(lineage), lineage[i] \in Resolver
      PROVE  Roots(lineage[i], l)' = Roots(lineage[i], l)
    <2>1. lineage[i] \in Elements(lineage)
        BY DEF Elements
    <2> QED  BY <1>1, <2>1, RootsStand
<1>2. claiming' = claiming
    BY <1>1
<1>3. \A i \in claiming : i \in 1..Len(lineage) /\ lineage[i] \in Resolver
    OBVIOUS
<1>4. Projected(lineage, l) = IF claiming = {} THEN {l}
                              ELSE UNION {Roots(lineage[i], l) : i \in nearest}
    BY DEF Projected
<1>5. Projected(lineage, l)' = IF claiming' = {} THEN {l}
                               ELSE UNION {Roots(lineage[i], l)' : i \in nearest'}
    BY DEF Projected
<1>6. nearest' = nearest /\ nearest \subseteq claiming
    BY <1>2
<1>7. {Roots(lineage[i], l)' : i \in nearest} = {Roots(lineage[i], l) : i \in nearest}
    BY <1>1, <1>3, <1>6
<1> HIDE DEF claiming, nearest
<1> QED
    BY <1>2, <1>4, <1>5, <1>6, <1>7

LEMMA AnswerStands ==
  ASSUME ClustersInv, ClustersInv', StoredInv, [Next]_vars, NEW lineage,
         \A t \in Elements(lineage) : t \in Step /\ Sound(t) /\ Sound(t)'
  PROVE  Answer(lineage)' = Answer(lineage)
<1> DEFINE rows(l) == {[leaf |-> l, root |-> r] : r \in Projected(lineage, l)}
<1>1. \A l : rows(l)' = rows(l)
    BY ProjectedStand
<1>2. Answer(lineage) = UNION {rows(l) : l \in Keys(lineage)}
    BY DEF Answer
<1>3. Answer(lineage)' = UNION {rows(l)' : l \in Keys(lineage)'}
    BY DEF Answer
<1> HIDE DEF rows
<1> QED
    BY <1>1, <1>2, <1>3, KeysStand

(* What query returns for a step changes in no step of the system: no      *)
(* upload, judgement, deletion or delete_orphans reaches it through the    *)
(* clusters that it shares with others (_build_unified_query over the      *)
(* tables that all runs write).                                            *)
THEOREM AnswersStay == Spec => AnswersAreStable
<1>1. ClustersInv /\ ClustersInv' /\ StoredInv /\ [Next]_vars =>
        [\A s \in Step : Sound(s) /\ Sound(s)' => Answer(Lineage[s])' = Answer(Lineage[s])]_vars
    BY LineageSound, AnswerStands
<1>2. Spec => []ClustersInv
    BY ClustersInvariant
<1> QED
    BY <1>1, <1>2, StoredInvariant, PTL DEF Spec, AnswersAreStable

-----------------------------------------------------------------------------
(***************************************************************************)
(* What the groups of a step were drawn from.                              *)
(***************************************************************************)
DrawnOK(s) ==
  /\ s \in Model /\ Rests(s) => UNION step[s].groups \subseteq Visible(Left[s]) \cup Visible(Right[s])
  /\ s \in Resolver => \A g \in step[s].groups :
       /\ g \subseteq UNION Edges(s)
       /\ \A h \in step[s].groups : g \cap h # {} => g = h

DrawnInv == \A s \in Step : DrawnOK(s)

LEMMA DrawnInit == Init => DrawnInv
BY DEF Init, Absent, DrawnInv, DrawnOK

(* Connected components do not meet.                                       *)
LEMMA ComponentsApart ==
  ASSUME NEW edges, NEW g \in Components(edges), NEW h \in Components(edges), g \cap h # {}
  PROVE  g = h
<1>1. /\ Connected(edges, g) /\ \A k \in (SUBSET g) \ {{}, g} : ~Connected(edges, k)
      /\ Connected(edges, h) /\ \A k \in (SUBSET h) \ {{}, h} : ~Connected(edges, k)
    BY DEF Components
<1> DEFINE both == g \cap h
<1>2. Connected(edges, both) /\ both \subseteq g /\ both \subseteq h /\ both # {}
    BY <1>1 DEF Connected
<1> HIDE DEF both
<1>3. both = g
    <2>1. both # g => both \in (SUBSET g) \ {{}, g}
        BY <1>2
    <2> QED  BY <1>1, <1>2, <2>1
<1>4. both = h
    <2>1. both # h => both \in (SUBSET h) \ {{}, h}
        BY <1>2
    <2> QED  BY <1>1, <1>2, <2>1
<1> QED
    BY <1>3, <1>4

(* What a lineage above s shows stays while s has something to rest on.    *)
LEMMA VisibleStands ==
  ASSUME ClustersInv, ClustersInv', StoredInv, [Next]_vars, NEW s \in Step,
         \A t \in Upstream(s) : step[t].stage = "complete" /\ step'[t].stage = "complete",
         Rests(s)', NEW lineage, Elements(lineage) \subseteq Upstream(s)
  PROVE  Rests(s) /\ Visible(lineage)' = Visible(lineage)
<1>1. \A t \in Upstream(s) : t \in Step /\ Upstream(t) \subseteq Upstream(s)
    BY LineageShape
<1>2. \A t \in Upstream(s) : Stands(t)
    BY <1>1, StepStands
<1>3. Rests(s)
    BY <1>2, RestsBefore
<1>4. \A t \in Upstream(s) : Reliable(t) /\ Reliable(t)'
    BY <1>3 DEF Rests, Upstream
<1>5. \A t \in Upstream(s) : Rests(t) /\ Rests(t)'
    BY <1>1, <1>4 DEF Rests, Upstream
<1>6. \A t \in Elements(lineage) : t \in Step /\ Sound(t) /\ Sound(t)'
    BY <1>1, <1>4, <1>5, SoundParts
<1>7. Answer(lineage)' = Answer(lineage)
    BY <1>6, AnswerStands
<1> QED
    BY <1>3, <1>7 DEF Visible

(* The edges of a resolver's models stay.                                  *)
LEMMA EdgesStand ==
  ASSUME ClustersInv, StoredInv, [Next]_vars, NEW s \in Step,
         \A t \in Upstream(s) : step[t].stage = "complete" /\ step'[t].stage = "complete"
  PROVE  Edges(s)' = Edges(s)
<1>1. \A m \in Inputs[s] : m \in Upstream(s) /\ m \in Step
    BY ClustersAssumption, LineageShape
<1>2. \A m \in Inputs[s] : step'[m] = step[m]
    BY <1>1, StepStands DEF Stands
<1> QED
    BY <1>2 DEF Edges

LEMMA DrawnNext ==
  ASSUME ClustersInv, ClustersInv', StoredInv, DrawnInv, [Next]_vars, NEW s \in Step
  PROVE  DrawnOK(s)'
<1>0. Shaped /\ StageOK(s) /\ StageOK(s)' /\ DrawnOK(s)
    BY StageNext DEF ClustersInv, StoredInv, DrawnInv
<1>1. CASE step'[s] = Absent
    BY <1>1 DEF DrawnOK, Absent
<1> DEFINE Based == \A t \in Upstream(s) :
                      step[t].stage = "complete" /\ step'[t].stage = "complete"
<1>2. ASSUME step'[s].stage # "absent", step[s].stage # "absent" \/ Declare(s) PROVE Based
    <2>1. \A t \in Upstream(s) : step[t].stage = "complete"
        BY <1>0, <1>2 DEF StageOK, Declare
    <2>2. \A t \in Upstream(s) : step'[t].stage = "complete"
        BY <1>0, <1>2 DEF StageOK, Upstream
    <2> QED  BY <2>1, <2>2
<1>3. ASSUME Based, s \in Model, Rests(s)'
      PROVE  /\ Rests(s)
             /\ Visible(Left[s])' = Visible(Left[s]) /\ Visible(Right[s])' = Visible(Right[s])
    <2>1. Elements(Left[s]) \subseteq Upstream(s) /\ Elements(Right[s]) \subseteq Upstream(s)
        BY <1>3, ClustersAssumption
    <2> QED  BY <1>3, <2>1, VisibleStands
<1>4. CASE Declare(s)
    <2>1. PICK rows \in Rows(s), groups \in Groups(s) :
            step' = [step EXCEPT ![s] = [stage |-> "ready", rows |-> rows,
                                         groups |-> groups,
                                         empty |-> FALSE, touched |-> FALSE]]
        BY <1>4 DEF Declare
    <2>2. step'[s].groups = groups /\ step'[s].stage = "ready"
        BY <1>0, <2>1 DEF Shaped
    <2>3. Based
        BY <1>2, <1>4, <2>2
    <2> HIDE DEF Based
    <2>4. s \in Model => UNION groups \subseteq Visible(Left[s]) \cup Visible(Right[s])
        <3>1. s \in Model => groups \subseteq Pairs(s)
            BY <2>1, KindsApart DEF Groups
        <3>2. \A p \in Pairs(s) : p \subseteq Visible(Left[s]) \cup Visible(Right[s])
            BY DEF Pairs
        <3> QED  BY <3>1, <3>2
    <2>5. s \in Resolver => \A g \in groups : /\ g \subseteq UNION Edges(s)
                                              /\ \A h \in groups : g \cap h # {} => g = h
        <3>1. s \in Resolver => groups = Components(Edges(s))
            BY <2>1, KindsApart DEF Groups
        <3> QED  BY <3>1, ComponentsOf, ComponentsApart
    <2>6. Edges(s)' = Edges(s)
        BY <2>3, EdgesStand DEF Based
    <2> QED  BY <1>3, <2>2, <2>3, <2>4, <2>5, <2>6 DEF DrawnOK
<1>5. CASE /\ step'[s].groups = step[s].groups
           /\ step[s].stage # "absent" /\ step'[s].stage # "absent"
    <2>1. Based
        BY <1>2, <1>5
    <2> HIDE DEF Based
    <2>2. Edges(s)' = Edges(s)
        BY <2>1, EdgesStand DEF Based
    <2> QED  BY <1>0, <1>3, <1>5, <2>1, <2>2 DEF DrawnOK
<1>6. CASE step[s].stage = "absent" /\ step'[s].stage = "absent"
    <2>1. step'[s] = Absent
        BY <1>0, <1>6 DEF StageOK
    <2> QED  BY <1>1, <2>1
<1> QED
    BY <1>1, <1>4, <1>5, <1>6, StepMoves

-----------------------------------------------------------------------------
(***************************************************************************)
(* One cluster for each key.                                               *)
(***************************************************************************)
LEMMA ShownToResolver ==
  ASSUME ClustersInv, StoredInv, DrawnInv, NEW t \in Resolver, Sound(t),
         NEW g \in step[t].groups, NEW l \in LeavesOf(g)
  PROVE  \E x \in g : x \in SeenAs(t, l)
<1>1. PICK x \in g : l \in LeavesOf({x})
    BY DEF LeavesOf
<1>2. t \in Step /\ DrawnOK(t) /\ Rests(t)
    BY SoundParts DEF Step, DrawnInv
<1>3. PICK m \in Inputs[t] : x \in UNION step[m].groups
    BY <1>1, <1>2 DEF DrawnOK, Edges
<1>4. m \in Model /\ m \in Step /\ m \in Upstream(t)
    BY <1>2, <1>3, ClustersAssumption DEF Step
<1>5. Rests(m) /\ DrawnOK(m)
    BY <1>2, <1>4, LineageShape DEF Rests, DrawnInv
<1>6. x \in Visible(Left[m]) \cup Visible(Right[m])
    BY <1>3, <1>4, <1>5 DEF DrawnOK
<1>7. Left[m] \in Queries(t) /\ Right[m] \in Queries(t)
    BY <1>3 DEF Queries
<1>8. x \in UNION {Visible(q) : q \in Queries(t)}
    BY <1>6, <1>7
<1> QED
    BY <1>1, <1>8 DEF SeenAs

LEMMA RootsOnce ==
  ASSUME ClustersInv, StoredInv, DrawnInv, NEW t \in Resolver, Sound(t), NEW l,
         \A x, y \in SeenAs(t, l) : x = y, NEW c \in Roots(t, l), NEW d \in Roots(t, l)
  PROVE  c = d
<1>0. t \in Step
    BY DEF Step
<1>1. ASSUME NEW e \in Roots(t, l)
      PROVE  /\ e \in clusters /\ e.hash = HashOfLeaves(Leaves(contains, e))
             /\ l \in Leaves(contains, e)
             /\ \E g \in step[t].groups : Leaves(contains, e) = LeavesOf(g)
    <2> DEFINE row == [step |-> t, cluster |-> e]
    <2>1. row \in refs /\ l \in Leaves(contains, e)
        BY <1>1 DEF Roots, Leaves
    <2>2. row.step = t /\ row.cluster = e
        OBVIOUS
    <2> HIDE DEF row
    <2>3. e \in ClustersOf(t) /\ e \in clusters
        BY <2>1, <2>2 DEF ClustersOf, ClustersInv, TypeOK
    <2>4. e.hash = HashOfLeaves(Leaves(contains, e))
        BY <1>0, <2>3 DEF StoredInv, NothingLost, AsDeclared
    <2>5. {Leaves(contains, k) : k \in ClustersOf(t)} = {LeavesOf(g) : g \in step[t].groups}
        BY <1>0 DEF StoredInv, NothingLost, AsDeclared
    <2>6. \E g \in step[t].groups : Leaves(contains, e) = LeavesOf(g)
        BY <2>3, <2>5
    <2> QED  BY <2>1, <2>3, <2>4, <2>6
<1>2. PICK g \in step[t].groups : Leaves(contains, c) = LeavesOf(g)
    BY <1>1
<1>3. PICK h \in step[t].groups : Leaves(contains, d) = LeavesOf(h)
    BY <1>1
<1>4. l \in LeavesOf(g) /\ l \in LeavesOf(h)
    BY <1>1, <1>2, <1>3
<1>5. \E x \in g : x \in SeenAs(t, l)
    BY <1>4, ShownToResolver
<1>6. \E x \in h : x \in SeenAs(t, l)
    BY <1>4, ShownToResolver
<1>7. g \cap h # {}
    BY <1>5, <1>6
<1>8. g = h
    BY <1>0, <1>7 DEF DrawnInv, DrawnOK
<1>9. c.hash = d.hash
    BY <1>1, <1>2, <1>3, <1>8
<1> QED
    BY <1>1, <1>9 DEF ClustersInv, TypeOK

LEMMA FirstOf ==
  ASSUME NEW n, NEW S, S \subseteq 1..n, S # {}
  PROVE  \E i \in S : \A k \in S : i <= k
<1>1. S \subseteq Nat
    OBVIOUS
<1> DEFINE less == {ss \in Nat \X Nat : ss[1] < ss[2]}
<1>2. IsWellFoundedOn(less, Nat)
    BY NatLessThanWellFounded DEF OpToRel
<1>3. \A k, i \in Nat : <<k, i>> \in less <=> k < i
    OBVIOUS
<1> HIDE DEF less
<1>4. PICK i \in S : \A k \in S : ~(<<k, i>> \in less)
    BY <1>1, <1>2, WFMin
<1>5. ASSUME NEW k \in S PROVE i <= k
    <2>1. i \in Nat /\ k \in Nat /\ ~(k < i)
        BY <1>1, <1>3, <1>4
    <2> QED  BY <2>1
<1> QED
    BY <1>5

LEMMA OneRoot ==
  ASSUME ClustersInv, StoredInv, DrawnInv, NEW s \in Step, Sound(s),
         NEW l \in Keys(Lineage[s]), SeenAlike(s, l)
  PROVE  \E root \in clusters : Projected(Lineage[s], l) = {root}
<1> DEFINE lineage == Lineage[s]
           claiming == {i \in 1..Len(lineage) :
                          lineage[i] \in Resolver /\ Roots(lineage[i], l) # {}}
           nearest == {i \in claiming : \A k \in claiming : i <= k}
<1>1. Projected(lineage, l) = IF claiming = {} THEN {l}
                              ELSE UNION {Roots(lineage[i], l) : i \in nearest}
    BY DEF Projected
<1>2. l \in clusters
    BY DEF Keys, ClustersInv, TypeOK
<1>3. CASE claiming # {}
    <2>1. claiming \subseteq 1..Len(lineage) /\ claiming \subseteq Int
        OBVIOUS
    <2>2. PICK i \in claiming : \A k \in claiming : i <= k
        BY <1>3, <2>1, FirstOf
    <2>3. nearest = {i}
        <3>1. ASSUME NEW k \in nearest PROVE k = i
            <4>1. k \in Int /\ i \in Int /\ i <= k /\ k <= i
                BY <2>1, <2>2
            <4> QED  BY <4>1
        <3>2. i \in nearest
            BY <2>2
        <3> QED  BY <3>1, <3>2
    <2>4. i \in 1..Len(lineage) /\ lineage[i] \in Resolver /\ Roots(lineage[i], l) # {}
        OBVIOUS
    <2> HIDE DEF claiming, nearest
    <2>5. Projected(lineage, l) = Roots(lineage[i], l)
        BY <1>1, <1>3, <2>3
    <2>6. lineage[i] \in Elements(lineage)
        BY <2>4 DEF Elements
    <2>7. Sound(lineage[i])
        BY <2>6, LineageSoundNow
    <2>8. \A x, y \in SeenAs(lineage[i], l) : x = y
        BY <2>4, <2>6 DEF SeenAlike
    <2>9. PICK c : c \in Roots(lineage[i], l)
        BY <2>4
    <2>10. \A d \in Roots(lineage[i], l) : d = c
        BY <2>4, <2>7, <2>8, <2>9, RootsOnce
    <2>11. c \in clusters
        BY <2>9 DEF Roots, ClustersInv, TypeOK
    <2> QED  BY <2>5, <2>9, <2>10, <2>11
<1> QED
    BY <1>1, <1>2, <1>3

(* The resolvers of a lineage, be they of one run or met in the clusters   *)
(* of others, put a leaf into one cluster, of which match may take any one *)
(* (_build_target_cluster_cte, LIMIT 1), when what their models were shown *)
(* does not overlap in the leaf.                                           *)
THEOREM OneClusterForAKey == Spec => []OneClusterPerKey
<1>1. Init => DrawnInv
    BY DrawnInit
<1>2. ClustersInv /\ ClustersInv' /\ StoredInv /\ DrawnInv /\ [Next]_vars => DrawnInv'
    BY DrawnNext DEF DrawnInv
<1>3. ClustersInv /\ StoredInv /\ DrawnInv => OneClusterPerKey
    <2>1. \A root : Cardinality({root}) = 1
        BY FS_Singleton
    <2>2. ASSUME ClustersInv, StoredInv, DrawnInv, NEW s \in Step, Sound(s),
                 NEW l \in Keys(Lineage[s]), SeenAlike(s, l)
          PROVE  Cardinality(Projected(Lineage[s], l)) = 1
        <3>1. PICK root \in clusters : Projected(Lineage[s], l) = {root}
            BY <2>2, OneRoot
        <3> QED  BY <2>1, <3>1
    <2> QED  BY <2>2 DEF OneClusterPerKey
<1>4. Spec => []ClustersInv
    BY ClustersInvariant
<1> QED
    BY <1>1, <1>2, <1>3, <1>4, StoredInvariant, PTL DEF Spec
===============================================================================
