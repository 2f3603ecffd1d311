-------------------------- MODULE Clusters_proofs --------------------------
(***************************************************************************)
(* Theorems about Clusters, for any steps, lineages, rows and judges.      *)
(***************************************************************************)
EXTENDS Clusters, TLAPS

StepShaped(rec) == {"stage", "touched"} \subseteq DOMAIN rec
Shaped ==
  /\ step = [s \in Step |-> step[s]] /\ tx = [a \in Actor |-> tx[a]]
  /\ \A s \in Step : StepShaped(step[s])

TxShaped(rec) == {"clusters", "contains", "refs"} \subseteq DOMAIN rec

(* The clusters of a transaction are nobody else's: the waiting of ON      *)
(* CONFLICT keeps their hashes apart.                                      *)
OwnClusters(a, new) ==
  /\ \A c \in new :
       /\ c = [hash |-> c.hash, gen |-> c.gen] /\ c.gen \in 1..MaxGen
       /\ c \notin used
       /\ \A d \in clusters : d.hash # c.hash
       /\ \A b \in Actor \ {a} : \A d \in tx[b].clusters : d.hash # c.hash
  /\ \A c, d \in new : c.hash = d.hash => c = d

(* Its rows refer to clusters that exist, or are its own.                  *)
Refers(a, rec) ==
  LET seen == clusters \cup rec.clusters
  IN /\ \A c \in rec.contains : c.root \in seen /\ c.leaf \in seen
     /\ \A r \in rec.refs : r.step = a /\ a \in Step /\ r.cluster \in seen

TxOK(a) == TxShaped(tx[a]) /\ OwnClusters(a, tx[a].clusters) /\ Refers(a, tx[a])

(* Only a step that is COMPLETE refers to clusters.                        *)
OnlyComplete == \A r \in refs : step[r.step].stage = "complete"

(* Who refers to a victim of delete_orphans was committed while it waited. *)
VictimsAreNew ==
  prune.phase = "deleting" =>
    \A r \in refs : r.cluster \in prune.victims => step[r.step].touched

ClustersInv ==
  TypeOK /\ Shaped /\ (\A a \in Actor : TxOK(a)) /\ OnlyComplete /\ VictimsAreNew

-----------------------------------------------------------------------------
LEMMA NoTxOK ==
  /\ TxShaped(NoTx) /\ NoTx.clusters = {} /\ NoTx.contains = {} /\ NoTx.refs = {}
BY DEF TxShaped, NoTx

LEMMA InitInv == Init => ClustersInv
<1> SUFFICES ASSUME Init PROVE ClustersInv
    OBVIOUS
<1>1. TypeOK
    BY DEF Init, TypeOK
<1>2. Shaped
    BY DEF Init, Shaped, StepShaped, Absent
<1>3. ASSUME NEW a \in Actor PROVE TxOK(a)
    <2>1. tx[a] = NoTx
        BY DEF Init
    <2> QED
        BY <2>1, NoTxOK DEF TxOK, OwnClusters, Refers
<1>4. OnlyComplete /\ VictimsAreNew
    BY DEF Init, OnlyComplete, VictimsAreNew
<1> QED
    BY <1>1, <1>2, <1>3, <1>4 DEF ClustersInv

(* What CanAdd waits for makes the clusters that are added the             *)
(* transaction's own.                                                      *)
LEMMA AddedIsOwn ==
  ASSUME ClustersInv, NEW a \in Actor, NEW hashes, CanAdd(a, hashes)
  PROVE  OwnClusters(a, Added(a, hashes))
<1> USE DEF ClustersInv
<1>1. ASSUME NEW h \in Missing(a, hashes)
      PROVE  /\ NewCluster(h) \in Ids(h) /\ NewCluster(h) \notin used
             /\ \A d \in SeenClusters(a) : d.hash # h
             /\ \A b \in Actor \ {a} : \A d \in tx[b].clusters : d.hash # h
    <2>1. \E c \in Ids(h) : c \notin used
        BY DEF CanAdd
    <2>2. NewCluster(h) \in Ids(h) /\ NewCluster(h) \notin used
        BY <2>1 DEF NewCluster
    <2> QED
        BY <2>2 DEF CanAdd, Missing
<1>2. ASSUME NEW h, NEW c \in Ids(h)
      PROVE  c.hash = h /\ c = [hash |-> c.hash, gen |-> c.gen] /\ c.gen \in 1..MaxGen
    BY DEF Ids
<1>3. ASSUME NEW c \in Added(a, hashes)
      PROVE  \/ c \in tx[a].clusters
             \/ \E h \in Missing(a, hashes) : c = NewCluster(h)
    BY DEF Added
<1>4. OwnClusters(a, tx[a].clusters)
    BY DEF TxOK
<1>5. ASSUME NEW c \in Added(a, hashes)
      PROVE  /\ c = [hash |-> c.hash, gen |-> c.gen] /\ c.gen \in 1..MaxGen
             /\ c \notin used
             /\ \A d \in clusters : d.hash # c.hash
             /\ \A b \in Actor \ {a} : \A d \in tx[b].clusters : d.hash # c.hash
    <2>1. CASE c \in tx[a].clusters
        BY <2>1, <1>4 DEF OwnClusters
    <2>2. CASE \E h \in Missing(a, hashes) : c = NewCluster(h)
        BY <2>2, <1>1, <1>2 DEF SeenClusters
    <2> QED  BY <2>1, <2>2, <1>3
<1>6. ASSUME NEW c \in Added(a, hashes), NEW d \in Added(a, hashes), c.hash = d.hash
      PROVE  c = d
    <2>1. CASE c \in tx[a].clusters /\ d \in tx[a].clusters
        BY <2>1, <1>4, <1>6 DEF OwnClusters
    <2>2. CASE ~(c \in tx[a].clusters /\ d \in tx[a].clusters)
        BY <2>2, <1>1, <1>2, <1>3, <1>6 DEF SeenClusters
    <2> QED  BY <2>1, <2>2
<1> QED
    BY <1>5, <1>6 DEF OwnClusters

(* A statement of one transaction.                                         *)
LEMMA StatementKeeps ==
  ASSUME ClustersInv, NEW a \in Actor, NEW rec, Becomes(a, rec),
         TxShaped(rec), OwnClusters(a, rec.clusters), Refers(a, rec),
         UNCHANGED <<step, Tables, prune>>
  PROVE  ClustersInv'
<1> USE DEF ClustersInv
<1>1. /\ tx' = [b \in Actor |-> tx'[b]] /\ tx'[a] = rec
      /\ \A b \in Actor \ {a} : tx'[b] = tx[b]
      /\ clusters' = clusters /\ used' = used /\ contains' = contains
      /\ refs' = refs /\ judgements' = judgements /\ step' = step /\ prune' = prune
    BY DEF Becomes, Shaped, Tables
<1>2. TypeOK' /\ Shaped' /\ OnlyComplete' /\ VictimsAreNew'
    BY <1>1 DEF TypeOK, Shaped, OnlyComplete, VictimsAreNew
<1>3. ASSUME NEW b \in Actor PROVE TxOK(b)'
    <2>1. CASE b = a
        BY <2>1, <1>1 DEF TxOK, OwnClusters, Refers
    <2>2. CASE b # a
        <3>1. TxOK(b) /\ tx'[b] = tx[b]
            BY <2>2, <1>1
        <3>2. \A c \in tx[b].clusters : \A d \in rec.clusters : d.hash # c.hash
            BY <2>2 DEF OwnClusters
        <3>3. OwnClusters(b, tx[b].clusters)'
            BY <1>1, <2>2, <3>1, <3>2 DEF TxOK, OwnClusters
        <3> QED
            BY <1>1, <3>1, <3>3 DEF TxOK, Refers
    <2> QED  BY <2>1, <2>2
<1> QED
    BY <1>2, <1>3

LEMMA InsertHashesKeeps ==
  ASSUME ClustersInv, NEW s \in Step, InsertHashes(s) PROVE ClustersInv'
<1> DEFINE rec == [NoTx EXCEPT !.pc = "keys", !.clusters = Added(s, step[s].rows)]
<1>1. /\ TxShaped(rec) /\ rec.clusters = Added(s, step[s].rows)
      /\ rec.contains = {} /\ rec.refs = {}
    BY DEF NoTx, TxShaped
<1>2. s \in Actor /\ Becomes(s, rec) /\ UNCHANGED <<step, Tables, prune>>
    BY DEF InsertHashes, Actor, Rest
<1> HIDE DEF rec
<1>3. OwnClusters(s, rec.clusters)
    BY <1>1, <1>2, AddedIsOwn DEF InsertHashes
<1> QED
    BY <1>1, <1>2, <1>3, StatementKeeps DEF Refers

LEMMA InsertKeysKeeps ==
  ASSUME ClustersInv, NEW s \in Step, InsertKeys(s) PROVE ClustersInv'
<1> DEFINE keys == {[step |-> s, cluster |-> c] : c \in Mapped(s, step[s].rows)}
           rec == [tx[s] EXCEPT !.pc = "commit", !.refs = keys]
<1>1. s \in Actor /\ TxOK(s)
    BY DEF Actor, ClustersInv
<1>2. \A r \in keys : r.step = s /\ r.cluster \in clusters \cup tx[s].clusters
    BY DEF Mapped, SeenClusters
<1>3. Becomes(s, rec) /\ UNCHANGED <<step, Tables, prune>>
    BY DEF InsertKeys, Rest
<1> HIDE DEF keys
<1>4. /\ TxShaped(rec) /\ rec.clusters = tx[s].clusters
      /\ rec.contains = tx[s].contains /\ rec.refs = keys
    BY <1>1 DEF TxOK, TxShaped
<1> HIDE DEF rec
<1>5. OwnClusters(s, rec.clusters) /\ Refers(s, rec)
    BY <1>1, <1>2, <1>4 DEF TxOK, Refers
<1> QED
    BY <1>1, <1>3, <1>4, <1>5, StatementKeeps

LEMMA InsertMembersKeeps ==
  ASSUME ClustersInv, NEW s \in Step, InsertMembers(s) PROVE ClustersInv'
<1> DEFINE rows == {[step |-> s, cluster |-> c] : c \in Mapped(s, HashesOf(s))}
           rec == [tx[s] EXCEPT !.pc = "commit", !.refs = rows]
<1>1. s \in Actor /\ TxOK(s)
    BY DEF Actor, ClustersInv
<1>2. \A r \in rows : r.step = s /\ r.cluster \in clusters \cup tx[s].clusters
    BY DEF Mapped, SeenClusters
<1>3. Becomes(s, rec) /\ UNCHANGED <<step, Tables, prune>>
    BY DEF InsertMembers, Rest
<1> HIDE DEF rows
<1>4. /\ TxShaped(rec) /\ rec.clusters = tx[s].clusters
      /\ rec.contains = tx[s].contains /\ rec.refs = rows
    BY <1>1 DEF TxOK, TxShaped
<1> HIDE DEF rec
<1>5. OwnClusters(s, rec.clusters) /\ Refers(s, rec)
    BY <1>1, <1>2, <1>4 DEF TxOK, Refers
<1> QED
    BY <1>1, <1>3, <1>4, <1>5, StatementKeeps

LEMMA InsertEdgesKeeps ==
  ASSUME ClustersInv, NEW s \in Step, InsertEdges(s) PROVE ClustersInv'
<1> DEFINE edges == {[step |-> s, cluster |-> c] : c \in UNION step[s].groups}
           rec == [NoTx EXCEPT !.pc = "commit", !.refs = edges]
<1>1. \A r \in edges : r.step = s /\ r.cluster \in clusters
    BY DEF InsertEdges
<1>2. s \in Actor /\ Becomes(s, rec) /\ UNCHANGED <<step, Tables, prune>>
    BY DEF InsertEdges, Actor, Rest
<1> HIDE DEF edges
<1>3. TxShaped(rec) /\ rec.clusters = {} /\ rec.contains = {} /\ rec.refs = edges
    BY DEF NoTx, TxShaped
<1> HIDE DEF rec
<1>4. OwnClusters(s, rec.clusters) /\ Refers(s, rec)
    BY <1>1, <1>3 DEF OwnClusters, Refers
<1> QED
    BY <1>2, <1>3, <1>4, StatementKeeps

LEMMA ComputeHashesKeeps ==
  ASSUME ClustersInv, NEW s \in Step, ComputeHashes(s) PROVE ClustersInv'
<1> DEFINE known(g) == Expanded(s, g) \cap clusters
           hashes == {[group |-> g, hash |-> HashOfLeaves(known(g))] :
                        g \in {h \in step[s].groups : known(h) # {}}}
           rec == [NoTx EXCEPT !.pc = "clusters", !.hashes = hashes]
<1>1. s \in Actor /\ Becomes(s, rec) /\ UNCHANGED <<step, Tables, prune>>
    BY DEF ComputeHashes, Actor, Rest
<1> HIDE DEF hashes
<1>2. TxShaped(rec) /\ rec.clusters = {} /\ rec.contains = {} /\ rec.refs = {}
    BY DEF NoTx, TxShaped
<1> HIDE DEF rec
<1>3. OwnClusters(s, rec.clusters) /\ Refers(s, rec)
    BY <1>2 DEF OwnClusters, Refers
<1> QED
    BY <1>1, <1>2, <1>3, StatementKeeps

LEMMA InsertClustersKeeps ==
  ASSUME ClustersInv, NEW s \in Step, InsertClusters(s) PROVE ClustersInv'
<1> DEFINE new == Added(s, HashesOf(s))
           rec == [tx[s] EXCEPT !.pc = "contains", !.clusters = new]
<1>1. s \in Actor /\ TxOK(s)
    BY DEF Actor, ClustersInv
<1>2. OwnClusters(s, new) /\ tx[s].clusters \subseteq new
    BY <1>1, AddedIsOwn DEF InsertClusters, Added
<1>3. Becomes(s, rec) /\ UNCHANGED <<step, Tables, prune>>
    BY DEF InsertClusters, Rest
<1> HIDE DEF new
<1>4. /\ TxShaped(rec) /\ rec.clusters = new
      /\ rec.contains = tx[s].contains /\ rec.refs = tx[s].refs
    BY <1>1 DEF TxOK, TxShaped
<1> HIDE DEF rec
<1>5. Refers(s, rec)
    BY <1>1, <1>2, <1>4 DEF TxOK, Refers
<1> QED
    BY <1>1, <1>2, <1>3, <1>4, <1>5, StatementKeeps

LEMMA InsertContainsKeeps ==
  ASSUME ClustersInv, NEW s \in Step, InsertContains(s) PROVE ClustersInv'
<1> DEFINE rows(h) == {[root |-> c, leaf |-> l] :
                         c \in Mapped(s, {h.hash}), l \in Expanded(s, h.group)}
           new == UNION {rows(h) : h \in tx[s].hashes}
           rec == [tx[s] EXCEPT !.pc = "members", !.contains = new]
<1>1. s \in Actor /\ TxOK(s)
    BY DEF Actor, ClustersInv
<1>2. /\ \A c \in new : c.leaf \in SeenClusters(s)
      /\ Becomes(s, rec) /\ UNCHANGED <<step, Tables, prune>>
    BY DEF InsertContains, Rest
<1>3. ASSUME NEW c \in new PROVE c.root \in SeenClusters(s)
    <2>1. PICK h \in tx[s].hashes : c \in rows(h)
        OBVIOUS
    <2>2. PICK d \in Mapped(s, {h.hash}), l \in Expanded(s, h.group) :
            c = [root |-> d, leaf |-> l]
        BY <2>1
    <2> QED
        BY <2>2 DEF Mapped
<1> HIDE DEF new
<1>4. /\ TxShaped(rec) /\ rec.clusters = tx[s].clusters
      /\ rec.contains = new /\ rec.refs = tx[s].refs
    BY <1>1 DEF TxOK, TxShaped
<1> HIDE DEF rec
<1>5. OwnClusters(s, rec.clusters) /\ Refers(s, rec)
    BY <1>1, <1>2, <1>3, <1>4 DEF TxOK, Refers, SeenClusters
<1> QED
    BY <1>1, <1>2, <1>4, <1>5, StatementKeeps

LEMMA FailKeeps == ASSUME ClustersInv, NEW a \in Actor, Fail(a) PROVE ClustersInv'
<1>1. OwnClusters(a, NoTx.clusters) /\ Refers(a, NoTx)
    BY NoTxOK DEF OwnClusters, Refers
<1> QED
    BY <1>1, NoTxOK, StatementKeeps DEF Fail

LEMMA GetOrCreateKeeps ==
  ASSUME ClustersInv, NEW j \in Judge, GetOrCreate(j) PROVE ClustersInv'
<1> PICK endorsed \in Partitions(item[j]) :
      LET groups == {item[j]} \cup endorsed
          hashes == {HashOfLeaves(g) : g \in groups}
          created == {g \in groups : HashOfLeaves(g) \in Missing(j, hashes)}
      IN /\ CanAdd(j, hashes)
         /\ Becomes(j, [NoTx EXCEPT !.pc = "store", !.endorsed = endorsed,
              !.clusters = Added(j, hashes),
              !.contains = UNION {{[root |-> NewCluster(HashOfLeaves(g)), leaf |-> l] :
                                     l \in g} : g \in created}])
    BY DEF GetOrCreate
<1> DEFINE groups == {item[j]} \cup endorsed
           hashes == {HashOfLeaves(g) : g \in groups}
           created == {g \in groups : HashOfLeaves(g) \in Missing(j, hashes)}
           rows(g) == {[root |-> NewCluster(HashOfLeaves(g)), leaf |-> l] : l \in g}
           new == UNION {rows(g) : g \in created}
           rec == [NoTx EXCEPT !.pc = "store", !.endorsed = endorsed,
                               !.clusters = Added(j, hashes), !.contains = new]
<1>1. j \in Actor /\ Becomes(j, rec) /\ UNCHANGED <<step, Tables, prune>>
    BY DEF Actor, GetOrCreate, Rest
<1>2. OwnClusters(j, Added(j, hashes))
    BY <1>1, AddedIsOwn
<1>3. ASSUME NEW c \in new PROVE c.root \in Added(j, hashes) /\ c.leaf \in clusters
    <2>1. PICK g \in created : c \in rows(g)
        OBVIOUS
    <2>2. PICK l \in g : c = [root |-> NewCluster(HashOfLeaves(g)), leaf |-> l]
        BY <2>1
    <2>3. g \subseteq item[j] /\ item[j] \subseteq clusters
        BY <2>1 DEF Partitions, GetOrCreate
    <2>4. HashOfLeaves(g) \in Missing(j, hashes)
        BY <2>1
    <2> QED
        BY <2>2, <2>3, <2>4 DEF Added
<1> HIDE DEF new, hashes
<1>4. /\ TxShaped(rec) /\ rec.clusters = Added(j, hashes) /\ rec.contains = new
      /\ rec.refs = {}
    BY DEF NoTx, TxShaped
<1> HIDE DEF rec
<1>5. Refers(j, rec)
    BY <1>3, <1>4 DEF Refers
<1> QED
    BY <1>1, <1>2, <1>4, <1>5, StatementKeeps

-----------------------------------------------------------------------------
(* A transaction becomes visible: its clusters are new, and what it wrote  *)
(* refers to what is now there.                                            *)
LEMMA PublishKeeps ==
  ASSUME ClustersInv, NEW a \in Actor, Becomes(a, NoTx),
         clusters' = clusters \cup tx[a].clusters, used' = used \cup tx[a].clusters,
         contains' = contains \cup tx[a].contains, refs' = refs \cup tx[a].refs
  PROVE  /\ clusters' \subseteq used'
         /\ \A c \in used' : c = [hash |-> c.hash, gen |-> c.gen] /\ c.gen \in 1..MaxGen
         /\ \A c, d \in clusters' : c.hash = d.hash => c = d
         /\ \A c \in contains' : c.root \in clusters' /\ c.leaf \in clusters'
         /\ \A r \in refs' : r.step \in Step /\ r.cluster \in clusters'
         /\ tx' = [b \in Actor |-> tx'[b]]
         /\ \A b \in Actor : TxOK(b)'
<1> USE DEF ClustersInv
<1>1. /\ tx' = [b \in Actor |-> tx'[b]] /\ tx'[a] = NoTx
      /\ \A b \in Actor \ {a} : tx'[b] = tx[b]
    BY DEF Becomes, Shaped
<1>2. OwnClusters(a, tx[a].clusters) /\ Refers(a, tx[a])
    BY DEF TxOK
<1>3. /\ clusters' \subseteq used'
      /\ \A c \in used' : c = [hash |-> c.hash, gen |-> c.gen] /\ c.gen \in 1..MaxGen
    BY <1>2 DEF TypeOK, OwnClusters
<1>4. \A c, d \in clusters' : c.hash = d.hash => c = d
    BY <1>2 DEF TypeOK, OwnClusters
<1>5. \A c \in contains' : c.root \in clusters' /\ c.leaf \in clusters'
    BY <1>2 DEF TypeOK, Refers
<1>6. \A r \in refs' : r.step \in Step /\ r.cluster \in clusters'
    BY <1>2 DEF TypeOK, Refers
<1>7. ASSUME NEW b \in Actor PROVE TxOK(b)'
    <2>1. CASE b = a
        BY <2>1, <1>1, NoTxOK DEF TxOK, OwnClusters, Refers
    <2>2. CASE b # a
        <3>1. TxOK(b) /\ tx'[b] = tx[b]
            BY <2>2, <1>1
        <3>2. \A c \in tx[b].clusters : \A d \in tx[a].clusters : d.hash # c.hash
            BY <2>2, <3>1 DEF TxOK, OwnClusters
        <3>3. OwnClusters(b, tx[b].clusters)'
            BY <1>1, <2>2, <3>1, <3>2, NoTxOK DEF TxOK, OwnClusters
        <3> QED
            BY <1>1, <3>1, <3>3 DEF TxOK, Refers
    <2> QED  BY <2>1, <2>2
<1> QED
    BY <1>1, <1>3, <1>4, <1>5, <1>6, <1>7

LEMMA CommitKeeps == ASSUME ClustersInv, NEW s \in Step, Commit(s) PROVE ClustersInv'
<1> USE DEF ClustersInv
<1> DEFINE touched == tx[s].touched \/ prune.phase = "deleting"
           new == [step[s] EXCEPT !.stage = "complete", !.touched = touched]
<1>1. /\ s \in Actor /\ Becomes(s, NoTx) /\ UNCHANGED <<judgements, prune>>
      /\ clusters' = clusters \cup tx[s].clusters /\ used' = used \cup tx[s].clusters
      /\ contains' = contains \cup tx[s].contains /\ refs' = refs \cup tx[s].refs
    BY DEF Commit, Actor, Rest
<1>2. /\ clusters' \subseteq used'
      /\ \A c \in used' : c = [hash |-> c.hash, gen |-> c.gen] /\ c.gen \in 1..MaxGen
      /\ \A c, d \in clusters' : c.hash = d.hash => c = d
      /\ \A c \in contains' : c.root \in clusters' /\ c.leaf \in clusters'
      /\ \A r \in refs' : r.step \in Step /\ r.cluster \in clusters'
      /\ tx' = [b \in Actor |-> tx'[b]]
      /\ \A b \in Actor : TxOK(b)'
    BY <1>1, PublishKeeps
<1>3. step' = [step EXCEPT ![s] = new]
    BY DEF Commit, Shaped
<1>4. /\ StepShaped(new) /\ new.stage = "complete" /\ new.touched = touched
    <2>1. StepShaped(step[s])
        BY DEF Shaped
    <2> HIDE DEF touched
    <2> QED
        BY <2>1 DEF StepShaped
<1> HIDE DEF new
<1>5. /\ step' = [t \in Step |-> step'[t]] /\ step'[s] = new
      /\ \A t \in Step \ {s} : step'[t] = step[t]
    BY <1>3 DEF Shaped
<1>6. TypeOK' /\ Shaped'
    BY <1>1, <1>2, <1>4, <1>5 DEF TypeOK, Shaped
<1>7. ASSUME NEW r \in refs' PROVE r \in refs \/ r.step = s
    BY <1>1 DEF TxOK, Refers
<1>8. OnlyComplete'
    BY <1>2, <1>4, <1>5, <1>7 DEF OnlyComplete
<1>9. ASSUME NEW r \in refs', prune'.phase = "deleting", r.cluster \in prune'.victims
      PROVE  step'[r.step].touched
    <2>1. CASE r.step = s
        BY <2>1, <1>1, <1>4, <1>5, <1>9
    <2>2. CASE r.step # s
        BY <2>2, <1>1, <1>2, <1>5, <1>7, <1>9 DEF VictimsAreNew
    <2> QED  BY <2>1, <2>2
<1> QED
    BY <1>2, <1>6, <1>8, <1>9 DEF VictimsAreNew

LEMMA StoreJudgementKeeps ==
  ASSUME ClustersInv, NEW j \in Judge, StoreJudgement(j) PROVE ClustersInv'
<1> USE DEF ClustersInv
<1> DEFINE rows(g) == {[user |-> j, shown |-> c, endorsed |-> d] :
                         c \in ClusterOf(j, item[j]), d \in ClusterOf(j, g)}
           new == UNION {rows(g) : g \in tx[j].endorsed}
<1>1. j \in Actor /\ j \notin Step
    BY ClustersAssumption DEF Actor
<1>2. /\ Becomes(j, NoTx) /\ UNCHANGED <<step, prune>>
      /\ clusters' = clusters \cup tx[j].clusters /\ used' = used \cup tx[j].clusters
      /\ contains' = contains \cup tx[j].contains /\ refs' = refs
      /\ judgements' = judgements \cup new
    BY DEF StoreJudgement
<1>3. tx[j].refs = {}
    BY <1>1 DEF TxOK, Refers
<1>4. /\ clusters' \subseteq used'
      /\ \A c \in used' : c = [hash |-> c.hash, gen |-> c.gen] /\ c.gen \in 1..MaxGen
      /\ \A c, d \in clusters' : c.hash = d.hash => c = d
      /\ \A c \in contains' : c.root \in clusters' /\ c.leaf \in clusters'
      /\ \A r \in refs' : r.step \in Step /\ r.cluster \in clusters'
      /\ tx' = [b \in Actor |-> tx'[b]]
      /\ \A b \in Actor : TxOK(b)'
    BY <1>1, <1>2, <1>3, PublishKeeps
<1>5. ASSUME NEW g \in new
      PROVE  g.user = j /\ g.shown \in clusters' /\ g.endorsed \in clusters'
    <2>1. PICK h \in tx[j].endorsed : g \in rows(h)
        OBVIOUS
    <2>2. PICK c \in ClusterOf(j, item[j]), d \in ClusterOf(j, h) :
            g = [user |-> j, shown |-> c, endorsed |-> d]
        BY <2>1
    <2> QED
        BY <1>2, <2>2 DEF ClusterOf, Mapped, SeenClusters
<1> HIDE DEF new
<1>6. TypeOK' /\ Shaped' /\ OnlyComplete' /\ VictimsAreNew'
    BY <1>2, <1>4, <1>5 DEF TypeOK, Shaped, OnlyComplete, VictimsAreNew
<1> QED
    BY <1>4, <1>6

-----------------------------------------------------------------------------
(* What a transaction knows of the others changes with the tables only.    *)
LEMMA SameTx ==
  ASSUME ClustersInv, UNCHANGED <<clusters, used, tx>>
  PROVE  \A a \in Actor : TxOK(a)'
BY DEF ClustersInv, TxOK, OwnClusters, Refers

LEMMA DeclareKeeps == ASSUME ClustersInv, NEW s \in Step, Declare(s) PROVE ClustersInv'
<1> USE DEF ClustersInv
<1>1. PICK rows \in Rows(s), groups \in Groups(s) :
        step' = [step EXCEPT ![s] = [stage |-> "ready", rows |-> rows,
                                     groups |-> groups,
                                     empty |-> FALSE, touched |-> FALSE]]
    BY DEF Declare
<1> DEFINE new == [stage |-> "ready", rows |-> rows, groups |-> groups,
                   empty |-> FALSE, touched |-> FALSE]
<1>2. StepShaped(new)
    BY DEF StepShaped
<1> HIDE DEF new
<1>3. /\ step' = [t \in Step |-> step'[t]] /\ step'[s] = new
      /\ \A t \in Step \ {s} : step'[t] = step[t]
    BY <1>1 DEF Shaped, new
<1>4. UNCHANGED <<clusters, used, contains, refs, judgements, tx, prune>>
    BY DEF Declare
<1>5. \A r \in refs : r.step \in Step /\ r.step # s
    BY DEF Declare, OnlyComplete, TypeOK
<1>6. Shaped' /\ TypeOK' /\ OnlyComplete' /\ VictimsAreNew'
    BY <1>2, <1>3, <1>4, <1>5 DEF Shaped, TypeOK, OnlyComplete, VictimsAreNew
<1> QED
    BY <1>4, <1>6, SameTx

LEMMA InsertNothingKeeps ==
  ASSUME ClustersInv, NEW s \in Step, InsertNothing(s) PROVE ClustersInv'
<1> USE DEF ClustersInv
<1> DEFINE declared == step[s].rows \cup step[s].groups
           empty == declared # {}
           new == [step[s] EXCEPT !.stage = "complete", !.empty = empty]
<1>1. step' = [step EXCEPT ![s] = new]
    BY DEF InsertNothing, Shaped
<1>2. StepShaped(step[s])
    BY DEF Shaped
<1> HIDE DEF empty
<1>3. StepShaped(new) /\ new.stage = "complete" /\ new.touched = step[s].touched
    BY <1>2 DEF StepShaped
<1> HIDE DEF new
<1>4. /\ step' = [t \in Step |-> step'[t]] /\ step'[s] = new
      /\ \A t \in Step \ {s} : step'[t] = step[t]
    BY <1>1 DEF Shaped
<1>5. UNCHANGED <<clusters, used, contains, refs, judgements, tx, prune>>
    BY DEF InsertNothing, Tables, Rest
<1>6. Shaped' /\ TypeOK' /\ OnlyComplete' /\ VictimsAreNew'
    BY <1>3, <1>4, <1>5 DEF Shaped, TypeOK, OnlyComplete, VictimsAreNew
<1> QED
    BY <1>5, <1>6, SameTx

LEMMA DeleteStepKeeps ==
  ASSUME ClustersInv, NEW s \in Step, DeleteStep(s) PROVE ClustersInv'
<1> USE DEF ClustersInv
<1> DEFINE gone == {t \in Step : s \in Elements(Lineage[t])}
<1>1. /\ step' = [t \in Step |-> IF t \in gone THEN Absent ELSE step[t]]
      /\ refs' = {r \in refs : r.step \notin gone}
      /\ UNCHANGED <<clusters, used, contains, judgements, tx, prune>>
    BY DEF DeleteStep
<1>2. StepShaped(Absent)
    BY DEF Absent, StepShaped
<1> HIDE DEF gone
<1>3. /\ step' = [t \in Step |-> step'[t]]
      /\ \A t \in Step : step'[t] = IF t \in gone THEN Absent ELSE step[t]
    BY <1>1
<1>4. Shaped' /\ TypeOK' /\ OnlyComplete' /\ VictimsAreNew'
    BY <1>1, <1>2, <1>3 DEF Shaped, TypeOK, OnlyComplete, VictimsAreNew
<1> QED
    BY <1>1, <1>4, SameTx

LEMMA SampleKeeps == ASSUME ClustersInv, NEW j \in Judge, Sample(j) PROVE ClustersInv'
<1>1. UNCHANGED <<step, clusters, used, contains, refs, judgements, tx, prune>>
    BY DEF Sample, Tables
<1> QED
    BY <1>1, SameTx DEF ClustersInv, TypeOK, Shaped, OnlyComplete, VictimsAreNew

LEMMA FindOrphansKeeps == ASSUME ClustersInv, FindOrphans PROVE ClustersInv'
<1>1. /\ UNCHANGED <<step, clusters, used, contains, refs, judgements, tx>>
      /\ prune' = [phase |-> "deleting", victims |-> clusters \ Referenced]
    BY DEF FindOrphans, Tables
<1>2. \A r \in refs : r.cluster \notin prune'.victims
    BY <1>1 DEF Referenced
<1> QED
    BY <1>1, <1>2, SameTx DEF ClustersInv, TypeOK, Shaped, OnlyComplete, VictimsAreNew

(* The foreign keys that a transaction holds keep what it refers to.       *)
LEMMA DeleteOrphansKeeps == ASSUME ClustersInv, DeleteOrphans PROVE ClustersInv'
<1> USE DEF ClustersInv
<1> DEFINE gone == prune.victims
<1>1. /\ clusters' = clusters \ gone /\ used' = used /\ step' = step
      /\ contains' = {c \in contains : c.root \notin gone /\ c.leaf \notin gone}
      /\ refs' = {r \in refs : r.cluster \notin gone}
      /\ judgements' = {g \in judgements : g.shown \notin gone /\ g.endorsed \notin gone}
      /\ prune' = [phase |-> "idle", victims |-> {}]
      /\ tx' = [a \in Actor |-> IF tx[a].pc = "idle" THEN NoTx
                                ELSE [tx[a] EXCEPT !.touched = TRUE]]
    BY DEF DeleteOrphans
<1>2. ASSUME NEW a \in Actor
      PROVE  /\ TxShaped(tx'[a]) /\ tx'[a].clusters \subseteq tx[a].clusters
             /\ tx'[a] = NoTx \/ /\ tx'[a].clusters = tx[a].clusters
                                 /\ tx'[a].contains = tx[a].contains
                                 /\ tx'[a].refs = tx[a].refs
    <2>1. TxShaped(tx[a])
        BY DEF TxOK
    <2>2. CASE tx[a].pc = "idle"
        BY <1>1, <2>2, NoTxOK
    <2>3. CASE tx[a].pc # "idle"
        <3> DEFINE rec == [tx[a] EXCEPT !.touched = TRUE]
        <3>1. /\ TxShaped(rec) /\ rec.clusters = tx[a].clusters
              /\ rec.contains = tx[a].contains /\ rec.refs = tx[a].refs
            BY <2>1 DEF TxShaped
        <3>2. tx'[a] = rec
            BY <1>1, <2>3
        <3> QED
            BY <3>1, <3>2
    <2> QED
        BY <2>2, <2>3
<1>3. ASSUME NEW a \in Actor PROVE TxOK(a)'
    <2>1. OwnClusters(a, tx[a].clusters) /\ Refers(a, tx[a])
        BY DEF TxOK
    <2>2. OwnClusters(a, tx[a].clusters)'
        <3>1. /\ tx'[a].clusters \subseteq tx[a].clusters
              /\ \A b \in Actor : tx'[b].clusters \subseteq tx[b].clusters
              /\ clusters' \subseteq clusters /\ used' = used
            BY <1>1, <1>2
        <3> QED
            BY <2>1, <3>1 DEF OwnClusters
    <2>3. Refers(a, tx[a])'
        <3>1. CASE tx'[a] = NoTx
            BY <3>1, NoTxOK DEF Refers
        <3>2. CASE tx'[a] # NoTx
            <4>1. Locked(a) \cap gone = {}
                BY DEF DeleteOrphans
            <4> QED
                BY <1>1, <1>2, <2>1, <3>2, <4>1 DEF Refers, Locked
        <3> QED  BY <3>1, <3>2
    <2> QED
        BY <1>2, <2>2, <2>3 DEF TxOK
<1>4. tx' = [a \in Actor |-> tx'[a]]
    BY <1>1
<1>5. TypeOK' /\ Shaped' /\ OnlyComplete' /\ VictimsAreNew'
    BY <1>1, <1>4 DEF TypeOK, Shaped, OnlyComplete, VictimsAreNew
<1> QED
    BY <1>3, <1>5

LEMMA NextInv == ClustersInv /\ [Next]_vars => ClustersInv'
<1> SUFFICES ASSUME ClustersInv, [Next]_vars PROVE ClustersInv'
    OBVIOUS
<1>1. ASSUME NEW s \in Step, StepActions(s) PROVE ClustersInv'
    BY <1>1, DeclareKeeps, DeleteStepKeeps, InsertNothingKeeps, InsertHashesKeeps,
       InsertKeysKeeps, InsertEdgesKeeps, ComputeHashesKeeps, InsertClustersKeeps,
       InsertContainsKeeps, InsertMembersKeeps, CommitKeeps DEF StepActions
<1>2. ASSUME NEW j \in Judge, JudgeActions(j) PROVE ClustersInv'
    BY <1>2, SampleKeeps, GetOrCreateKeeps, StoreJudgementKeeps DEF JudgeActions
<1>3. CASE UNCHANGED vars
    <2>1. UNCHANGED <<step, clusters, used, contains, refs, judgements, tx, prune>>
        BY <1>3 DEF vars
    <2> QED
        BY <2>1, SameTx DEF ClustersInv, TypeOK, Shaped, OnlyComplete, VictimsAreNew
<1> QED
    BY <1>1, <1>2, <1>3, FailKeeps, FindOrphansKeeps, DeleteOrphansKeeps DEF Next

(* Only delete_orphans takes a row from contains.                          *)
LEMMA LeavesKeep ==
  ClustersInv /\ [Next]_vars =>
    \A c \in contains : c.root \in clusters' /\ c \notin contains' =>
      \A r \in refs : r.step \in Source /\ r.cluster = c.leaf => step[r.step].touched
<1> SUFFICES ASSUME ClustersInv, [Next]_vars, NEW c \in contains,
                    c.root \in clusters', c \notin contains',
                    NEW r \in refs, r.cluster = c.leaf
             PROVE  step[r.step].touched
    OBVIOUS
<1>1. DeleteOrphans
    <2>1. ASSUME NEW s \in Step, StepActions(s) PROVE c \in contains'
        <3>1. InsertNothing(s) \/ Declare(s) \/ DeleteStep(s) => c \in contains'
            BY DEF InsertNothing, Declare, DeleteStep, Tables
        <3>2. Commit(s) => contains' = contains \cup tx[s].contains
            BY DEF Commit
        <3> QED
            BY <2>1, <3>1, <3>2 DEF StepActions, InsertHashes, InsertKeys, InsertEdges,
               ComputeHashes, InsertClusters, InsertContains, InsertMembers, Tables
    <2>2. ASSUME NEW j \in Judge, JudgeActions(j) PROVE c \in contains'
        <3>1. Sample(j) => c \in contains'
            BY DEF Sample, Tables
        <3>2. GetOrCreate(j) => c \in contains'
            BY DEF GetOrCreate, Tables
        <3>3. StoreJudgement(j) => contains' = contains \cup tx[j].contains
            BY DEF StoreJudgement
        <3> QED
            BY <2>2, <3>1, <3>2, <3>3 DEF JudgeActions
    <2>3. ASSUME NEW a \in Actor, Fail(a) PROVE c \in contains'
        BY <2>3 DEF Fail, Tables
    <2>4. FindOrphans => c \in contains'
        BY DEF FindOrphans, Tables
    <2>5. UNCHANGED vars => c \in contains'
        BY DEF vars
    <2> QED
        BY <2>1, <2>2, <2>3, <2>4, <2>5 DEF Next
<1>2. prune.phase = "deleting" /\ c.leaf \in prune.victims
    BY <1>1 DEF DeleteOrphans
<1> QED
    BY <1>2 DEF ClustersInv, VictimsAreNew

-----------------------------------------------------------------------------
(* The invariant of every state: the clusters of transactions at work are  *)
(* their own, and what delete_orphans is about to delete is referred to by *)
(* nobody who was there when it looked.                                    *)
THEOREM ClustersInvariant == Spec => []ClustersInv
<1> QED
    BY InitInv, NextInv, PTL DEF Spec

(* A hash has one cluster, and every row of contains, of a step and of a   *)
(* judgement refers to clusters that exist, whatever is inserted and       *)
(* deleted at the same time.                                               *)
THEOREM ClustersTyped == Spec => []TypeOK
<1>1. ClustersInv => TypeOK
    BY DEF ClustersInv
<1> QED
    BY <1>1, ClustersInvariant, PTL

(* As long as a source has a key for a leaf, no cluster loses the leaf,    *)
(* unless the key was committed while delete_orphans was waiting.          *)
THEOREM RootsAreKept == Spec => LeavesKeepTheirRoots
<1> QED
    BY ClustersInvariant, LeavesKeep, PTL DEF Spec, LeavesKeepTheirRoots
=============================================================================
