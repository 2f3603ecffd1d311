-------------------------- MODULE StepSync_proofs --------------------------
(***************************************************************************)
(* The types of StepSync, and its lineage: for any number of clients, any  *)
(* DAGs and any number of syncs, step_from is the closure of the edges and *)
(* a deletion takes all that is built on the step it deletes, but for what *)
(* is created below it before it commits.                                  *)
(***************************************************************************)
EXTENDS StepSync, TLAPS

(***************************************************************************)
(* Types.                                                                  *)
(***************************************************************************)
LEMMA IdleTyped ==
  /\ Idle \in Records /\ [Idle EXCEPT !.result = "raised"] \in Records
  /\ \A w \in Configs : [Idle EXCEPT !.pc = "get", !.want = w] \in Records
<1>1. (CHOOSE w \in Configs : TRUE) \in Configs
    BY StepSyncAssumption
<1> QED
    BY <1>1 DEF Idle, Records, PCs

LEMMA FieldsTyped ==
  ASSUME NEW rec \in Records
  PROVE  /\ \A pc \in PCs : [rec EXCEPT !.pc = pc] \in Records
         /\ \A pc \in PCs, result \in {"none", "ok"} :
              [rec EXCEPT !.pc = pc, !.result = result] \in Records
         /\ \A v \in SUBSET Nat, pc \in PCs :
              [rec EXCEPT !.pc = pc, !.victims = v] \in Records
         /\ [rec EXCEPT !.made = TRUE] \in Records
         /\ [rec EXCEPT !.victims = {}] \in Records
BY DEF Records

LEMMA BecomesTyped ==
  ASSUME ClientsTyped, NEW c \in Clients, NEW rec \in Records, Becomes(c, rec)
  PROVE  client' \in [Clients -> Records]
BY DEF ClientsTyped, Becomes

LEMMA MovesTyped ==
  ASSUME ClientsTyped, NEW c \in Clients, NEW pc \in PCs, Moves(c, pc)
  PROVE  client' \in [Clients -> Records]
<1>1. client[c] \in Records
    BY DEF ClientsTyped
<1> QED
    BY <1>1, FieldsTyped, BecomesTyped DEF Moves

LEMMA RaisesTyped ==
  ASSUME TypeOK, NEW c \in Clients, Raises(c)
  PROVE  TypeOK'
<1>1. client' \in [Clients -> Records]
    BY IdleTyped, BecomesTyped DEF Raises, Aborts, TypeOK
<1> QED
    BY <1>1 DEF TypeOK, ServerTyped, ClientsTyped, Raises, server, Live

LEMMA AnsweredTyped ==
  ASSUME ClientsTyped, NEW c \in Clients, NEW rec \in Records,
         NEW next \in PCs, NEW again \in PCs,
         Answered(c, rec, next, again), Disturbs(c), syncs' = syncs
  PROVE  ClientsTyped'
<1>1. client' \in [Clients -> Records]
    BY FieldsTyped, BecomesTyped DEF Answered
<1>2. lost' \in 0..MaxLost
    BY StepSyncAssumption DEF Answered, ClientsTyped
<1> QED
    BY <1>1, <1>2 DEF ClientsTyped, Disturbs

LEMMA QuietTyped ==
  ASSUME TypeOK, NEW c \in Clients, NEW pc \in PCs, Moves(c, pc),
         UNCHANGED <<server, clean, late, syncs, lost>>
  PROVE  TypeOK'
<1>1. client' \in [Clients -> Records]
    BY MovesTyped DEF TypeOK
<1> QED
    BY <1>1 DEF TypeOK, ServerTyped, ClientsTyped, server, Live

(* A rewritten step keeps its name, type, inputs and stage.                *)
LEMMA RewrittenTyped ==
  ASSUME ServerTyped, NEW id \in Live, NEW w \in Configs
  PROVE  /\ Rewritten(id, w) \in [Live -> [config : Stored, stage : {"READY", "COMPLETE"}]]
         /\ \A i \in Live : /\ Rewritten(id, w)[i].config.name = step[i].config.name
                            /\ Rewritten(id, w)[i].config.type = step[i].config.type
                            /\ Rewritten(id, w)[i].config.inputs = step[i].config.inputs
<1> DEFINE old == step[id].config
           new == [old EXCEPT !.setting = w.setting]
<1>1. step[id] \in [config : Stored, stage : {"READY", "COMPLETE"}] /\ old \in Stored
    BY DEF ServerTyped
<1>2. w.setting \in {v.setting : v \in Configs}
    OBVIOUS
<1>3. new \in Stored /\ new.name = old.name /\ new.type = old.type /\ new.inputs = old.inputs
    BY <1>1, <1>2 DEF Stored
<1>4. [step[id] EXCEPT !.config = new] \in [config : Stored, stage : {"READY", "COMPLETE"}]
    BY <1>1, <1>3
<1>5. Rewritten(id, w) = [step EXCEPT ![id] = [step[id] EXCEPT !.config = new]]
    BY <1>1 DEF Rewritten, ServerTyped
<1>6. [step[id] EXCEPT !.config = new].config = new
    BY <1>1
<1> HIDE DEF new, old
<1>7. Rewritten(id, w) \in [Live -> [config : Stored, stage : {"READY", "COMPLETE"}]]
    BY <1>4, <1>5 DEF ServerTyped
<1>8. ASSUME NEW i \in Live
      PROVE  \/ i # id /\ Rewritten(id, w)[i] = step[i]
             \/ i = id /\ Rewritten(id, w)[i].config = new
    BY <1>5, <1>6 DEF ServerTyped
<1> QED
    BY <1>3, <1>7, <1>8 DEF old

LEMMA UpdateTyped ==
  ASSUME TypeOK, NEW c \in Clients, UpdateStep(c)
  PROVE  TypeOK'
<1> DEFINE w == client[c].want
<1>1. CASE Raises(c)
    BY <1>1, RaisesTyped
<1>2. CASE \E id \in Called(w.name) :
             /\ step' = Rewritten(id, w)
             /\ Answered(c, client[c], "idle", "update")
             /\ Disturbs(c)
             /\ UNCHANGED <<from, last, mutable, late, syncs>>
  <2>1. client[c] \in Records /\ w \in Configs
      BY DEF TypeOK, ClientsTyped, Records
  <2>2. ClientsTyped'
      BY <1>2, <2>1, AnsweredTyped DEF TypeOK, PCs
  <2>3. PICK id \in Live : step' = Rewritten(id, w)
      BY <1>2 DEF Called
  <2>5. /\ Live' = Live
        /\ step' \in [Live -> [config : Stored, stage : {"READY", "COMPLETE"}]]
        /\ \A i \in Live : step'[i].config.name = step[i].config.name
      BY <2>1, <2>3, RewrittenTyped DEF TypeOK, Live
  <2> QED
      BY <1>2, <2>2, <2>5 DEF TypeOK, ServerTyped
<1> QED
    BY <1>1, <1>2 DEF UpdateStep

LEMMA DeleteReadTyped ==
  ASSUME TypeOK, NEW c \in Clients, DeleteRead(c)
  PROVE  TypeOK'
<1>1. CASE Raises(c)
    BY <1>1, RaisesTyped
<1>2. CASE \E id \in Called(client[c].want.name) :
             /\ Becomes(c, [client[c] EXCEPT !.pc = "delete_commit",
                                              !.victims = {id} \cup Descendants(id)])
             /\ UNCHANGED <<server, clean, late, syncs, lost>>
  <2>1. PICK id \in Live :
               /\ Becomes(c, [client[c] EXCEPT !.pc = "delete_commit",
                                                !.victims = {id} \cup Descendants(id)])
               /\ UNCHANGED <<server, clean, late, syncs, lost>>
      BY <1>2 DEF Called
  <2>2. {id} \cup Descendants(id) \in SUBSET Nat
    <3>1. Live \subseteq Nat
        BY DEF TypeOK, ServerTyped
    <3> QED
        BY <3>1 DEF Descendants
  <2>3. client[c] \in Records /\ "delete_commit" \in PCs
      BY DEF TypeOK, ClientsTyped, PCs
  <2>4. client' \in [Clients -> Records]
      BY <2>1, <2>2, <2>3, FieldsTyped, BecomesTyped DEF TypeOK
  <2> QED
      BY <2>1, <2>4 DEF TypeOK, ServerTyped, ClientsTyped, server, Live
<1> QED
    BY <1>1, <1>2 DEF DeleteRead

LEMMA DeleteCommitTyped ==
  ASSUME TypeOK, NEW c \in Clients, DeleteCommit(c)
  PROVE  TypeOK'
<1> DEFINE gone == client[c].victims
<1>1. client[c] \in Records
    BY DEF TypeOK, ClientsTyped
<1>2. ClientsTyped'
    BY <1>1, FieldsTyped, AnsweredTyped DEF DeleteCommit, TypeOK, PCs
<1>3. Live' = Live \ gone /\ \A i \in Live \ gone : step'[i] = step[i]
    BY DEF DeleteCommit, Live
<1>4. from' \subseteq [parent : Live', child : Live', level : Nat \ {0}]
    BY <1>3 DEF DeleteCommit, Cascade, TypeOK, ServerTyped
<1>5. step' \in [Live' -> [config : Stored, stage : {"READY", "COMPLETE"}]]
    BY <1>3 DEF DeleteCommit, TypeOK, ServerTyped, Live
<1> QED
    BY <1>2, <1>3, <1>4, <1>5 DEF DeleteCommit, TypeOK, ServerTyped

LEMMA NewRowsTyped ==
  ASSUME ServerTyped, NEW id \in Nat, NEW parents \in SUBSET Live
  PROVE  NewRows(id, parents) \subseteq [parent : Live, child : {id}, level : Nat \ {0}]
<1>1. ASSUME NEW p \in parents
      PROVE  Row(p, id, 1) \in [parent : Live, child : {id}, level : Nat \ {0}]
    BY <1>1 DEF Row
<1>2. ASSUME NEW r \in from
      PROVE  Row(r.parent, id, r.level + 1) \in [parent : Live, child : {id}, level : Nat \ {0}]
    BY <1>2 DEF Row, ServerTyped
<1> QED
    BY <1>1, <1>2 DEF NewRows

(* What create_step does when it succeeds.                                 *)
Created(w, id) ==
  /\ id = last + 1 /\ last' = id
  /\ Called(w.name) = {} /\ InputsAreThere(w)
  /\ step' = [i \in Live \cup {id} |->
                IF i = id THEN [config |-> w, stage |-> "READY"] ELSE step[i]]
  /\ from' = from \cup NewRows(id, InputIds(w))
  /\ late' = IF \E r \in NewRows(id, InputIds(w)) : r.parent \in Doomed
             THEN late \cup {id} ELSE late

LEMMA CreateCommitCases ==
  ASSUME NEW c \in Clients, CreateCommit(c)
  PROVE  \/ Raises(c)
         \/ /\ Created(client[c].want, last + 1)
            /\ Answered(c, [client[c] EXCEPT !.made = TRUE], "set_data", "create_check")
            /\ Disturbs(c)
            /\ UNCHANGED <<mutable, syncs>>
BY DEF CreateCommit, Created

LEMMA ConfigStored ==
  ASSUME NEW w \in Configs
  PROVE  w \in Stored /\ w.type \in Types
<1>1. w = [name |-> w.name, type |-> w.type, inputs |-> w.inputs,
           fp |-> w.fp, setting |-> w.setting] /\ w.type \in Types
    BY StepSyncAssumption DEF Types
<1> QED
    BY <1>1 DEF Stored

LEMMA CreatedTyped ==
  ASSUME ServerTyped, NEW w \in Configs, NEW id, Created(w, id), mutable' = mutable
  PROVE  ServerTyped'
<1>1. id \in Nat /\ id \notin Live /\ Live' = Live \cup {id} /\ Live' \subseteq 1..last' /\ last' \in Nat
    BY DEF Created, ServerTyped, Live
<1>2. \A i \in Live : step'[i] = step[i]
    BY <1>1 DEF Created
<1>3. step'[id] = [config |-> w, stage |-> "READY"]
    BY <1>1 DEF Created
<1>4. [config |-> w, stage |-> "READY"] \in [config : Stored, stage : {"READY", "COMPLETE"}]
    BY ConfigStored
<1>5. step' \in [Live' -> [config : Stored, stage : {"READY", "COMPLETE"}]]
    BY <1>1, <1>4 DEF Created, ServerTyped
<1>6. \A i \in Live : step'[i].config.name # step'[id].config.name
    BY <1>2, <1>3 DEF Created, Called
<1>7. from' \subseteq [parent : Live', child : Live', level : Nat \ {0}]
    BY <1>1, NewRowsTyped DEF Created, ServerTyped, InputIds
<1> QED
    BY <1>1, <1>2, <1>5, <1>6, <1>7 DEF ServerTyped, Created

LEMMA CreateCommitTyped ==
  ASSUME TypeOK, NEW c \in Clients, CreateCommit(c)
  PROVE  TypeOK'
<1>1. CASE Raises(c)
    BY <1>1, RaisesTyped
<1>2. CASE /\ Created(client[c].want, last + 1)
           /\ Answered(c, [client[c] EXCEPT !.made = TRUE], "set_data", "create_check")
           /\ Disturbs(c)
           /\ UNCHANGED <<mutable, syncs>>
  <2>1. client[c] \in Records /\ client[c].want \in Configs
      BY DEF TypeOK, ClientsTyped, Records
  <2>2. ClientsTyped'
      BY <1>2, <2>1, FieldsTyped, AnsweredTyped DEF TypeOK, PCs
  <2>3. ServerTyped'
      BY <1>2, <2>1, CreatedTyped DEF TypeOK
  <2> QED
      BY <2>2, <2>3 DEF TypeOK
<1> QED
    BY <1>1, <1>2, CreateCommitCases

LEMMA SetDataTyped ==
  ASSUME TypeOK, NEW c \in Clients, SetData(c)
  PROVE  TypeOK'
<1>1. CASE Raises(c)
    BY <1>1, RaisesTyped
<1>2. CASE \E id \in Called(client[c].want.name) :
             /\ step' = [step EXCEPT ![id].stage = "COMPLETE"]
             /\ Answered(c, client[c], "idle", "set_data")
             /\ Disturbs(c)
             /\ UNCHANGED <<from, last, mutable, late, syncs>>
  <2>1. client[c] \in Records
      BY DEF TypeOK, ClientsTyped
  <2>2. ClientsTyped'
      BY <1>2, <2>1, AnsweredTyped DEF TypeOK, PCs
  <2>3. PICK id \in Live : step' = [step EXCEPT ![id].stage = "COMPLETE"]
      BY <1>2 DEF Called
  <2>4. /\ Live' = Live
        /\ step' \in [Live -> [config : Stored, stage : {"READY", "COMPLETE"}]]
        /\ \A i \in Live : step'[i].config = step[i].config
      BY <2>3 DEF TypeOK, ServerTyped, Live
  <2> QED
      BY <1>2, <2>2, <2>4 DEF TypeOK, ServerTyped
<1> QED
    BY <1>1, <1>2 DEF SetData

(* Every row, every client and every table is well-typed in each state.    *)
THEOREM SyncTyped == Spec => []TypeOK
<1>1. Init => TypeOK
  <2> SUFFICES ASSUME Init PROVE TypeOK
      OBVIOUS
  <2>1. ClientsTyped
    <3>1. client \in [Clients -> Records] /\ clean \subseteq Clients
        BY IdleTyped DEF Init
    <3>2. syncs \in 0..MaxSyncs /\ lost \in 0..MaxLost
        BY StepSyncAssumption DEF Init
    <3> QED
        BY <3>1, <3>2 DEF ClientsTyped
  <2>2. ServerTyped
      BY DEF Init, ServerTyped, Live
  <2> QED
      BY <2>1, <2>2 DEF TypeOK
<1>2. TypeOK /\ [Next]_vars => TypeOK'
  <2> SUFFICES ASSUME TypeOK, [Next]_vars PROVE TypeOK'
      OBVIOUS
  <2>1. ASSUME NEW c \in Clients, NEW w \in Configs, StartSync(c, w) PROVE TypeOK'
    <3>1. client' \in [Clients -> Records]
        BY <2>1, IdleTyped, BecomesTyped DEF StartSync, TypeOK
    <3>2. syncs' \in 0..MaxSyncs
        BY <2>1, StepSyncAssumption DEF StartSync, TypeOK, ClientsTyped
    <3> QED
        BY <2>1, <3>1, <3>2 DEF StartSync, TypeOK, ServerTyped, ClientsTyped, server, Live
  <2>2. ASSUME NEW c \in Clients, GetStep(c) PROVE TypeOK'
    <3>1. Raises(c) \/ \E pc \in PCs : Moves(c, pc) /\ UNCHANGED <<server, clean, late, syncs, lost>>
        BY <2>2 DEF GetStep, PCs
    <3> QED
        BY <3>1, RaisesTyped, QuietTyped
  <2>3. ASSUME NEW c \in Clients, UpdateStep(c) PROVE TypeOK'
      BY <2>3, UpdateTyped
  <2>4. ASSUME NEW c \in Clients, DeleteCheck(c) PROVE TypeOK'
      BY <2>4, RaisesTyped, QuietTyped DEF DeleteCheck, PCs
  <2>5. ASSUME NEW c \in Clients, DeleteRead(c) PROVE TypeOK'
      BY <2>5, DeleteReadTyped
  <2>6. ASSUME NEW c \in Clients, DeleteCommit(c) PROVE TypeOK'
      BY <2>6, DeleteCommitTyped
  <2>7. ASSUME NEW c \in Clients, CreateCheck(c) PROVE TypeOK'
      BY <2>7, RaisesTyped, QuietTyped DEF CreateCheck, PCs
  <2>8. ASSUME NEW c \in Clients, CreateCommit(c) PROVE TypeOK'
      BY <2>8, CreateCommitTyped
  <2>9. ASSUME NEW c \in Clients, Deadlocked(c) \/ Interrupted(c) PROVE TypeOK'
      BY <2>9, RaisesTyped DEF Deadlocked, Interrupted
  <2>10. ASSUME NEW c \in Clients, SetData(c) PROVE TypeOK'
      BY <2>10, SetDataTyped
  <2>11. CASE SetMutable
      BY <2>11 DEF SetMutable, TypeOK, ServerTyped, ClientsTyped, Live
  <2>12. CASE UNCHANGED vars
      BY <2>12 DEF vars, server, TypeOK, ServerTyped, ClientsTyped, Live
  <2> QED
      BY <2>1, <2>2, <2>3, <2>4, <2>5, <2>6, <2>7, <2>8, <2>9, <2>10, <2>11, <2>12 DEF Next
<1> QED
    BY <1>1, <1>2, PTL DEF Spec

(***************************************************************************)
(* Lineage.  What holds of it in each state; transitivity makes a deletion *)
(* select every descendant, that closes its victims, and so no step that   *)
(* stays loses a parent.                                                   *)
(***************************************************************************)
SyncInv == ParentsTyped /\ ParentsNamed /\ LineageIsClosure /\ LineageInv

(* Steps that leave the graph as it is, and do not select victims.         *)
LEMMA GraphKept ==
  ASSUME SyncInv, Live' = Live, from' = from, late' = late,
         \A i \in Live : /\ step'[i].config.name = step[i].config.name
                         /\ step'[i].config.type = step[i].config.type
                         /\ step'[i].config.inputs = step[i].config.inputs,
         \A d \in Clients : client'[d].victims \in {client[d].victims, {}}
  PROVE  SyncInv'
<1>1. \A i \in Live : Parents(i)' = Parents(i) /\ Parents(i) \subseteq Live
    BY DEF Parents
<1>2. \A i \in Live : ParentNames(i)' = ParentNames(i)
    BY <1>1 DEF ParentNames
<1>3. \A i \in Live : InputType(step'[i].config) = InputType(step[i].config)
    BY DEF InputType
<1>4. ParentsTyped'
    BY <1>1, <1>3 DEF SyncInv, ParentsTyped
<1>5. ParentsNamed'
    BY <1>2 DEF SyncInv, ParentsNamed
<1>6. LineageIsClosure'
    BY <1>1 DEF SyncInv, LineageIsClosure
<1>7. Transitive' /\ VictimsClosed'
    BY DEF SyncInv, LineageInv, Transitive, VictimsClosed
<1> QED
    BY <1>4, <1>5, <1>6, <1>7 DEF SyncInv, LineageInv

LEMMA BecomesVictims ==
  ASSUME ClientsTyped, NEW c \in Clients, NEW rec, Becomes(c, rec)
  PROVE  client'[c] = rec /\ \A d \in Clients \ {c} : client'[d] = client[d]
BY DEF ClientsTyped, Becomes

LEMMA RaisesKeeps ==
  ASSUME TypeOK, SyncInv, NEW c \in Clients, Raises(c)
  PROVE  SyncInv'
<1>1. [Idle EXCEPT !.result = "raised"].victims = {}
    BY DEF Idle
<1>2. Becomes(c, [Idle EXCEPT !.result = "raised"])
    BY DEF Raises, Aborts
<1>3. \A d \in Clients : client'[d].victims \in {client[d].victims, {}}
    BY <1>1, <1>2, BecomesVictims DEF TypeOK
<1> QED
    BY <1>3, GraphKept DEF Raises, server, Live

LEMMA MovesKeeps ==
  ASSUME TypeOK, SyncInv, NEW c \in Clients, NEW pc, Moves(c, pc),
         UNCHANGED <<server, late>>
  PROVE  SyncInv'
<1>1. [client[c] EXCEPT !.pc = pc].victims = client[c].victims
    BY DEF TypeOK, ClientsTyped, Records
<1>2. \A d \in Clients : client'[d].victims \in {client[d].victims, {}}
    BY <1>1, BecomesVictims DEF TypeOK, Moves
<1> QED
    BY <1>2, GraphKept DEF server, Live

LEMMA AnsweredVictims ==
  ASSUME ClientsTyped, NEW c \in Clients, NEW rec \in Records,
         NEW next, NEW again, Answered(c, rec, next, again)
  PROVE  /\ client'[c].victims = rec.victims
         /\ \A d \in Clients \ {c} : client'[d] = client[d]
<1> DEFINE heard == [rec EXCEPT !.pc = next,
                                !.result = IF next = "idle" THEN "ok" ELSE "none"]
           retried == [rec EXCEPT !.pc = again]
<1>1. heard.victims = rec.victims /\ retried.victims = rec.victims
    BY DEF Records
<1>2. Becomes(c, heard) \/ Becomes(c, retried)
    BY DEF Answered
<1> HIDE DEF heard, retried
<1> QED
    BY <1>1, <1>2, BecomesVictims

LEMMA UpdateKeeps ==
  ASSUME TypeOK, SyncInv, NEW c \in Clients, UpdateStep(c)
  PROVE  SyncInv'
<1> DEFINE w == client[c].want
<1>1. CASE Raises(c)
    BY <1>1, RaisesKeeps
<1>2. CASE \E id \in Called(w.name) :
             /\ step' = Rewritten(id, w)
             /\ Answered(c, client[c], "idle", "update")
             /\ UNCHANGED <<from, late>>
  <2>1. client[c] \in Records /\ w \in Configs
      BY DEF TypeOK, ClientsTyped, Records
  <2>2. \A d \in Clients : client'[d].victims \in {client[d].victims, {}}
      BY <1>2, <2>1, AnsweredVictims DEF TypeOK
  <2>3. PICK id \in Live : step' = Rewritten(id, w)
      BY <1>2 DEF Called
  <2>4. /\ Live' = Live
        /\ \A i \in Live : /\ step'[i].config.name = step[i].config.name
                           /\ step'[i].config.type = step[i].config.type
                           /\ step'[i].config.inputs = step[i].config.inputs
      BY <2>1, <2>3, RewrittenTyped DEF TypeOK, Live
  <2> QED
      BY <1>2, <2>2, <2>4, GraphKept
<1> QED
    BY <1>1, <1>2 DEF UpdateStep

LEMMA SetDataKeeps ==
  ASSUME TypeOK, SyncInv, NEW c \in Clients, SetData(c)
  PROVE  SyncInv'
<1>1. CASE Raises(c)
    BY <1>1, RaisesKeeps
<1>2. CASE \E id \in Called(client[c].want.name) :
             /\ step' = [step EXCEPT ![id].stage = "COMPLETE"]
             /\ Answered(c, client[c], "idle", "set_data")
             /\ UNCHANGED <<from, late>>
  <2>1. client[c] \in Records
      BY DEF TypeOK, ClientsTyped
  <2>2. \A d \in Clients : client'[d].victims \in {client[d].victims, {}}
      BY <1>2, <2>1, AnsweredVictims DEF TypeOK
  <2>3. PICK id \in Live : step' = [step EXCEPT ![id].stage = "COMPLETE"]
      BY <1>2 DEF Called
  <2>4. Live' = Live /\ \A i \in Live : step'[i].config = step[i].config
      BY <2>3 DEF TypeOK, ServerTyped, Live
  <2> QED
      BY <1>2, <2>2, <2>4, GraphKept
<1> QED
    BY <1>1, <1>2 DEF SetData

(* What delete_step selects is closed under the rows of lineage.           *)
LEMMA DescendantsClosed ==
  ASSUME ServerTyped, Transitive, NEW id \in Live, NEW r \in from,
         r.parent \in {id} \cup Descendants(id)
  PROVE  r.child \in Descendants(id)
<1>1. r.child \in Live
    BY DEF ServerTyped
<1>2. CASE r.parent = id
    BY <1>1, <1>2 DEF Descendants
<1>3. CASE r.parent \in Descendants(id)
  <2>1. PICK q \in from : q.parent = id /\ q.child = r.parent
      BY <1>3 DEF Descendants
  <2>2. PICK t \in from : t.parent = id /\ t.child = r.child
      BY <2>1 DEF Transitive
  <2> QED
      BY <1>1, <2>2 DEF Descendants
<1> QED
    BY <1>2, <1>3

LEMMA DeleteReadKeeps ==
  ASSUME TypeOK, SyncInv, NEW c \in Clients, DeleteRead(c)
  PROVE  SyncInv'
<1>1. CASE Raises(c)
    BY <1>1, RaisesKeeps
<1>2. CASE \E id \in Called(client[c].want.name) :
             /\ Becomes(c, [client[c] EXCEPT !.pc = "delete_commit",
                                              !.victims = {id} \cup Descendants(id)])
             /\ UNCHANGED <<server, late>>
  <2>1. PICK id \in Live :
               /\ Becomes(c, [client[c] EXCEPT !.pc = "delete_commit",
                                                !.victims = {id} \cup Descendants(id)])
               /\ UNCHANGED <<server, late>>
      BY <1>2 DEF Called
  <2>2. client[c] \in Records
      BY DEF TypeOK, ClientsTyped
  <2>3. [client[c] EXCEPT !.pc = "delete_commit",
                          !.victims = {id} \cup Descendants(id)].victims
          = {id} \cup Descendants(id)
      BY <2>2 DEF Records
  <2>4. /\ client'[c].victims = {id} \cup Descendants(id)
        /\ \A d \in Clients \ {c} : client'[d] = client[d]
      BY <2>1, <2>3, BecomesVictims DEF TypeOK
  <2>5. VictimsClosed'
    <3> SUFFICES ASSUME NEW d \in Clients, NEW r \in from, r.parent \in client'[d].victims
                 PROVE  r.child \in client'[d].victims \cup late
        BY <2>1 DEF VictimsClosed, server
    <3>1. CASE d = c
        BY <3>1, <2>4, DescendantsClosed DEF TypeOK, SyncInv, LineageInv
    <3>2. CASE d # c
        BY <3>2, <2>4 DEF SyncInv, LineageInv, VictimsClosed
    <3> QED
        BY <3>1, <3>2
  <2>6. UNCHANGED <<step, from, late, Live>>
      BY <2>1 DEF server, Live
  <2>7. (ParentsTyped /\ ParentsNamed /\ LineageIsClosure /\ Transitive)'
      BY <2>6 DEF SyncInv, LineageInv, ParentsTyped, ParentsNamed, LineageIsClosure,
                  Transitive, ParentNames, Parents
  <2> QED
      BY <2>5, <2>7 DEF SyncInv, LineageInv
<1> QED
    BY <1>1, <1>2 DEF DeleteRead

LEMMA DeleteCommitKeeps ==
  ASSUME TypeOK, SyncInv, NEW c \in Clients, DeleteCommit(c)
  PROVE  SyncInv'
<1> DEFINE gone == client[c].victims
<1>1. client[c] \in Records /\ [client[c] EXCEPT !.victims = {}] \in Records
    BY FieldsTyped DEF TypeOK, ClientsTyped
<1>2. [client[c] EXCEPT !.victims = {}].victims = {}
    BY <1>1 DEF Records
<1>3. \A d \in Clients : client'[d].victims \in {client[d].victims, {}}
    BY <1>1, <1>2, AnsweredVictims DEF TypeOK, DeleteCommit
<1>4. Live' = Live \ gone /\ \A i \in Live \ gone : step'[i] = step[i]
    BY DEF DeleteCommit, Live
<1>5. from' = {r \in from : r.parent \notin gone /\ r.child \notin gone} /\ late' = late \ gone
    BY DEF DeleteCommit, Cascade
<1>6. \A r \in from : r.parent \in gone => r.child \in gone \cup late
    BY DEF SyncInv, LineageInv, VictimsClosed
<1>7. \A p, i, l : /\ Row(p, i, l).parent = p
                   /\ Row(p, i, l).child = i /\ Row(p, i, l).level = l
    BY DEF Row
<1> HIDE DEF gone
<1>8. \A i \in Live' : Parents(i)' \subseteq Parents(i) /\ Parents(i) \subseteq Live
    BY <1>4, <1>5 DEF Parents
<1>9. \A i \in Live' \ late' : Parents(i)' = Parents(i)
  <2> SUFFICES ASSUME NEW i \in Live' \ late', NEW p \in Parents(i)
               PROVE  p \in Parents(i)'
      BY <1>8
  <2>1. Row(p, i, 1) \in from /\ p \in Live
      BY DEF Parents
  <2>2. i \notin gone /\ i \notin late
      BY <1>4, <1>5
  <2>3. p \notin gone
      BY <1>6, <1>7, <2>1, <2>2
  <2> QED
      BY <1>4, <1>5, <1>7, <2>1, <2>2, <2>3 DEF Parents
<1>10. ParentsTyped'
  <2> SUFFICES ASSUME NEW i \in Live', NEW p \in Parents(i)'
               PROVE  /\ step'[i].config.type # "source"
                      /\ step'[p].config.type \in InputType(step'[i].config)
      BY DEF ParentsTyped, InputType
  <2>1. p \in Live' /\ p \in Parents(i)
      BY <1>8 DEF Parents
  <2>2. step'[i] = step[i] /\ step'[p] = step[p] /\ i \in Live
      BY <1>4, <2>1
  <2> QED
      BY <2>1, <2>2 DEF SyncInv, ParentsTyped
<1>11. ParentsNamed'
  <2> SUFFICES ASSUME NEW i \in Live' \ late'
               PROVE  ParentNames(i)' = Elements(step'[i].config.inputs)
      BY DEF ParentsNamed
  <2>1. \A p \in Parents(i) : step'[p] = step[p]
      BY <1>4, <1>9 DEF Parents
  <2>2. ParentNames(i)' = ParentNames(i)
      BY <1>9, <2>1 DEF ParentNames
  <2> QED
      BY <1>4, <1>5, <2>2 DEF SyncInv, ParentsNamed
<1>12. LineageIsClosure'
  <2> SUFFICES ASSUME NEW i \in Live' \ late', NEW r \in from'
               PROVE  /\ r.child \in Parents(i)' => Row(r.parent, i, r.level + 1) \in from'
                      /\ r.child = i /\ r.level > 1 =>
                           \E q \in Parents(i)' : Row(r.parent, q, r.level - 1) \in from'
      BY DEF LineageIsClosure
  <2>1. /\ i \in Live \ late /\ i \notin gone /\ r \in from
        /\ r.parent \notin gone /\ r.child \notin gone
      BY <1>4, <1>5
  <2>2. ASSUME r.child \in Parents(i)'
        PROVE  Row(r.parent, i, r.level + 1) \in from'
    <3>1. Row(r.parent, i, r.level + 1) \in from
        BY <1>9, <2>1, <2>2 DEF SyncInv, LineageIsClosure
    <3> QED
        BY <1>5, <1>7, <2>1, <3>1
  <2>3. ASSUME r.child = i, r.level > 1
        PROVE  \E q \in Parents(i)' : Row(r.parent, q, r.level - 1) \in from'
    <3>1. PICK q \in Parents(i) : Row(r.parent, q, r.level - 1) \in from
        BY <2>1, <2>3 DEF SyncInv, LineageIsClosure
    <3>2. q \notin gone
        BY <1>4, <1>9, <3>1 DEF Parents
    <3> QED
        BY <1>5, <1>7, <1>9, <2>1, <3>1, <3>2
  <2> QED
      BY <2>2, <2>3
<1>13. Transitive'
    BY <1>5 DEF SyncInv, LineageInv, Transitive
<1>14. VictimsClosed'
    BY <1>3, <1>5 DEF SyncInv, LineageInv, VictimsClosed
<1> QED
    BY <1>10, <1>11, <1>12, <1>13, <1>14 DEF SyncInv, LineageInv

LEMMA CreatedKeeps ==
  ASSUME TypeOK, SyncInv, NEW w \in Configs, NEW id, Created(w, id),
         \A d \in Clients : client'[d].victims = client[d].victims
  PROVE  SyncInv'
<1> DEFINE rows == NewRows(id, InputIds(w))
<1>1. id \in Nat /\ id \notin Live /\ Live' = Live \cup {id}
    BY DEF Created, TypeOK, ServerTyped, Live
<1>2. step'[id].config = w /\ \A i \in Live : step'[i] = step[i]
    BY <1>1 DEF Created
<1>3. /\ InputIds(w) \in SUBSET Live
      /\ from \subseteq [parent : Live, child : Live, level : Nat \ {0}]
    BY DEF InputIds, TypeOK, ServerTyped
<1>4. rows \subseteq [parent : Live, child : {id}, level : Nat \ {0}]
    BY <1>1, <1>3, NewRowsTyped DEF TypeOK
<1>5. \A p, i, l : /\ Row(p, i, l).parent = p
                   /\ Row(p, i, l).child = i /\ Row(p, i, l).level = l
    BY DEF Row
<1>6. ASSUME NEW q \in InputIds(w)
      PROVE  /\ Row(q, id, 1) \in rows
             /\ \A r \in from : r.child = q => Row(r.parent, id, r.level + 1) \in rows
    BY <1>6 DEF NewRows
<1>7. ASSUME NEW r \in rows
      PROVE  \/ r.parent \in InputIds(w) /\ r.level = 1
             \/ \E s \in from : /\ s.child \in InputIds(w) /\ s.parent = r.parent
                               /\ r.level = s.level + 1 /\ s.level \in Nat \ {0}
    BY <1>3, <1>5, <1>7 DEF NewRows
<1>8. from' = from \cup rows
    BY DEF Created
<1>9. late \subseteq late' /\ late' \subseteq late \cup {id} /\ (id \notin late' => \A r \in rows : r.parent \notin Doomed)
    BY DEF Created
<1> HIDE DEF rows
<1>10. \A i \in Live : Parents(i)' = Parents(i)
  <2> SUFFICES ASSUME NEW i \in Live, NEW p PROVE p \in Parents(i)' <=> p \in Parents(i)
      OBVIOUS
  <2>1. Row(p, i, 1) \notin rows
      BY <1>1, <1>4, <1>5
  <2>2. Row(p, i, 1) \in from => p \in Live
      BY <1>3, <1>5
  <2> QED
      BY <1>1, <1>8, <2>1, <2>2 DEF Parents
<1>11. Parents(id)' = InputIds(w)
  <2> SUFFICES ASSUME NEW p PROVE p \in Parents(id)' <=> p \in InputIds(w)
      OBVIOUS
  <2>1. Row(p, id, 1) \notin from
      BY <1>1, <1>3, <1>5
  <2>2. Row(p, id, 1) \in rows => p \in InputIds(w)
      BY <1>5, <1>7
  <2> QED
      BY <1>1, <1>3, <1>6, <1>8, <2>1, <2>2 DEF Parents
<1>12. ParentsTyped'
  <2> SUFFICES ASSUME NEW i \in Live', NEW p \in Parents(i)'
               PROVE  /\ step'[i].config.type # "source"
                      /\ step'[p].config.type \in InputType(step'[i].config)
      BY DEF ParentsTyped, InputType
  <2>1. CASE i = id
    <3>1. p \in Live /\ step[p].config.name \in Elements(w.inputs)
        BY <1>11, <2>1 DEF InputIds
    <3>2. w.inputs # <<>>
        BY <3>1 DEF Elements
    <3>3. w.type # "source"
        BY <3>2, StepSyncAssumption
    <3>4. PICK q \in Called(step[p].config.name) : step[q].config.type \in InputType(w)
        BY <3>1 DEF Created, InputsAreThere
    <3>5. q = p
        BY <3>1, <3>4 DEF Called, TypeOK, ServerTyped
    <3> QED
        BY <1>2, <2>1, <3>1, <3>3, <3>4, <3>5
  <2>2. CASE i # id
    <3>1. i \in Live /\ p \in Parents(i) /\ p \in Live
        BY <1>1, <1>10, <2>2 DEF Parents
    <3> QED
        BY <1>2, <3>1 DEF SyncInv, ParentsTyped
  <2> QED
      BY <2>1, <2>2
<1>13. ParentsNamed'
  <2> SUFFICES ASSUME NEW i \in Live' \ late'
               PROVE  ParentNames(i)' = Elements(step'[i].config.inputs)
      BY DEF ParentsNamed
  <2>1. CASE i = id
    <3>1. ParentNames(i)' = {step[p].config.name : p \in InputIds(w)}
        BY <1>2, <1>3, <1>11, <2>1 DEF ParentNames
    <3>2. \A name \in Elements(w.inputs) : \E p \in InputIds(w) : step[p].config.name = name
        BY DEF Created, InputsAreThere, InputIds, Called
    <3>3. \A p \in InputIds(w) : step[p].config.name \in Elements(w.inputs)
        BY DEF InputIds
    <3> QED
        BY <1>2, <2>1, <3>1, <3>2, <3>3
  <2>2. CASE i # id
    <3>1. i \in Live \ late
        BY <1>1, <1>9, <2>2
    <3>2. ParentNames(i)' = ParentNames(i)
        BY <1>2, <1>10, <3>1 DEF ParentNames, Parents
    <3> QED
        BY <1>2, <3>1, <3>2 DEF SyncInv, ParentsNamed
  <2> QED
      BY <2>1, <2>2
<1>14. LineageIsClosure'
  <2> SUFFICES ASSUME NEW i \in Live' \ late', NEW r \in from'
               PROVE  /\ r.child \in Parents(i)' => Row(r.parent, i, r.level + 1) \in from'
                      /\ r.child = i /\ r.level > 1 =>
                           \E q \in Parents(i)' : Row(r.parent, q, r.level - 1) \in from'
      BY DEF LineageIsClosure
  <2>1. r \in from \/ (r \in rows /\ r.child = id)
      BY <1>4, <1>8
  <2>2. \A q \in Parents(i)' : q \in Live
      BY <1>1, <1>3, <1>10, <1>11 DEF Parents
  <2>3. CASE i = id
    <3>1. ASSUME r.child \in Parents(i)'
          PROVE  Row(r.parent, i, r.level + 1) \in from'
        BY <1>1, <1>6, <1>8, <1>11, <2>1, <2>2, <2>3, <3>1
    <3>2. ASSUME r.child = i, r.level > 1
          PROVE  \E q \in Parents(i)' : Row(r.parent, q, r.level - 1) \in from'
      <4>1. r \in rows
          BY <1>1, <1>3, <2>1, <2>3, <3>2
      <4>2. PICK s \in from : /\ s.child \in InputIds(w) /\ s.parent = r.parent
                              /\ r.level = s.level + 1 /\ s.level \in Nat \ {0}
          BY <1>7, <3>2, <4>1
      <4>3. s = Row(r.parent, s.child, r.level - 1)
          BY <1>3, <4>2 DEF Row
      <4> QED
          BY <1>8, <1>11, <2>3, <4>2, <4>3
    <3> QED
        BY <3>1, <3>2
  <2>4. CASE i # id
    <3>1. i \in Live \ late /\ Parents(i)' = Parents(i)
        BY <1>1, <1>9, <1>10, <2>4
    <3>2. r.child \in Parents(i) \/ r.child = i => r \in from
        BY <1>1, <2>1, <2>2, <2>4, <3>1
    <3> QED
        BY <1>8, <3>1, <3>2 DEF SyncInv, LineageIsClosure
  <2> QED
      BY <2>3, <2>4
<1>15. Transitive'
  <2> SUFFICES ASSUME NEW r \in from', NEW s \in from', r.child = s.parent
               PROVE  \E t \in from' : t.parent = r.parent /\ t.child = s.child
      BY DEF Transitive
  <2>1. r \in from
      BY <1>1, <1>3, <1>4, <1>8
  <2>2. CASE s \in from
      BY <1>8, <2>1, <2>2 DEF SyncInv, LineageInv, Transitive
  <2>3. CASE s \in rows
    <3>1. s.child = id
        BY <1>4, <2>3
    <3>2. CASE s.parent \in InputIds(w)
        BY <1>5, <1>6, <1>8, <2>1, <3>1, <3>2
    <3>3. CASE \E u \in from : u.child \in InputIds(w) /\ u.parent = s.parent
      <4>1. PICK u \in from : u.child \in InputIds(w) /\ u.parent = s.parent
          BY <3>3
      <4>2. PICK t \in from : t.parent = r.parent /\ t.child = u.child
          BY <2>1, <4>1 DEF SyncInv, LineageInv, Transitive
      <4> QED
          BY <1>5, <1>6, <1>8, <3>1, <4>1, <4>2
    <3> QED
        BY <1>7, <2>3, <3>2, <3>3
  <2> QED
      BY <1>8, <2>2, <2>3
<1>16. VictimsClosed'
  <2> SUFFICES ASSUME NEW d \in Clients, NEW r \in from', r.parent \in client[d].victims
               PROVE  r.child \in client[d].victims \cup late'
      BY DEF VictimsClosed
  <2>1. CASE r \in from
      BY <1>9, <2>1 DEF SyncInv, LineageInv, VictimsClosed
  <2>2. CASE r \in rows
      BY <1>4, <1>9, <2>2 DEF Doomed
  <2> QED
      BY <1>8, <2>1, <2>2
<1> QED
    BY <1>12, <1>13, <1>14, <1>15, <1>16 DEF SyncInv, LineageInv

LEMMA CreateCommitKeeps ==
  ASSUME TypeOK, SyncInv, NEW c \in Clients, CreateCommit(c)
  PROVE  SyncInv'
<1>1. CASE Raises(c)
    BY <1>1, RaisesKeeps
<1>2. CASE /\ Created(client[c].want, last + 1)
           /\ Answered(c, [client[c] EXCEPT !.made = TRUE], "set_data", "create_check")
  <2>1. client[c] \in Records /\ client[c].want \in Configs
      BY DEF TypeOK, ClientsTyped, Records
  <2>2. /\ [client[c] EXCEPT !.made = TRUE] \in Records
        /\ [client[c] EXCEPT !.made = TRUE].victims = client[c].victims
      BY <2>1 DEF Records
  <2>3. \A d \in Clients : client'[d].victims = client[d].victims
      BY <1>2, <2>2, AnsweredVictims DEF TypeOK
  <2> QED
      BY <1>2, <2>1, <2>3, CreatedKeeps
<1> QED
    BY <1>1, <1>2, CreateCommitCases

(* The inductive invariant of the lineage: the properties of the run and   *)
(* what they rest on.                                                      *)
THEOREM SyncInvariant == Spec => []SyncInv
<1>1. Init => SyncInv
  <2> SUFFICES ASSUME Init PROVE SyncInv
      OBVIOUS
  <2>1. Live = {} /\ from = {}
      BY DEF Init, Live
  <2> QED
      BY <2>1 DEF SyncInv, ParentsTyped, ParentsNamed, LineageIsClosure, LineageInv,
                  Transitive, VictimsClosed
<1>2. TypeOK /\ SyncInv /\ [Next]_vars => SyncInv'
  <2> SUFFICES ASSUME TypeOK, SyncInv, [Next]_vars PROVE SyncInv'
      OBVIOUS
  <2>1. ASSUME NEW c \in Clients, NEW w \in Configs, StartSync(c, w) PROVE SyncInv'
    <3>1. [Idle EXCEPT !.pc = "get", !.want = w].victims = {}
        BY DEF Idle
    <3>2. Becomes(c, [Idle EXCEPT !.pc = "get", !.want = w])
        BY <2>1 DEF StartSync
    <3>3. \A d \in Clients : client'[d].victims \in {client[d].victims, {}}
        BY <3>1, <3>2, BecomesVictims DEF TypeOK
    <3> QED
        BY <2>1, <3>3, GraphKept DEF StartSync, server, Live
  <2>2. ASSUME NEW c \in Clients, GetStep(c) PROVE SyncInv'
    <3>1. Raises(c) \/ \E pc : Moves(c, pc) /\ UNCHANGED <<server, late>>
        BY <2>2 DEF GetStep
    <3> QED
        BY <3>1, RaisesKeeps, MovesKeeps
  <2>3. ASSUME NEW c \in Clients, UpdateStep(c) PROVE SyncInv'
      BY <2>3, UpdateKeeps
  <2>4. ASSUME NEW c \in Clients, DeleteCheck(c) PROVE SyncInv'
      BY <2>4, RaisesKeeps, MovesKeeps DEF DeleteCheck
  <2>5. ASSUME NEW c \in Clients, DeleteRead(c) PROVE SyncInv'
      BY <2>5, DeleteReadKeeps
  <2>6. ASSUME NEW c \in Clients, DeleteCommit(c) PROVE SyncInv'
      BY <2>6, DeleteCommitKeeps
  <2>7. ASSUME NEW c \in Clients, CreateCheck(c) PROVE SyncInv'
      BY <2>7, RaisesKeeps, MovesKeeps DEF CreateCheck
  <2>8. ASSUME NEW c \in Clients, CreateCommit(c) PROVE SyncInv'
      BY <2>8, CreateCommitKeeps
  <2>9. ASSUME NEW c \in Clients, Deadlocked(c) \/ Interrupted(c) PROVE SyncInv'
      BY <2>9, RaisesKeeps DEF Deadlocked, Interrupted
  <2>10. ASSUME NEW c \in Clients, SetData(c) PROVE SyncInv'
      BY <2>10, SetDataKeeps
  <2>11. CASE SetMutable
      BY <2>11, GraphKept DEF SetMutable, Live
  <2>12. CASE UNCHANGED vars
      BY <2>12, GraphKept DEF vars, server, Live
  <2> QED
      BY <2>1, <2>2, <2>3, <2>4, <2>5, <2>6, <2>7, <2>8, <2>9, <2>10, <2>11, <2>12 DEF Next
<1> QED
    BY <1>1, <1>2, SyncTyped, PTL DEF Spec

(* A model is built on sources and resolvers and a resolver on models.     *)
THEOREM StepsAreTyped == Spec => []ParentsTyped
<1>1. SyncInv => ParentsTyped
    BY DEF SyncInv
<1> QED
    BY <1>1, SyncInvariant, PTL

(* A step keeps the parents of its configuration unless it was created     *)
(* under a deletion.                                                       *)
THEOREM StepsKeepParents == Spec => []ParentsNamed
<1>1. SyncInv => ParentsNamed
    BY DEF SyncInv
<1> QED
    BY <1>1, SyncInvariant, PTL

(* step_from is the closure of the edges.                                  *)
THEOREM LineageClosed == Spec => []LineageIsClosure
<1>1. SyncInv => LineageIsClosure
    BY DEF SyncInv
<1> QED
    BY <1>1, SyncInvariant, PTL

(* step_from is transitive, and a deletion has selected all that is built  *)
(* on what it selected, but for the steps created since.                   *)
THEOREM DeletionsAreClosed == Spec => []LineageInv
<1>1. SyncInv => LineageInv
    BY DEF SyncInv
<1> QED
    BY <1>1, SyncInvariant, PTL

(***************************************************************************)
(* What sync has done when it returns: client by client, for those whose   *)
(* sync nobody else's change has overlapped.                               *)
(***************************************************************************)
Mirrored(c) == \E id \in Live : Mirrors(id, client[c].want)
HasSent(c)  == \E id \in Called(client[c].want.name) : step[id].stage = "COMPLETE"

(* A sync that has not returned has no result, a step is made after those  *)
(* found have gone, and the step made is what the client wants.            *)
Synced(c) ==
  /\ client[c].pc # "idle" => client[c].result = "none"
  /\ client[c].made => client[c].pc \in {"idle", "create_check", "create_commit", "set_data"}
  /\ c \in clean /\ (client[c].pc = "set_data" \/ client[c].result = "ok") => Mirrored(c)
  /\ c \in clean /\ client[c].result = "ok" /\ client[c].made => HasSent(c)

AllSynced == \A c \in Clients : Synced(c)

(* The others: a step leaves the server alone, or they are not clean any   *)
(* more.                                                                   *)
LEMMA OthersSynced ==
  ASSUME TypeOK, AllSynced, NEW c \in Clients,
         \A d \in Clients \ {c} : client'[d] = client[d],
         \/ UNCHANGED <<step, from, late>> /\ clean' \subseteq clean \cup {c}
         \/ clean' \subseteq {c},
         Synced(c)'
  PROVE  AllSynced'
<1>1. ASSUME NEW d \in Clients \ {c} PROVE Synced(d)'
    <2>1. client'[d] = client[d] /\ Synced(d)
        BY <1>1 DEF AllSynced
    <2>2. CASE UNCHANGED <<step, from, late>> /\ clean' \subseteq clean \cup {c}
        <3>1. Mirrored(d)' = Mirrored(d) /\ HasSent(d)' = HasSent(d)
            BY <2>1, <2>2 DEF Mirrored, HasSent, Mirrors, ParentNames, Parents, Called, Live
        <3> QED  BY <1>1, <2>1, <2>2, <3>1 DEF Synced
    <2>3. CASE clean' \subseteq {c}
        BY <1>1, <2>1, <2>3 DEF Synced
    <2> QED  BY <2>2, <2>3
<1> QED
    BY <1>1 DEF AllSynced

(* A step of a client that asks the server, or gives up.                   *)
LEMMA AskSynced ==
  ASSUME TypeOK, AllSynced, NEW c \in Clients, NEW rec, Becomes(c, rec),
         UNCHANGED <<step, from, late>>, clean' \subseteq clean \cup {c},
         rec.result # "ok", rec.pc # "idle" => rec.result = "none",
         rec.pc # "set_data",
         rec.made => rec.pc \in {"create_check", "create_commit", "idle"}
  PROVE  AllSynced'
<1>1. client'[c] = rec /\ \A d \in Clients \ {c} : client'[d] = client[d]
    BY BecomesVictims DEF TypeOK
<1>2. Synced(c)'
    BY <1>1 DEF Synced
<1> QED
    BY <1>1, <1>2, OthersSynced

LEMMA RaisesSynced ==
  ASSUME TypeOK, AllSynced, NEW c \in Clients, Raises(c) PROVE AllSynced'
<1> DEFINE rec == [Idle EXCEPT !.result = "raised"]
<1>1. rec.pc = "idle" /\ rec.result = "raised" /\ rec.made = FALSE
    BY DEF Idle
<1>2. Becomes(c, rec) /\ UNCHANGED <<step, from, late>> /\ clean' = clean
    BY DEF Raises, Aborts, server
<1> QED
    BY <1>1, <1>2, AskSynced

LEMMA MovesSynced ==
  ASSUME TypeOK, AllSynced, NEW c \in Clients, NEW pc, Moves(c, pc),
         UNCHANGED <<server, clean, late>>, client[c].pc # "idle",
         \/ pc = "create_commit" /\ client[c].pc = "create_check"
         \/ /\ pc \in {"update", "delete_check", "delete_read", "create_check"}
            /\ client[c].pc \in {"get", "delete_check"}
  PROVE  AllSynced'
<1> DEFINE rec == [client[c] EXCEPT !.pc = pc]
<1>1. rec.pc = pc /\ rec.result = client[c].result /\ rec.made = client[c].made
    BY DEF TypeOK, ClientsTyped, Records
<1>2. Synced(c)
    BY DEF AllSynced
<1> QED
    BY <1>1, <1>2, AskSynced DEF Moves, Synced, server

(* An answer to a client: what it is then, heard or not.                   *)
LEMMA AnsweredFields ==
  ASSUME TypeOK, NEW c \in Clients, NEW rec \in Records, NEW next, NEW again,
         Answered(c, rec, next, again)
  PROVE  /\ \A d \in Clients \ {c} : client'[d] = client[d]
         /\ client'[c].want = rec.want /\ client'[c].made = rec.made
         /\ \/ /\ client'[c].pc = next
               /\ client'[c].result = IF next = "idle" THEN "ok" ELSE "none"
            \/ client'[c].pc = again /\ client'[c].result = rec.result
<1> DEFINE heard == [rec EXCEPT !.pc = next,
                                !.result = IF next = "idle" THEN "ok" ELSE "none"]
           retried == [rec EXCEPT !.pc = again]
<1>1. /\ heard.want = rec.want /\ retried.want = rec.want
      /\ heard.made = rec.made /\ retried.made = rec.made
      /\ heard.pc = next /\ retried.pc = again /\ retried.result = rec.result
      /\ heard.result = IF next = "idle" THEN "ok" ELSE "none"
    BY DEF Records
<1>2. Becomes(c, heard) \/ Becomes(c, retried)
    BY DEF Answered
<1> HIDE DEF heard, retried
<1> QED
    BY <1>1, <1>2, BecomesVictims DEF TypeOK

(* update_step, for a step that matches: the rest of what the client wants *)
(* is its setting.                                                         *)
LEMMA RewrittenMirrors ==
  ASSUME TypeOK, SyncInv, NEW w \in Configs, NEW id \in Called(w.name), Updatable(id, w),
         step' = Rewritten(id, w), UNCHANGED <<from, late>>
  PROVE  id \in Live' /\ Mirrors(id, w)'
<1>1. id \in Live /\ step[id] \in [config : Stored, stage : {"READY", "COMPLETE"}]
    BY DEF Called, TypeOK, ServerTyped
<1>2. Live' = Live
    BY <1>1, RewrittenTyped DEF TypeOK, Live
<1>3. \A i \in Live : /\ step'[i].config.name = step[i].config.name
                      /\ step'[i].config.inputs = step[i].config.inputs
    BY <1>1, RewrittenTyped DEF TypeOK
<1>4. ParentNames(id)' = ParentNames(id)
    BY <1>2, <1>3 DEF ParentNames, Parents
<1>5. w = [name |-> w.name, type |-> w.type, inputs |-> w.inputs,
           fp |-> w.fp, setting |-> w.setting]
    BY StepSyncAssumption
<1>6. [step'[id].config EXCEPT !.inputs = w.inputs] = w
    <2> DEFINE old == step[id].config
    <2>1. old \in Stored /\ step'[id].config = [old EXCEPT !.setting = w.setting]
        <3> DEFINE row == [step[id] EXCEPT !.config = [old EXCEPT !.setting = w.setting]]
        <3>1. step' = [step EXCEPT ![id] = row]
            BY <1>1 DEF Rewritten, TypeOK, ServerTyped
        <3>2. old \in Stored /\ row.config = [old EXCEPT !.setting = w.setting]
            BY <1>1
        <3> HIDE DEF row
        <3>3. step'[id] = row
            BY <1>1, <3>1 DEF TypeOK, ServerTyped
        <3> QED  BY <3>2, <3>3
    <2>2. old.name = w.name /\ old.fp = w.fp /\ old.type = w.type
        BY DEF Called, Updatable, Matches
    <2> HIDE DEF old
    <2>3. [[old EXCEPT !.setting = w.setting] EXCEPT !.inputs = w.inputs]
            = [name |-> old.name, type |-> old.type, inputs |-> w.inputs,
               fp |-> old.fp, setting |-> w.setting]
        <3> DEFINE new == [old EXCEPT !.setting = w.setting]
        <3>1. new = [name |-> old.name, type |-> old.type, inputs |-> old.inputs,
                     fp |-> old.fp, setting |-> w.setting]
            BY <2>1 DEF Stored
        <3> HIDE DEF new
        <3>2. [new EXCEPT !.inputs = w.inputs]
                = [name |-> old.name, type |-> old.type, inputs |-> w.inputs,
                   fp |-> old.fp, setting |-> w.setting]
            BY <3>1
        <3> QED  BY <3>2 DEF new
    <2> QED  BY <1>5, <2>1, <2>2, <2>3
<1>7. /\ w.type # "resolver" => step[id].config.inputs = w.inputs
      /\ id \notin late => ParentNames(id) = Elements(w.inputs)
    BY <1>1 DEF Updatable, Matches, SameParents, SyncInv, ParentsNamed
<1> QED
    BY <1>1, <1>2, <1>3, <1>4, <1>6, <1>7 DEF Mirrors

(* create_step: the step is the client's, and its parents are those it     *)
(* names.                                                                  *)
LEMMA CreatedMirrors ==
  ASSUME TypeOK, SyncInv', NEW w \in Configs, NEW id, Created(w, id)
  PROVE  id \in Live' /\ Mirrors(id, w)'
<1>1. id \in Live' /\ step'[id].config = w
    BY DEF Created, Live
<1>2. id \notin late' => ParentNames(id)' = Elements(w.inputs)
    BY <1>1 DEF SyncInv, ParentsNamed
<1>3. w = [name |-> w.name, type |-> w.type, inputs |-> w.inputs,
           fp |-> w.fp, setting |-> w.setting]
    BY StepSyncAssumption
<1>4. [w EXCEPT !.inputs = w.inputs] = w
    BY <1>3
<1> QED
    BY <1>1, <1>2, <1>4 DEF Mirrors

(* The data of a step does not change what it mirrors.                     *)
LEMMA DataMirrors ==
  ASSUME TypeOK, NEW w \in Configs, NEW i \in Live, UNCHANGED <<from, late>>,
         step' = [step EXCEPT ![i].stage = "COMPLETE"]
  PROVE  /\ Live' = Live /\ step'[i].stage = "COMPLETE"
         /\ \A j \in Live : step'[j].config = step[j].config
         /\ \A id \in Live : Mirrors(id, w) => Mirrors(id, w)'
<1>1. /\ Live' = Live /\ step'[i].stage = "COMPLETE"
      /\ \A j \in Live : step'[j].config = step[j].config
    BY DEF TypeOK, ServerTyped, Live
<1>2. \A id \in Live : ParentNames(id)' = ParentNames(id)
    BY <1>1 DEF ParentNames, Parents
<1> QED
    BY <1>1, <1>2 DEF Mirrors

LEMMA UpdateSynced ==
  ASSUME TypeOK, SyncInv, AllSynced, NEW c \in Clients, UpdateStep(c) PROVE AllSynced'
<1> PICK w : w = client[c].want
    OBVIOUS
<1>1. CASE Raises(c)
    BY <1>1, RaisesSynced
<1>2. CASE \E id \in Called(w.name) :
             /\ Updatable(id, w)
             /\ step' = Rewritten(id, w)
             /\ Answered(c, client[c], "idle", "update")
             /\ Disturbs(c)
             /\ UNCHANGED <<from, last, mutable, late, syncs>>
  <2>1. client[c] \in Records /\ w \in Configs /\ Synced(c) /\ client[c].pc = "update"
      BY DEF TypeOK, ClientsTyped, Records, AllSynced, UpdateStep
  <2>2. PICK id \in Called(w.name) :
               /\ Updatable(id, w) /\ step' = Rewritten(id, w)
               /\ Answered(c, client[c], "idle", "update")
               /\ clean' \subseteq {c} /\ UNCHANGED <<from, late>>
      BY <1>2 DEF Disturbs
  <2>3. id \in Live' /\ Mirrors(id, w)'
      BY <2>1, <2>2, RewrittenMirrors
  <2>4. /\ \A d \in Clients \ {c} : client'[d] = client[d]
        /\ client'[c].want = w /\ client'[c].made = client[c].made
        /\ \/ client'[c].pc = "idle"
           \/ client'[c].pc = "update" /\ client'[c].result = client[c].result
      BY <2>1, <2>2, AnsweredFields
  <2>5. ~client[c].made /\ client[c].result = "none"
      BY <2>1 DEF Synced
  <2>6. Mirrored(c)'
      BY <2>3, <2>4 DEF Mirrored
  <2>7. Synced(c)'
      BY <2>4, <2>5, <2>6 DEF Synced
  <2> QED
      BY <2>2, <2>4, <2>7, OthersSynced
<1> QED
    BY <1>1, <1>2 DEF UpdateStep

LEMMA CreateSynced ==
  ASSUME TypeOK, SyncInv', AllSynced, NEW c \in Clients, CreateCommit(c) PROVE AllSynced'
<1> PICK w : w = client[c].want
    OBVIOUS
<1> DEFINE rec == [client[c] EXCEPT !.made = TRUE]
<1>1. CASE Raises(c)
    BY <1>1, RaisesSynced
<1>2. CASE /\ Created(w, last + 1)
           /\ Answered(c, rec, "set_data", "create_check")
           /\ Disturbs(c)
           /\ UNCHANGED <<mutable, syncs>>
  <2>1. client[c] \in Records /\ w \in Configs /\ Synced(c) /\ client[c].pc = "create_commit"
      BY <1>2 DEF TypeOK, ClientsTyped, Records, AllSynced, CreateCommit
  <2>2. rec \in Records /\ rec.want = w /\ rec.made = TRUE /\ rec.result = client[c].result
      BY <2>1 DEF Records
  <2> HIDE DEF rec
  <2>3. /\ \A d \in Clients \ {c} : client'[d] = client[d]
        /\ client'[c].want = w /\ client'[c].made = TRUE
        /\ \/ client'[c].pc = "set_data" /\ client'[c].result = "none"
           \/ client'[c].pc = "create_check" /\ client'[c].result = client[c].result
      BY <1>2, <2>2, AnsweredFields
  <2>4. client[c].result = "none"
      BY <2>1 DEF Synced
  <2>5. Mirrored(c)'
    <3>1. PICK id : Created(w, id)
        BY <1>2
    <3> QED
        BY <2>1, <2>3, <3>1, CreatedMirrors DEF Mirrored
  <2>6. Synced(c)'
      BY <2>3, <2>4, <2>5 DEF Synced
  <2> QED
      BY <1>2, <2>3, <2>6, OthersSynced DEF Disturbs
<1> QED
    BY <1>1, <1>2, CreateCommitCases

LEMMA DataSynced ==
  ASSUME TypeOK, AllSynced, NEW c \in Clients, SetData(c) PROVE AllSynced'
<1> PICK w : w = client[c].want
    OBVIOUS
<1>1. CASE Raises(c)
    BY <1>1, RaisesSynced
<1>2. CASE \E id \in Called(w.name) :
             /\ step' = [step EXCEPT ![id].stage = "COMPLETE"]
             /\ Answered(c, client[c], "idle", "set_data")
             /\ Disturbs(c)
             /\ UNCHANGED <<from, last, mutable, late, syncs>>
  <2>1. client[c] \in Records /\ w \in Configs /\ Synced(c) /\ client[c].pc = "set_data"
      BY DEF TypeOK, ClientsTyped, Records, AllSynced, SetData
  <2>2. PICK id \in Called(w.name) :
               /\ step' = [step EXCEPT ![id].stage = "COMPLETE"]
               /\ Answered(c, client[c], "idle", "set_data")
               /\ clean' = clean \cap {c} /\ UNCHANGED <<from, late>>
      BY <1>2 DEF Disturbs
  <2>3. /\ \A d \in Clients \ {c} : client'[d] = client[d]
        /\ client'[c].want = w /\ client'[c].made = client[c].made
        /\ \/ client'[c].pc = "idle"
           \/ client'[c].pc = "set_data" /\ client'[c].result = client[c].result
      BY <2>1, <2>2, AnsweredFields
  <2>4. client[c].result = "none"
      BY <2>1 DEF Synced
  <2>5. id \in Live
      BY DEF Called
  <2>6. Mirrored(c) => Mirrored(c)'
      BY <2>1, <2>2, <2>3, <2>5, DataMirrors DEF Mirrored
  <2>7. HasSent(c)'
      BY <2>1, <2>2, <2>3, <2>5, DataMirrors DEF HasSent, Called
  <2>8. Synced(c)'
      BY <2>1, <2>2, <2>3, <2>4, <2>6, <2>7 DEF Synced
  <2> QED
      BY <2>2, <2>3, <2>8, OthersSynced
<1> QED
    BY <1>1, <1>2 DEF SetData

LEMMA DeleteSynced ==
  ASSUME TypeOK, AllSynced, NEW c \in Clients, DeleteRead(c) \/ DeleteCommit(c)
  PROVE  AllSynced'
<1>1. client[c] \in Records /\ Synced(c)
    BY DEF TypeOK, ClientsTyped, AllSynced
<1>2. CASE Raises(c)
    BY <1>2, RaisesSynced
<1>3. CASE \E v : /\ Becomes(c, [client[c] EXCEPT !.pc = "delete_commit", !.victims = v])
                  /\ UNCHANGED <<server, clean, late>> /\ client[c].pc = "delete_read"
  <2>1. PICK v : Becomes(c, [client[c] EXCEPT !.pc = "delete_commit", !.victims = v])
      BY <1>3
  <2> DEFINE rec == [client[c] EXCEPT !.pc = "delete_commit", !.victims = v]
  <2>2. /\ rec.pc = "delete_commit" /\ rec.made = client[c].made
        /\ rec.result = client[c].result
      BY <1>1 DEF Records
  <2>3. ~client[c].made /\ client[c].result = "none"
      BY <1>1, <1>3 DEF Synced
  <2> QED
      BY <1>3, <2>1, <2>2, <2>3, AskSynced DEF server
<1>4. CASE DeleteCommit(c)
  <2> DEFINE rec == [client[c] EXCEPT !.victims = {}]
  <2>1. /\ rec \in Records /\ rec.made = client[c].made
        /\ rec.result = client[c].result
      BY <1>1 DEF Records
  <2>2. Answered(c, rec, "create_check", "delete_check") /\ clean' \subseteq {c}
      BY <1>4 DEF DeleteCommit, Disturbs
  <2> HIDE DEF rec
  <2>3. /\ \A d \in Clients \ {c} : client'[d] = client[d]
        /\ client'[c].made = client[c].made
        /\ \/ client'[c].pc = "create_check" /\ client'[c].result = "none"
           \/ client'[c].pc = "delete_check" /\ client'[c].result = client[c].result
      BY <2>1, <2>2, AnsweredFields
  <2>4. client[c].result = "none" /\ ~client[c].made
      BY <1>1, <1>4 DEF Synced, DeleteCommit
  <2>5. Synced(c)'
      BY <2>3, <2>4 DEF Synced
  <2> QED
      BY <2>2, <2>3, <2>5, OthersSynced
<1> QED
    BY <1>2, <1>3, <1>4 DEF DeleteRead

LEMMA NextSynced ==
  ASSUME TypeOK, SyncInv, SyncInv', AllSynced, [Next]_vars PROVE AllSynced'
<1>1. ASSUME NEW c \in Clients, NEW w \in Configs, StartSync(c, w) PROVE AllSynced'
  <2> DEFINE rec == [Idle EXCEPT !.pc = "get", !.want = w]
  <2>1. rec.pc = "get" /\ rec.result = "none" /\ rec.made = FALSE
      BY DEF Idle
  <2>2. Becomes(c, rec) /\ UNCHANGED <<step, from, late>> /\ clean' = clean \cup {c}
      BY <1>1 DEF StartSync, server
  <2> QED
      BY <2>1, <2>2, AskSynced
<1>2. ASSUME NEW c \in Clients, Raises(c) PROVE AllSynced'
    BY <1>2, RaisesSynced
<1>3. ASSUME NEW c \in Clients, GetStep(c) PROVE AllSynced'
  <2>1. Raises(c) \/ \E pc \in {"create_check", "update", "delete_check"} :
                        Moves(c, pc) /\ UNCHANGED <<server, clean, late>>
      BY <1>3 DEF GetStep
  <2> QED
      BY <1>2, <1>3, <2>1, MovesSynced DEF GetStep
<1>4. ASSUME NEW c \in Clients, DeleteCheck(c) \/ CreateCheck(c) PROVE AllSynced'
    BY <1>2, <1>4, MovesSynced DEF DeleteCheck, CreateCheck
<1>5. ASSUME NEW c \in Clients, UpdateStep(c) PROVE AllSynced'
    BY <1>5, UpdateSynced
<1>6. ASSUME NEW c \in Clients, DeleteRead(c) \/ DeleteCommit(c) PROVE AllSynced'
    BY <1>6, DeleteSynced
<1>7. ASSUME NEW c \in Clients, CreateCommit(c) PROVE AllSynced'
    BY <1>7, CreateSynced
<1>8. ASSUME NEW c \in Clients, SetData(c) PROVE AllSynced'
    BY <1>8, DataSynced
<1>9. CASE SetMutable \/ UNCHANGED vars
  <2>1. UNCHANGED <<step, from, late, client, clean>>
      BY <1>9 DEF SetMutable, vars, server
  <2> QED
      BY <2>1 DEF AllSynced, Synced, Mirrored, HasSent, Mirrors, ParentNames, Parents,
                  Called, Live
<1> QED
    BY <1>1, <1>2, <1>3, <1>4, <1>5, <1>6, <1>7, <1>8, <1>9
    DEF Next, Deadlocked, Interrupted

LEMMA SyncsDone == Spec => []AllSynced
<1>1. Init => AllSynced
    BY DEF Init, Idle, AllSynced, Synced
<1>2. TypeOK /\ SyncInv /\ SyncInv' /\ AllSynced /\ [Next]_vars => AllSynced'
    BY NextSynced
<1> QED
    BY <1>1, <1>2, SyncTyped, SyncInvariant, PTL DEF Spec

(* A sync that nothing disturbed leaves the step as the client has it.     *)
THEOREM SyncLeavesMirror == Spec => []SyncMirrors
<1>1. TypeOK /\ AllSynced => SyncMirrors
    BY DEF TypeOK, ClientsTyped, AllSynced, Synced, Mirrored, SyncMirrors
<1> QED
    BY <1>1, SyncTyped, SyncsDone, PTL

(* If it created the step, the data is there.                              *)
THEOREM SyncLeavesData == Spec => []SyncedData
<1>1. TypeOK /\ AllSynced => SyncedData
    BY DEF TypeOK, ClientsTyped, AllSynced, Synced, HasSent, SyncedData
<1> QED
    BY <1>1, SyncTyped, SyncsDone, PTL
===============================================================================
