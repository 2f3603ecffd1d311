------------------------------ MODULE StepSync ------------------------------
(***************************************************************************)
(* The steps of one run, their lineage, and the clients that synchronise   *)
(* them.                                                                   *)
(*                                                                         *)
(* StepABC.sync (client/steps.py) gets the step of its name and then       *)
(* updates it, or deletes it, creates it again and sends its data.  The    *)
(* server (adapter/collections.py, orm.py) keeps a closure table,          *)
(* step_from, with a row for each length of a path from a step to one of   *)
(* its descendants.                                                        *)
(*                                                                         *)
(* Transactions run at READ COMMITTED.  create_step locks each step it     *)
(* links to through its foreign keys until it commits: what it read still  *)
(* holds then, and it is one action once the sequence has given it an id.  *)
(* delete_step reads the descendants in a session of their own and deletes *)
(* by id afterwards: two actions.                                          *)
(***************************************************************************)
EXTENDS Integers, Sequences, FiniteSets

CONSTANTS
  Clients,
  Configs,       \* what a client may sync: [name, type, inputs, fp, setting]
  MaxSyncs,      \* calls of sync
  MaxLost        \* answers lost in all: http_retry makes 5 attempts

Types == {"source", "model", "resolver"}
Elements(s) == {s[i] : i \in 1..Len(s)}

(* What the DTOs allow: a source has no parents, a model one or two, a     *)
(* resolver one or more; no step is its own parent.                        *)
ASSUME StepSyncAssumption ==
  /\ Configs # {}
  /\ \A w \in Configs :
       /\ w = [name |-> w.name, type |-> w.type, inputs |-> w.inputs,
               fp |-> w.fp, setting |-> w.setting]
       /\ w.inputs \in Seq({v.name : v \in Configs} \ {w.name})
       /\ \/ w.type = "source" /\ w.inputs = <<>>
          \/ w.type = "model" /\ Len(w.inputs) \in 1..2
          \/ w.type = "resolver" /\ Len(w.inputs) > 0
  /\ MaxSyncs \in Nat /\ MaxLost \in 0..4

VARIABLES
  step,      \* the rows of steps, by step_id: [config, stage]
  from,      \* the rows of step_from: [parent, child, level]
  last,      \* the last step_id of the sequence
  mutable,   \* is_mutable of the run
  client,    \* of each client: [pc, want, victims, made, result]
  clean,     \* clients whose last sync no other client's change overlaps
  late,      \* steps created below a step that a deletion had selected
  syncs,     \* calls of sync so far
  lost       \* answers lost so far

server == <<step, from, last, mutable>>
vars == <<server, client, clean, late, syncs, lost>>

Live == DOMAIN step
Row(p, c, l) == [parent |-> p, child |-> c, level |-> l]
Parents(id) == {p \in Live : Row(p, id, 1) \in from}

(* Mutant of Descendants: the children only.                               *)
Children(id) == {c \in Live : Row(id, c, 1) \in from}
Descendants(id) == {c \in Live : \E r \in from : r.parent = id /\ r.child = c}

ParentNames(id) == {step[p].config.name : p \in Parents(id)}
Called(name) == {id \in Live : step[id].config.name = name}

(* What GET returns is a resolver without inputs, which its DTO rejects.   *)
Unreadable(id) == step[id].config.type = "resolver" /\ Parents(id) = {}

(* config.parents of the step served equals w.inputs as a list: a model's  *)
(* are stored as given, a resolver's are read back in the order of their   *)
(* step_ids.                                                               *)
SameParents(id, w) ==
  IF step[id].config.type = "resolver"
  THEN /\ Elements(w.inputs) = ParentNames(id)
       /\ \A i, j \in 1..Len(w.inputs) : i < j =>
            \E p, q \in Parents(id) : /\ p < q
                                      /\ step[p].config.name = w.inputs[i]
                                      /\ step[q].config.name = w.inputs[j]
  ELSE w.inputs = step[id].config.inputs

Matches(id, w) == step[id].config.fp = w.fp /\ SameParents(id, w)

Idle == [pc |-> "idle", want |-> CHOOSE w \in Configs : TRUE,
         victims |-> {}, made |-> FALSE, result |-> "none"]

Init ==
  /\ step = [id \in {} |-> 0] /\ from = {} /\ last = 0 /\ mutable = TRUE
  /\ client = [c \in Clients |-> Idle]
  /\ clean = {} /\ late = {}
  /\ syncs = 0 /\ lost = 0

-----------------------------------------------------------------------------
Becomes(c, rec) == client' = [client EXCEPT ![c] = rec]
Moves(c, pc) == Becomes(c, [client[c] EXCEPT !.pc = pc])
Aborts(c) == Becomes(c, [Idle EXCEPT !.result = "raised"])
Raises(c) == Aborts(c) /\ UNCHANGED <<server, clean, late, syncs, lost>>

(* The server changed something for c: c hears of it and goes on with next,*)
(* or the answer is lost and http_retry makes the call again.              *)
Answered(c, rec, next, again) ==
  \/ /\ Becomes(c, [rec EXCEPT !.pc = next,
                               !.result = IF next = "idle" THEN "ok" ELSE "none"])
     /\ lost' = lost
  \/ /\ lost < MaxLost /\ lost' = lost + 1
     /\ Becomes(c, [rec EXCEPT !.pc = again])

(* A change made for c disturbs the syncs of the other clients.            *)
Disturbs(c) == clean' = clean \cap {c}

StartSync(c, w) ==
  /\ client[c].pc = "idle" /\ syncs < MaxSyncs
  /\ Becomes(c, [Idle EXCEPT !.pc = "get", !.want = w])
  /\ clean' = clean \cup {c}
  /\ syncs' = syncs + 1
  /\ UNCHANGED <<server, late, lost>>

GetStep(c) ==
  LET w == client[c].want IN
  /\ client[c].pc = "get"
  /\ \/ /\ Called(w.name) = {}
        /\ Moves(c, "create_check")
        /\ UNCHANGED <<server, clean, late, syncs, lost>>
     \/ \E id \in Called(w.name) :
          \/ Unreadable(id) /\ Raises(c)
          \/ /\ ~Unreadable(id)
             /\ Moves(c, IF Matches(id, w) THEN "update" ELSE "delete_check")
             /\ UNCHANGED <<server, clean, late, syncs, lost>>

(* update_step, which does not check that the run is mutable: the step     *)
(* keeps its fingerprint, its lineage and its data.                        *)
Updatable(id, w) ==
  /\ ~Unreadable(id) /\ Matches(id, w)
  /\ step[id].config.type = w.type

(* Mutant of Rewritten: the transaction is not committed.                  *)
NotRewritten(id, w) == step
Rewritten(id, w) == [step EXCEPT ![id].config.setting = w.setting]

UpdateStep(c) ==
  LET w == client[c].want IN
  /\ client[c].pc = "update"
  /\ \/ /\ \A id \in Called(w.name) : ~Updatable(id, w)
        /\ Raises(c)
     \/ \E id \in Called(w.name) :
          /\ Updatable(id, w)
          /\ step' = Rewritten(id, w)
          /\ Answered(c, client[c], "idle", "update")
          /\ Disturbs(c)
          /\ UNCHANGED <<from, last, mutable, late, syncs>>

(* delete_step with certain = True: the check of the run, the selection of *)
(* the step and its descendants, and the deletion with its cascade.        *)
DeleteCheck(c) ==
  /\ client[c].pc = "delete_check"
  /\ \/ ~mutable /\ Raises(c)
     \/ mutable /\ Moves(c, "delete_read") /\ UNCHANGED <<server, clean, late, syncs, lost>>

DeleteRead(c) ==
  LET found == Called(client[c].want.name) IN
  /\ client[c].pc = "delete_read"
  /\ \/ found = {} /\ Raises(c)
     \/ \E id \in found :
          /\ Becomes(c, [client[c] EXCEPT !.pc = "delete_commit",
                                          !.victims = {id} \cup Descendants(id)])
          /\ UNCHANGED <<server, clean, late, syncs, lost>>

(* Mutant of Cascade: the foreign key of the child has no ON DELETE.       *)
CascadeParents(gone) == {r \in from : r.parent \notin gone}
Cascade(gone) == {r \in from : r.parent \notin gone /\ r.child \notin gone}

DeleteCommit(c) ==
  LET gone == client[c].victims IN
  /\ client[c].pc = "delete_commit"
  /\ step' = [id \in Live \ gone |-> step[id]]
  /\ from' = Cascade(gone)
  /\ late' = late \ gone
  /\ Answered(c, [client[c] EXCEPT !.victims = {}], "create_check", "delete_check")
  /\ Disturbs(c)
  /\ UNCHANGED <<last, mutable, syncs>>

(* create_step: the check of the run and a fresh id, and the insertion of  *)
(* the step and of its rows of lineage.                                    *)
CreateCheck(c) ==
  /\ client[c].pc = "create_check"
  /\ \/ ~mutable /\ Raises(c)
     \/ /\ mutable
        /\ Moves(c, "create_commit")
        /\ UNCHANGED <<server, clean, late, syncs, lost>>

InputType(w) == IF w.type = "model" THEN {"source", "resolver"} ELSE {"model"}

(* Mutants of InputsAreThere: the types are not looked at; an input that   *)
(* is not there is skipped.                                                *)
InputsHaveNames(w) == \A name \in Elements(w.inputs) : Called(name) # {}
InputsMayMiss(w) ==
  \A name \in Elements(w.inputs) :
    \A p \in Called(name) : step[p].config.type \in InputType(w)
InputsAreThere(w) ==
  \A name \in Elements(w.inputs) :
    \E p \in Called(name) : step[p].config.type \in InputType(w)

InputIds(w) == {p \in Live : step[p].config.name \in Elements(w.inputs)}

(* Mutant of NewRows: the transitive closure is left out.                  *)
NewEdges(id, parents) == {Row(p, id, 1) : p \in parents}

(* _create_closure_entries for each parent: the edge, and each row that    *)
(* ends at the parent one level further.                                   *)
NewRows(id, parents) ==
  {Row(p, id, 1) : p \in parents}
    \cup {Row(r.parent, id, r.level + 1) : r \in {r \in from : r.child \in parents}}

(* Steps that some deletion has selected and not deleted yet.              *)
Doomed == UNION {client[d].victims : d \in Clients}

CreateCommit(c) ==
  LET w == client[c].want
      id == last + 1
      rows == NewRows(id, InputIds(w))
      possible == Called(w.name) = {} /\ InputsAreThere(w)
  IN
  /\ client[c].pc = "create_commit"
  /\ \/ ~possible /\ Raises(c)
     \/ /\ possible
        /\ step' = [i \in Live \cup {id} |->
                      IF i = id THEN [config |-> w, stage |-> "READY"] ELSE step[i]]
        /\ from' = from \cup rows /\ last' = id
        /\ late' = IF \E r \in rows : r.parent \in Doomed THEN late \cup {id} ELSE late
        /\ Answered(c, [client[c] EXCEPT !.made = TRUE], "set_data", "create_check")
        /\ Disturbs(c)
        /\ UNCHANGED <<mutable, syncs>>

(* Two transactions that lock rows of steps in different orders: the       *)
(* database aborts one.                                                    *)
Deadlocked(c) ==
  /\ client[c].pc \in {"create_commit", "delete_commit"}
  /\ \E d \in Clients \ {c} : client[d].pc \in {"create_commit", "delete_commit"}
  /\ Raises(c)

(* Mutant of SetData: a stage of READY is not an error.                    *)
SetDataUnchecked(c) ==
  LET empty == {id \in Called(client[c].want.name) : step[id].stage = "READY"} IN
  /\ client[c].pc = "set_data"
  /\ \/ /\ Becomes(c, [client[c] EXCEPT !.pc = "idle", !.result = "ok"])
        /\ UNCHANGED <<server, clean, late, syncs, lost>>
     \/ \E id \in empty :
          /\ mutable
          /\ step' = [step EXCEPT ![id].stage = "COMPLETE"]
          /\ Answered(c, client[c], "idle", "set_data")
          /\ Disturbs(c)
          /\ UNCHANGED <<from, last, mutable, late, syncs>>

(* set_data of the client: the upload and the wait for it.  It needs a     *)
(* mutable run and a step without data; the upload may fail.               *)
SetData(c) ==
  LET empty == {id \in Called(client[c].want.name) : step[id].stage = "READY"} IN
  /\ client[c].pc = "set_data"
  /\ \/ Raises(c)
     \/ \E id \in empty :
          /\ mutable
          /\ step' = [step EXCEPT ![id].stage = "COMPLETE"]
          /\ Answered(c, client[c], "idle", "set_data")
          /\ Disturbs(c)
          /\ UNCHANGED <<from, last, mutable, late, syncs>>

(* The client is stopped between two calls, or gives a call up after five  *)
(* attempts.                                                               *)
Interrupted(c) ==
  /\ client[c].pc \in {"get", "update", "delete_check", "create_check", "set_data"}
  /\ Raises(c)

(* set_run_mutable, by whoever publishes the run.                          *)
SetMutable ==
  /\ mutable' = ~mutable
  /\ UNCHANGED <<step, from, last, client, clean, late, syncs, lost>>

Next ==
  \/ \E c \in Clients :
       \/ \E w \in Configs : StartSync(c, w)
       \/ GetStep(c) \/ UpdateStep(c)
       \/ DeleteCheck(c) \/ DeleteRead(c) \/ DeleteCommit(c)
       \/ CreateCheck(c) \/ CreateCommit(c) \/ Deadlocked(c)
       \/ SetData(c) \/ Interrupted(c)
  \/ SetMutable

Spec == Init /\ [][Next]_vars
-----------------------------------------------------------------------------
PCs == {"idle", "get", "update", "delete_check", "delete_read", "delete_commit",
        "create_check", "create_commit", "set_data"}

Stored == [name : {w.name : w \in Configs}, type : Types,
           inputs : {w.inputs : w \in Configs}, fp : {w.fp : w \in Configs},
           setting : {w.setting : w \in Configs}]

Records == [pc : PCs, want : Configs, victims : SUBSET Nat,
            made : BOOLEAN, result : {"none", "ok", "raised"}]

(* Every row of steps and step_from and every client is well-formed, names *)
(* are unique in the run, and no row of lineage outlives its two ends.     *)
ServerTyped ==
  /\ last \in Nat /\ Live \subseteq 1..last /\ mutable \in BOOLEAN
  /\ step \in [Live -> [config : Stored, stage : {"READY", "COMPLETE"}]]
  /\ \A i, j \in Live : step[i].config.name = step[j].config.name => i = j
  /\ from \subseteq [parent : Live, child : Live, level : Nat \ {0}]
  /\ late \subseteq Live

ClientsTyped ==
  /\ client \in [Clients -> Records] /\ clean \subseteq Clients
  /\ syncs \in 0..MaxSyncs /\ lost \in 0..MaxLost

TypeOK == ServerTyped /\ ClientsTyped

(* The parents of a model are sources and resolvers, those of a resolver   *)
(* are models, and a source has none, whatever DAGs the clients hold.      *)
ParentsTyped ==
  \A id \in Live : \A p \in Parents(id) :
    /\ step[id].config.type # "source"
    /\ step[p].config.type \in InputType(step[id].config)

(* A step has exactly the parents its configuration names, unless it was   *)
(* created under a deletion: deleting a step deletes what was built on it. *)
ParentsNamed ==
  \A id \in Live \ late : ParentNames(id) = Elements(step[id].config.inputs)

(* step_from is the closure of the edges: each row that ends at a parent   *)
(* of a step is there one level further, and each row longer than an edge  *)
(* comes from a parent.  (For a step created under a deletion they may be  *)
(* what is left of that.)                                                  *)
LineageIsClosure ==
  \A id \in Live \ late : \A r \in from :
    /\ r.child \in Parents(id) => Row(r.parent, id, r.level + 1) \in from
    /\ r.child = id /\ r.level > 1 =>
         \E q \in Parents(id) : Row(r.parent, q, r.level - 1) \in from

(* What these rest on.  step_from is transitive, also for a step created   *)
(* under a deletion, so that a deletion has selected all that is built on  *)
(* what it selected, but for the steps created since.                      *)
Transitive ==
  \A r, s \in from : r.child = s.parent =>
    \E t \in from : t.parent = r.parent /\ t.child = s.child

VictimsClosed ==
  \A d \in Clients : \A r \in from :
    r.parent \in client[d].victims => r.child \in client[d].victims \cup late

LineageInv == Transitive /\ VictimsClosed

(* The step is as w has it.  The list of a resolver's inputs is not kept:  *)
(* w may name its parents in another order than the DAG that created it.   *)
Mirrors(id, w) ==
  /\ [step[id].config EXCEPT !.inputs = w.inputs] = w
  /\ w.type # "resolver" => step[id].config.inputs = w.inputs
  /\ id \notin late => ParentNames(id) = Elements(w.inputs)

(* After a sync that returned and that nothing disturbed, the server holds *)
(* the step as the client has it, with the parents the client named.       *)
SyncMirrors ==
  \A c \in clean : client[c].result = "ok" =>
    \E id \in Live : Mirrors(id, client[c].want)

(* Such a sync that created the step has put its data there.               *)
SyncedData ==
  \A c \in clean : client[c].result = "ok" /\ client[c].made =>
    \E id \in Called(client[c].want.name) : step[id].stage = "COMPLETE"

(* What sync claims, "Send step config and local data to the server": the  *)
(* data of the step is there when it returns.                              *)
SyncSendsData ==
  \A c \in clean : client[c].result = "ok" =>
    \E id \in Called(client[c].want.name) : step[id].stage = "COMPLETE"

(* Syncing a step the server already has, with the same configuration and  *)
(* data, does not delete it and what is built on it.                       *)
ResyncKeeps ==
  \A c \in clean : client[c].pc = "delete_read" =>
    \A id \in Live : step[id].config # client[c].want
=============================================================================
