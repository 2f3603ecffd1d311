---------------------------- MODULE Runs_proofs ----------------------------
(***************************************************************************)
(* Theorems about Runs, for every set of clients and every bound.          *)
(***************************************************************************)
EXTENDS Runs, FiniteSetTheorems, TLAPS

(* What the steps of a client make of its record.                          *)
LEMMA RecordsTyped ==
  ASSUME TypeOK, NEW c \in Clients
  PROVE  /\ client[c] \in Records
         /\ \A p \in PCs : Moved(c, p) \in Records
         /\ \A result \in {"ok", "error"} : Ended(c, result) \in Records
<1>1. client[c] \in Records
    BY DEF TypeOK
<1>2. ASSUME NEW p \in PCs PROVE Moved(c, p) \in Records
    BY <1>1 DEF Moved, Records
<1>3. ASSUME NEW result \in {"ok", "error"} PROVE Ended(c, result) \in Records
    BY <1>1 DEF Ended, Records, PCs
<1> QED
    BY <1>1, <1>2, <1>3

LEMMA FieldsTyped ==
  ASSUME NEW rec \in Records
  PROVE  /\ \A rs \in SUBSET Nat : [rec EXCEPT !.read = rs] \in Records
         /\ \A rs, ts \in SUBSET Nat : [rec EXCEPT !.todo = ts, !.read = rs] \in Records
         /\ \A ts \in SUBSET Nat : [rec EXCEPT !.todo = ts] \in Records
         /\ \A r \in Nat : [rec EXCEPT !.run = r] \in Records
         /\ \A op \in Ops : [rec EXCEPT !.op = op, !.result = "none"] \in Records
BY DEF Records

LEMMA BecomesTyped ==
  ASSUME TypeOK, NEW c \in Clients, NEW rec \in Records, Becomes(c, rec)
  PROVE  client' \in [Clients -> Records]
BY DEF TypeOK, Becomes

LEMMA RaisesTyped ==
  ASSUME TypeOK, NEW c \in Clients, Raises(c) PROVE TypeOK'
<1>1. client' \in [Clients -> Records]
    BY RecordsTyped, BecomesTyped DEF Raises
<1> QED
    BY <1>1 DEF TypeOK, Raises, server

LEMMA HearsTyped ==
  ASSUME TypeOK, NEW c \in Clients, NEW next \in Records, Hears(c, next)
  PROVE  TypeOK'
<1>1. client' \in [Clients -> Records]
    BY BecomesTyped DEF Hears
<1> QED
    BY <1>1 DEF TypeOK, Hears, server

LEMMA AnswerTyped ==
  ASSUME TypeOK, NEW c \in Clients, NEW next \in Records, NEW again \in Records,
         Answer(c, next, again)
  PROVE  /\ client' \in [Clients -> Records] /\ clean' \subseteq Clients
         /\ ops' \in Nat /\ lost' \in Nat /\ admin' \in Nat /\ thawed' = thawed
<1>1. client' \in [Clients -> Records]
    BY BecomesTyped DEF Answer
<1> QED
    BY <1>1 DEF TypeOK, Answer

LEMMA RemoveTyped ==
  ASSUME TypeOK, NEW rs, Remove(rs)
  PROVE  /\ last' = last /\ live' \subseteq live
         /\ mutable' \subseteq live' /\ default' \subseteq live'
BY DEF TypeOK, Remove

LEMMA NextTyped == TypeOK /\ [Next]_vars => TypeOK'
<1> SUFFICES ASSUME TypeOK, [Next]_vars PROVE TypeOK'
    OBVIOUS
<1>0. /\ \A c \in Clients : client[c].read \subseteq Nat /\ client[c].todo \subseteq Nat
      /\ live \subseteq Nat /\ default \subseteq live /\ last + 1 \in Nat
    BY DEF TypeOK, Records
<1>1. ASSUME NEW c \in Clients, NEW op \in Ops, Begin(c, op) PROVE TypeOK'
    <2>1. FirstCall(op) \in PCs
        BY DEF FirstCall, PCs
    <2>2. [Moved(c, FirstCall(op)) EXCEPT !.op = op, !.result = "none"] \in Records
        BY <2>1, RecordsTyped, FieldsTyped
    <2>3. client' \in [Clients -> Records]
        BY <1>1, <2>2, BecomesTyped DEF Begin
    <2> QED  BY <1>1, <2>3 DEF Begin, TypeOK, server
<1>2. ASSUME NEW c \in Clients, Quit(c) PROVE TypeOK'
    BY <1>2, RaisesTyped DEF Quit
<1>3. ASSUME NEW c \in Clients, GetCollection(c) PROVE TypeOK'
    <2>1. CASE NotFound(c)
        BY <2>1, RecordsTyped, RaisesTyped, HearsTyped DEF NotFound, PCs
    <2>2. CASE ListForNew(c)
        <3>1. [Moved(c, "delete") EXCEPT !.todo = ToDelete] \in Records
            BY <1>0, RecordsTyped, FieldsTyped DEF ToDelete, PCs
        <3> QED  BY <2>2, <3>1, HearsTyped DEF ListForNew
    <2>3. CASE ListForLoad(c)
        <3>1. \A r \in live : [Moved(c, "load") EXCEPT !.read = {r}] \in Records
            BY <1>0, RecordsTyped, FieldsTyped DEF PCs
        <3> QED  BY <1>0, <2>3, <3>1, RaisesTyped, HearsTyped DEF ListForLoad
    <2> QED  BY <1>3, <2>1, <2>2, <2>3 DEF GetCollection
<1>4. ASSUME NEW c \in Clients, CreateCollection(c) PROVE TypeOK'
    <2>1. Moved(c, "relist") \in Records /\ client[c] \in Records
        BY RecordsTyped DEF PCs
    <2>2. CASE collection
        BY <1>4, <2>2, RaisesTyped DEF CreateCollection
    <2>3. CASE ~collection
        BY <1>4, <2>1, <2>3, AnswerTyped DEF CreateCollection, TypeOK
    <2> QED  BY <2>2, <2>3
<1>5. ASSUME NEW c \in Clients, DeleteRead(c) PROVE TypeOK'
    <2>1. \A r \in client[c].todo : [Moved(c, "delete_commit") EXCEPT !.read = {r}] \in Records
        BY <1>0, RecordsTyped, FieldsTyped DEF PCs
    <2> QED  BY <1>5, <2>1, RaisesTyped, HearsTyped DEF DeleteRead
<1>6. ASSUME NEW c \in Clients, DeleteCommit(c) PROVE TypeOK'
    <2> DEFINE next == [Moved(c, "delete") EXCEPT !.todo = @ \ client[c].read, !.read = {}]
               again == [Moved(c, "delete") EXCEPT !.read = {}]
    <2>1. Moved(c, "delete").todo = client[c].todo
        BY RecordsTyped DEF Moved, Records
    <2>2. next \in Records /\ again \in Records
        BY <1>0, <2>1, RecordsTyped, FieldsTyped DEF PCs
    <2>3. Answer(c, next, again) /\ Remove(client[c].read) /\ collection' = collection
        BY <1>6 DEF DeleteCommit
    <2> HIDE DEF next, again
    <2> QED  BY <2>2, <2>3, AnswerTyped, RemoveTyped DEF TypeOK
<1>7. ASSUME NEW c \in Clients, CreateRun(c) PROVE TypeOK'
    <2>1. CASE ~collection
        BY <1>7, <2>1, RaisesTyped DEF CreateRun
    <2>2. CASE collection
        <3>1. [Ended(c, "ok") EXCEPT !.run = last + 1] \in Records /\ client[c] \in Records
            BY <1>0, RecordsTyped, FieldsTyped
        <3>2. Answer(c, [Ended(c, "ok") EXCEPT !.run = last + 1], client[c])
            BY <1>7, <2>2 DEF CreateRun
        <3>3. live' \subseteq 1..last' /\ mutable' \subseteq live' /\ default' \subseteq live'
            BY <1>7, <2>2 DEF CreateRun, TypeOK, Raises
        <3>4. last' \in Nat /\ collection' = collection /\ 1..last \subseteq 1..last'
            BY <1>0, <1>7, <2>2 DEF CreateRun, TypeOK, Raises
        <3>5. /\ client' \in [Clients -> Records] /\ clean' \subseteq Clients
              /\ ops' \in Nat /\ lost' \in Nat /\ admin' \in Nat /\ thawed' = thawed
            BY <3>1, <3>2, AnswerTyped
        <3>6. thawed' \subseteq 1..last'
            BY <3>4, <3>5 DEF TypeOK
        <3> QED  BY <2>2, <3>3, <3>4, <3>5, <3>6 DEF TypeOK
    <2> QED  BY <2>1, <2>2
<1>8. ASSUME NEW c \in Clients, LoadRun(c) PROVE TypeOK'
    <2>1. \A r \in live : [Ended(c, "ok") EXCEPT !.run = r] \in Records
        BY <1>0, RecordsTyped, FieldsTyped
    <2> QED  BY <1>8, <2>1, RaisesTyped, HearsTyped DEF LoadRun
<1>9. ASSUME NEW c \in Clients, Freeze(c) PROVE TypeOK'
    <2>1. Moved(c, "default") \in Records /\ client[c] \in Records
        BY RecordsTyped DEF PCs
    <2>2. CASE client[c].run \notin live
        BY <1>9, <2>2, RaisesTyped DEF Freeze
    <2>3. CASE client[c].run \in live
        <3>1. /\ client' \in [Clients -> Records] /\ clean' \subseteq Clients
              /\ ops' \in Nat /\ lost' \in Nat /\ admin' \in Nat /\ thawed' = thawed
            BY <1>9, <2>1, <2>3, AnswerTyped DEF Freeze
        <3>2. /\ mutable' \subseteq mutable /\ collection' = collection
              /\ live' = live /\ default' = default /\ last' = last
            BY <1>9, <2>3 DEF Freeze
        <3> QED  BY <3>1, <3>2 DEF TypeOK
    <2> QED  BY <2>2, <2>3
<1>10. ASSUME NEW c \in Clients, DefaultRead(c) PROVE TypeOK'
    BY <1>10, RecordsTyped, RaisesTyped, HearsTyped DEF DefaultRead, PCs
<1>11. ASSUME NEW c \in Clients, DefaultUnset(c) PROVE TypeOK'
    <2>1. [Moved(c, "default_commit") EXCEPT !.read = default] \in Records
        BY <1>0, RecordsTyped, FieldsTyped DEF PCs
    <2> QED  BY <1>11, <2>1, HearsTyped DEF DefaultUnset
<1>12. ASSUME NEW c \in Clients, DefaultFails(c) PROVE TypeOK'
    BY <1>12, RaisesTyped DEF DefaultFails
<1>13. ASSUME NEW c \in Clients, DefaultCommit(c) PROVE TypeOK'
    <2>1. [Moved(c, "default") EXCEPT !.read = {}] \in Records /\ Ended(c, "ok") \in Records
        BY RecordsTyped, FieldsTyped DEF PCs
    <2>2. default' \subseteq live
        BY <1>0, <1>13 DEF DefaultCommit
    <2> QED  BY <1>13, <2>1, <2>2, AnswerTyped DEF DefaultCommit, TypeOK
<1>14. ASSUME AdminNext PROVE TypeOK'
    <2>0. /\ Administers =>
              client' = client /\ clean' = {} /\ ops' = ops /\ lost' = lost /\ admin' \in Nat
          /\ default \subseteq live /\ mutable \subseteq live /\ live \subseteq 1..last
        BY DEF Administers, TypeOK
    <2>1. ASSUME NEW r \in live, NEW flag \in BOOLEAN, SetRunMutable(r, flag) PROVE TypeOK'
        <3>1. mutable' \subseteq live /\ thawed' \subseteq 1..last
            BY <2>0, <2>1 DEF SetRunMutable, TypeOK
        <3> QED  BY <2>0, <2>1, <3>1 DEF SetRunMutable, TypeOK
    <2>2. ASSUME NEW r \in live, UnsetDefault(r) PROVE TypeOK'
        BY <2>0, <2>2 DEF UnsetDefault, TypeOK
    <2>3. ASSUME NEW r \in live, DeleteRun(r) PROVE TypeOK'
        <3>1. live' # {} => collection'
            BY <2>3 DEF DeleteRun, Remove, TypeOK
        <3> QED  BY <2>0, <2>3, <3>1, RemoveTyped DEF DeleteRun, TypeOK
    <2>4. CASE DeleteCollection
        <3>1. live' = {} /\ mutable' = {} /\ default' = {}
            BY <2>0, <2>4 DEF DeleteCollection, Remove
        <3> QED  BY <2>0, <2>4, <3>1 DEF DeleteCollection, Remove, TypeOK
    <2> QED  BY <1>14, <2>1, <2>2, <2>3, <2>4 DEF AdminNext
<1>15. CASE UNCHANGED vars
    BY <1>15 DEF TypeOK, vars, server
<1> QED
    BY <1>1, <1>2, <1>3, <1>4, <1>5, <1>6, <1>7, <1>8, <1>9, <1>10, <1>11, <1>12, <1>13, <1>14, <1>15
    DEF Next, ClientNext, SetRunDefault

LEMMA InitTyped == Init => TypeOK
<1> SUFFICES ASSUME Init PROVE TypeOK
    OBVIOUS
<1>1. Idle \in Records
    BY DEF Idle, Records, PCs
<1> QED
    BY <1>1, RunsAssumption DEF Init, TypeOK

(* The runs and what is said of them are consistent: every run belongs to  *)
(* the collection and has an id of the sequence, and the default run exists*)
THEOREM RunsTyped == Spec => []TypeOK
BY InitTyped, NextTyped, PTL DEF Spec

-----------------------------------------------------------------------------
(* The inductive invariant, client by client.                              *)

Setting(c) == At(c, "unset") \/ At(c, "default_commit")

SetPCs == {"idle", "freeze", "default", "unset", "default_commit"}

Sound(c) ==
  /\ client[c].run # None => client[c].run \in 1..last
  /\ ~At(c, "idle") => client[c].result = "none"
  /\ client[c].op \in SetOps => client[c].pc \in SetPCs
  /\ Setting(c) => client[c].run \notin mutable \ thawed
  /\ c \in clean =>
       /\ Setting(c) => client[c].run \in live \ mutable
       /\ At(c, "default_commit") => client[c].read = default
       /\ client[c].op \in SetOps /\ client[c].result = "ok"
            => default = {client[c].run} /\ client[c].run \notin mutable

LEMMA InvByClient ==
  ASSUME TypeOK
  PROVE  RunsInv <=> OneDefault /\ DefaultIsFrozen /\ \A c \in Clients : Sound(c)
BY DEF RunsInv, RunsGiven, Undecided, Listing, SetPCs, FrozenWhenRead, StillFrozen, StillDefault,
       SetDefaultPublishes, Sound, Setting, TypeOK

LEMMA InvNextByClient ==
  ASSUME TypeOK', OneDefault', DefaultIsFrozen', \A c \in Clients : Sound(c)'
  PROVE  RunsInv'
BY DEF RunsInv, RunsGiven, Undecided, Listing, SetPCs, FrozenWhenRead, StillFrozen, StillDefault,
       SetDefaultPublishes, Sound, Setting, TypeOK

(* Nothing becomes default, and nothing mutable but a new run and what is  *)
(* recorded in thawed.                                                     *)
Tame == /\ default' \subseteq default
        /\ mutable' \ thawed' \subseteq (mutable \ thawed) \cup {last + 1}

LEMMA TameKeepsDefault ==
  ASSUME TypeOK, OneDefault, DefaultIsFrozen, Tame
  PROVE  OneDefault' /\ DefaultIsFrozen'
<1>1. last + 1 \notin default
    BY DEF TypeOK
<1> QED
    BY <1>1 DEF OneDefault, DefaultIsFrozen, Tame

(* A client whose record stands and that is no longer clean.               *)
LEMMA OverlappedIsSound ==
  ASSUME TypeOK, NEW c \in Clients, Sound(c), client'[c] = client[c], c \notin clean',
         last' \in Nat, last' >= last,
         mutable' \ thawed' \subseteq (mutable \ thawed) \cup {last + 1}
  PROVE  Sound(c)'
<1>1. client[c].run # last + 1
    BY RunsAssumption DEF Sound, TypeOK
<1> QED
    BY <1>1 DEF Sound, Setting, At, TypeOK

(* A step of one client that leaves the server alone.                      *)
LEMMA QuietStep ==
  ASSUME RunsInv, NEW c \in Clients, NEW rec, Becomes(c, rec), TypeOK',
         UNCHANGED <<server, thawed>>, clean' \subseteq clean \cup {c}, Sound(c)'
  PROVE  RunsInv'
<1>1. TypeOK /\ OneDefault /\ DefaultIsFrozen /\ \A d \in Clients : Sound(d)
    BY InvByClient DEF RunsInv
<1>2. OneDefault' /\ DefaultIsFrozen'
    BY <1>1 DEF OneDefault, DefaultIsFrozen, server
<1>3. ASSUME NEW d \in Clients, d # c PROVE Sound(d)'
    <2>1. client'[d] = client[d]
        BY <1>1, <1>3 DEF Becomes, TypeOK
    <2>2. Sound(d)
        BY <1>1
    <2> QED  BY <2>1, <2>2 DEF Sound, Setting, At, server
<1>4. \A d \in Clients : Sound(d)'
    BY <1>3
<1> QED
    BY <1>2, <1>4, InvNextByClient

(* A step of one client that changes the runs: nobody else is clean then.  *)
LEMMA LoudStep ==
  ASSUME RunsInv, NEW c \in Clients, NEW rec, Becomes(c, rec), TypeOK',
         clean' \subseteq {c}, last' >= last, OneDefault', DefaultIsFrozen', Sound(c)',
         mutable' \ thawed' \subseteq (mutable \ thawed) \cup {last + 1}
  PROVE  RunsInv'
<1>1. TypeOK /\ \A d \in Clients : Sound(d)
    BY InvByClient DEF RunsInv
<1>2. last' \in Nat
    BY DEF TypeOK
<1>3. ASSUME NEW d \in Clients, d # c PROVE Sound(d)'
    <2>1. client'[d] = client[d] /\ d \notin clean'
        BY <1>1, <1>3 DEF Becomes, TypeOK
    <2> QED  BY <1>1, <1>2, <2>1, OverlappedIsSound
<1>4. \A d \in Clients : Sound(d)'
    BY <1>3
<1> QED
    BY <1>4, InvNextByClient

(* What a client is after a step that does not end in setting a default.   *)
LEMMA CalmIsSound ==
  ASSUME TypeOK, NEW c \in Clients, Sound(c), NEW rec, Becomes(c, rec),
         rec.run # None => rec.run \in 1..last',
         rec.pc # "idle" => rec.result = "none",
         rec.pc \notin {"unset", "default_commit"},
         rec.op \in SetOps => rec.pc \in SetPCs /\ rec.result # "ok"
  PROVE  Sound(c)'
<1>1. client'[c] = rec
    BY DEF Becomes, TypeOK
<1> QED
    BY <1>1 DEF Sound, Setting, At

LEMMA RaisesIsSound ==
  ASSUME RunsInv, TypeOK', NEW c \in Clients, Raises(c) PROVE RunsInv'
<1>1. TypeOK /\ Sound(c) /\ client[c] \in Records
    BY InvByClient DEF RunsInv, TypeOK
<1> DEFINE rec == Ended(c, "error")
<1>2. rec.pc = "idle" /\ rec.result = "error" /\ rec.run = client[c].run
    BY <1>1 DEF Ended, Records
<1>3. last' = last /\ Becomes(c, rec)
    BY DEF Raises, server
<1> HIDE DEF rec
<1>4. Sound(c)'
    <2>1. rec.run # None => rec.run \in 1..last'
        BY <1>1, <1>2, <1>3 DEF Sound
    <2> QED  BY <1>1, <1>2, <1>3, <2>1, CalmIsSound DEF SetPCs
<1> QED
    BY <1>3, <1>4, QuietStep DEF Raises

LEMMA HearsIsSound ==
  ASSUME RunsInv, TypeOK', NEW c \in Clients, NEW rec, Hears(c, rec),
         rec.run # None => rec.run \in 1..last,
         rec.pc # "idle" => rec.result = "none",
         rec.pc \notin {"unset", "default_commit"},
         rec.op \in SetOps => rec.pc \in SetPCs /\ rec.result # "ok"
  PROVE  RunsInv'
<1>1. TypeOK /\ Sound(c)
    BY InvByClient DEF RunsInv
<1>2. last' = last /\ Becomes(c, rec)
    BY DEF Hears, server
<1>3. Sound(c)'
    BY <1>1, <1>2, CalmIsSound
<1> QED
    BY <1>2, <1>3, QuietStep DEF Hears

(* The answer of a call that leaves the default of the collection alone.   *)
LEMMA AnswerIsSound ==
  ASSUME RunsInv, TypeOK', NEW c \in Clients, NEW next, NEW again,
         Answer(c, next, again), Tame, last' >= last,
         \A rec \in {next, again} :
             /\ rec.run # None => rec.run \in 1..last'
             /\ rec.pc # "idle" => rec.result = "none"
             /\ rec.pc \notin {"unset", "default_commit"}
             /\ rec.op \in SetOps => rec.pc \in SetPCs /\ rec.result # "ok"
  PROVE  RunsInv'
<1>1. TypeOK /\ Sound(c) /\ OneDefault /\ DefaultIsFrozen
    BY InvByClient DEF RunsInv
<1>2. PICK rec \in {next, again} : Becomes(c, rec)
    BY DEF Answer
<1>3. Sound(c)'
    BY <1>1, <1>2, CalmIsSound
<1>4. clean' \subseteq {c}
    BY DEF Answer
<1> QED
    BY <1>1, <1>2, <1>3, <1>4, TameKeepsDefault, LoudStep DEF Tame

LEMMA NextInv == RunsInv /\ [Next]_vars => RunsInv'
<1> SUFFICES ASSUME RunsInv, [Next]_vars PROVE RunsInv'
    OBVIOUS
<1>0. TypeOK /\ TypeOK' /\ OneDefault /\ DefaultIsFrozen /\ \A c \in Clients : Sound(c)
    BY NextTyped, InvByClient DEF RunsInv
<1>r. \A c \in Clients : client[c] \in Records
    BY <1>0 DEF TypeOK
<1>1. ASSUME NEW c \in Clients, NEW op \in Ops, Begin(c, op) PROVE RunsInv'
    <2> DEFINE rec == [Moved(c, FirstCall(op)) EXCEPT !.op = op, !.result = "none"]
    <2>1. /\ rec.op = op /\ rec.result = "none" /\ rec.pc = FirstCall(op)
          /\ rec.run = client[c].run
        BY <1>r DEF Moved, Records
    <2>2. FirstCall(op) \in {"freeze", "default", "list"} /\ (op \in SetOps => FirstCall(op) # "list")
        BY DEF FirstCall, SetOps
    <2>3. Becomes(c, rec) /\ last' = last
        BY <1>1 DEF Begin, server
    <2> HIDE DEF rec
    <2>4. Sound(c)'
        <3>1. rec.run # None => rec.run \in 1..last'
            BY <1>0, <2>1, <2>3 DEF Sound
        <3> QED  BY <1>0, <2>1, <2>2, <2>3, <3>1, CalmIsSound DEF SetPCs
    <2> QED  BY <1>0, <1>1, <2>3, <2>4, QuietStep DEF Begin
<1>2. ASSUME NEW c \in Clients, Quit(c) PROVE RunsInv'
    BY <1>0, <1>2, RaisesIsSound DEF Quit
<1>3. ASSUME NEW c \in Clients, GetCollection(c) PROVE RunsInv'
    <2>0. /\ client[c].op \notin SetOps /\ client[c].result = "none"
          /\ client[c].run # None => client[c].run \in 1..last
        BY <1>0, <1>3 DEF GetCollection, Sound, SetPCs, At
    <2>1. CASE NotFound(c)
        <3> DEFINE rec == Moved(c, "create_collection")
        <3>1. /\ rec.pc = "create_collection" /\ rec.op = client[c].op
              /\ rec.run = client[c].run /\ rec.result = client[c].result
            BY <1>r DEF Moved, Records
        <3>2. Hears(c, rec) \/ Raises(c)
            BY <2>1 DEF NotFound
        <3> HIDE DEF rec
        <3> QED  BY <1>0, <2>0, <3>1, <3>2, RaisesIsSound, HearsIsSound
    <2>2. CASE ListForNew(c)
        <3> DEFINE rec == [Moved(c, "delete") EXCEPT !.todo = ToDelete]
        <3>1. /\ rec.pc = "delete" /\ rec.op = client[c].op
              /\ rec.run = client[c].run /\ rec.result = client[c].result
            BY <1>r DEF Moved, Records
        <3>2. Hears(c, rec)
            BY <2>2 DEF ListForNew
        <3> HIDE DEF rec
        <3> QED  BY <1>0, <2>0, <3>1, <3>2, HearsIsSound
    <2>3. CASE ListForLoad(c)
        <3>1. ASSUME NEW r, Hears(c, [Moved(c, "load") EXCEPT !.read = {r}]) PROVE RunsInv'
            <4> DEFINE rec == [Moved(c, "load") EXCEPT !.read = {r}]
            <4>1. /\ rec.pc = "load" /\ rec.op = client[c].op
                  /\ rec.run = client[c].run /\ rec.result = client[c].result
                BY <1>r DEF Moved, Records
            <4>2. Hears(c, rec)
                BY <3>1
            <4> HIDE DEF rec
            <4> QED  BY <1>0, <2>0, <4>1, <4>2, HearsIsSound
        <3> QED  BY <1>0, <2>3, <3>1, RaisesIsSound DEF ListForLoad
    <2> QED  BY <1>3, <2>1, <2>2, <2>3 DEF GetCollection
<1>4. ASSUME NEW c \in Clients, CreateCollection(c) PROVE RunsInv'
    <2> DEFINE next == Moved(c, "relist")
    <2>1. /\ next.pc = "relist" /\ next.op = client[c].op
          /\ next.run = client[c].run /\ next.result = client[c].result
        BY <1>r DEF Moved, Records
    <2>2. /\ client[c].op \notin SetOps /\ client[c].result = "none" /\ At(c, "create_collection")
          /\ client[c].run # None => client[c].run \in 1..last
        BY <1>0, <1>4 DEF CreateCollection, Sound, SetPCs, At
    <2>3. CASE collection
        BY <1>0, <1>4, <2>3, RaisesIsSound DEF CreateCollection
    <2>4. CASE ~collection
        <3>1. /\ Answer(c, next, client[c])
              /\ last' = last /\ mutable' = mutable /\ default' = default
            BY <1>4, <2>4 DEF CreateCollection
        <3>2. Tame /\ last' >= last
            BY <1>0, <3>1 DEF Tame, Answer, TypeOK
        <3> HIDE DEF next
        <3> QED  BY <1>0, <2>1, <2>2, <3>1, <3>2, AnswerIsSound DEF At
    <2> QED  BY <2>3, <2>4
<1>5. ASSUME NEW c \in Clients, DeleteRead(c) PROVE RunsInv'
    <2>0. /\ client[c].op \notin SetOps /\ client[c].result = "none"
          /\ client[c].run # None => client[c].run \in 1..last
        BY <1>0, <1>5 DEF DeleteRead, Sound, SetPCs, At
    <2>1. ASSUME NEW r, Hears(c, [Moved(c, "delete_commit") EXCEPT !.read = {r}]) PROVE RunsInv'
        <3> DEFINE rec == [Moved(c, "delete_commit") EXCEPT !.read = {r}]
        <3>1. /\ rec.pc = "delete_commit" /\ rec.op = client[c].op
              /\ rec.run = client[c].run /\ rec.result = client[c].result
            BY <1>r DEF Moved, Records
        <3>2. Hears(c, rec)
            BY <2>1
        <3> HIDE DEF rec
        <3> QED  BY <1>0, <2>0, <3>1, <3>2, HearsIsSound
    <2> QED  BY <1>0, <1>5, <2>1, RaisesIsSound DEF DeleteRead
<1>6. ASSUME NEW c \in Clients, DeleteCommit(c) PROVE RunsInv'
    <2> DEFINE next == [Moved(c, "delete") EXCEPT !.todo = @ \ client[c].read, !.read = {}]
               again == [Moved(c, "delete") EXCEPT !.read = {}]
    <2>0. /\ client[c].op \notin SetOps /\ client[c].result = "none"
          /\ client[c].run # None => client[c].run \in 1..last
        BY <1>0, <1>6 DEF DeleteCommit, Sound, SetPCs, At
    <2>1. \A rec \in {next, again} :
              /\ rec.pc = "delete" /\ rec.op = client[c].op
              /\ rec.run = client[c].run /\ rec.result = client[c].result
        BY <1>r DEF Moved, Records
    <2>2. Answer(c, next, again) /\ Remove(client[c].read)
        BY <1>6 DEF DeleteCommit
    <2>3. Tame /\ last' = last /\ last' >= last
        BY <1>0, <2>2 DEF Tame, Answer, Remove, TypeOK
    <2> HIDE DEF next, again
    <2> QED  BY <1>0, <2>0, <2>1, <2>2, <2>3, AnswerIsSound
<1>7. ASSUME NEW c \in Clients, CreateRun(c) PROVE RunsInv'
    <2> DEFINE next == [Ended(c, "ok") EXCEPT !.run = last + 1]
    <2>0. /\ client[c].op \notin SetOps /\ client[c].result = "none" /\ At(c, "delete")
          /\ client[c].run # None => client[c].run \in 1..last
        BY <1>0, <1>7 DEF CreateRun, Sound, SetPCs, At
    <2>1. next.pc = "idle" /\ next.op = client[c].op /\ next.run = last + 1
        BY <1>r DEF Ended, Records
    <2>2. CASE ~collection
        BY <1>0, <1>7, <2>2, RaisesIsSound DEF CreateRun
    <2>3. CASE collection
        <3>1. /\ Answer(c, next, client[c]) /\ last' = last + 1
              /\ mutable' = mutable \cup {last + 1} /\ default' = default
            BY <1>7, <2>3 DEF CreateRun
        <3>2. Tame /\ last' >= last /\ last + 1 \in 1..last' /\ 1..last \subseteq 1..last'
            BY <1>0, <3>1 DEF Tame, Answer, TypeOK
        <3> HIDE DEF next
        <3> QED  BY <1>0, <2>0, <2>1, <3>1, <3>2, AnswerIsSound DEF At
    <2> QED  BY <2>2, <2>3
<1>8. ASSUME NEW c \in Clients, LoadRun(c) PROVE RunsInv'
    <2>0. client[c].op \notin SetOps
        BY <1>0, <1>8 DEF LoadRun, Sound, SetPCs, At
    <2>1. ASSUME NEW r \in live, Hears(c, [Ended(c, "ok") EXCEPT !.run = r]) PROVE RunsInv'
        <3> DEFINE rec == [Ended(c, "ok") EXCEPT !.run = r]
        <3>1. rec.pc = "idle" /\ rec.op = client[c].op /\ rec.run = r
            BY <1>r DEF Ended, Records
        <3>2. Hears(c, rec) /\ r \in 1..last
            BY <1>0, <2>1 DEF TypeOK
        <3> HIDE DEF rec
        <3> QED  BY <1>0, <2>0, <3>1, <3>2, HearsIsSound
    <2> QED  BY <1>0, <1>8, <2>1, RaisesIsSound DEF LoadRun
<1>9. ASSUME NEW c \in Clients, Freeze(c) PROVE RunsInv'
    <2> DEFINE next == Moved(c, "default")
    <2>0. /\ At(c, "freeze") /\ client[c].result = "none"
          /\ client[c].run # None => client[c].run \in 1..last
        BY <1>0, <1>9 DEF Freeze, Sound, At
    <2>1. /\ next.pc = "default" /\ next.op = client[c].op
          /\ next.run = client[c].run /\ next.result = client[c].result
        BY <1>r DEF Moved, Records
    <2>2. CASE client[c].run \notin live
        BY <1>0, <1>9, <2>2, RaisesIsSound DEF Freeze
    <2>3. CASE client[c].run \in live
        <3>1. /\ Answer(c, next, client[c]) /\ last' = last
              /\ mutable' \subseteq mutable /\ default' = default
            BY <1>9, <2>3 DEF Freeze
        <3>2. Tame /\ last' >= last
            BY <1>0, <3>1 DEF Tame, Answer, TypeOK
        <3> HIDE DEF next
        <3> QED  BY <1>0, <2>0, <2>1, <3>1, <3>2, AnswerIsSound DEF At, SetPCs
    <2> QED  BY <2>2, <2>3
<1>10. ASSUME NEW c \in Clients, DefaultRead(c) PROVE RunsInv'
    <2>1. CASE client[c].run \notin live \ mutable
        BY <1>0, <1>10, <2>1, RaisesIsSound DEF DefaultRead
    <2>2. CASE client[c].run \in live \ mutable
        <3> DEFINE rec == Moved(c, "unset")
        <3>1. /\ rec.pc = "unset" /\ rec.op = client[c].op
              /\ rec.run = client[c].run /\ rec.result = client[c].result
            BY <1>r DEF Moved, Records
        <3>2. Hears(c, rec) /\ client[c].result = "none"
            BY <1>0, <1>10, <2>2 DEF DefaultRead, Sound, At
        <3>3. client'[c] = rec
            BY <1>0, <3>2 DEF Hears, Becomes, TypeOK
        <3> HIDE DEF rec
        <3>4. Sound(c)'
            BY <1>0, <2>2, <3>1, <3>2, <3>3 DEF Sound, Setting, SetPCs, At, Hears, server
        <3> QED  BY <1>0, <3>2, <3>4, QuietStep DEF Hears
    <2> QED  BY <2>1, <2>2
<1>11. ASSUME NEW c \in Clients, DefaultUnset(c) PROVE RunsInv'
    <2> DEFINE rec == [Moved(c, "default_commit") EXCEPT !.read = default]
    <2>1. /\ rec.pc = "default_commit" /\ rec.op = client[c].op /\ rec.read = default
          /\ rec.run = client[c].run /\ rec.result = client[c].result
        BY <1>r DEF Moved, Records
    <2>2. Hears(c, rec) /\ At(c, "unset")
        BY <1>11 DEF DefaultUnset
    <2>3. client'[c] = rec
        BY <1>0, <2>2 DEF Hears, Becomes, TypeOK
    <2> HIDE DEF rec
    <2>4. Sound(c)'
        BY <1>0, <2>1, <2>2, <2>3 DEF Sound, Setting, SetPCs, At, Hears, server
    <2> QED  BY <1>0, <2>2, <2>4, QuietStep DEF Hears
<1>12. ASSUME NEW c \in Clients, DefaultFails(c) PROVE RunsInv'
    BY <1>0, <1>12, RaisesIsSound DEF DefaultFails
<1>13. ASSUME NEW c \in Clients, DefaultCommit(c) PROVE RunsInv'
    <2> DEFINE again == [Moved(c, "default") EXCEPT !.read = {}]
               next == Ended(c, "ok")
               run == client[c].run
    <2>1. /\ next.pc = "idle" /\ next.run = run /\ next.op = client[c].op
          /\ again.pc = "default" /\ again.run = run /\ again.op = client[c].op
          /\ again.result = client[c].result
        BY <1>r DEF Ended, Moved, Records
    <2>2. /\ Answer(c, next, again) /\ run \in live /\ IndexAllows(c)
          /\ default' = (default \ client[c].read) \cup {run}
          /\ At(c, "default_commit")
          /\ collection' = collection /\ live' = live /\ mutable' = mutable /\ last' = last
        BY <1>13 DEF DefaultCommit
    <2>3. default' = {run}
        BY <2>2 DEF IndexAllows
    <2>4. PICK rec \in {next, again} : Becomes(c, rec)
        BY <2>2 DEF Answer
    <2>5. client'[c] = rec
        BY <1>0, <2>4 DEF Becomes, TypeOK
    <2>6. thawed' = thawed /\ clean' \subseteq {c} /\ clean' \subseteq clean
        BY <2>2 DEF Answer
    <2>7. run \notin mutable \ thawed
        BY <1>0, <2>2 DEF Sound, Setting
    <2>8. OneDefault' /\ DefaultIsFrozen'
        BY <2>2, <2>3, <2>6, <2>7 DEF OneDefault, DefaultIsFrozen
    <2>9. Sound(c)'
        <3>1. c \in clean' => run \in live \ mutable
            BY <1>0, <2>2, <2>6 DEF Sound, Setting
        <3>2. rec.pc \in {"idle", "default"} /\ rec.run = run /\ run \in 1..last'
            BY <1>0, <2>1, <2>2, <2>4 DEF TypeOK
        <3>3. rec.pc # "idle" => rec.result = "none"
            BY <1>0, <2>1, <2>2, <2>4 DEF Sound, At
        <3> QED  BY <2>2, <2>3, <2>5, <3>1, <3>2, <3>3 DEF Sound, Setting, SetPCs, At
    <2>10. last' >= last /\ mutable' \ thawed' \subseteq (mutable \ thawed) \cup {last + 1}
        BY <1>0, <2>2, <2>6 DEF TypeOK
    <2> HIDE DEF next, again, run
    <2> QED  BY <1>0, <2>4, <2>6, <2>8, <2>9, <2>10, LoudStep
<1>14. ASSUME AdminNext PROVE RunsInv'
    <2>1. client' = client /\ clean' = {}
        BY <1>14 DEF AdminNext, SetRunMutable, UnsetDefault, DeleteRun, DeleteCollection, Administers
    <2>2. Tame /\ last' = last
        BY <1>14 DEF AdminNext, SetRunMutable, UnsetDefault, DeleteRun, DeleteCollection, Remove, Tame
    <2>3. OneDefault' /\ DefaultIsFrozen'
        BY <1>0, <2>2, TameKeepsDefault
    <2>4. last' \in Nat /\ last' >= last
        BY <1>0, <2>2 DEF TypeOK
    <2>5. \A c \in Clients : Sound(c)'
        BY <1>0, <2>1, <2>2, <2>4, OverlappedIsSound DEF Tame
    <2> QED  BY <1>0, <2>3, <2>5, InvNextByClient
<1>15. CASE UNCHANGED vars
    <2>1. \A c \in Clients : Sound(c)'
        BY <1>0, <1>15 DEF Sound, Setting, At, vars, server
    <2>2. OneDefault' /\ DefaultIsFrozen'
        BY <1>0, <1>15 DEF OneDefault, DefaultIsFrozen, vars, server
    <2> QED  BY <1>0, <2>1, <2>2, InvNextByClient
<1> QED
    BY <1>1, <1>2, <1>3, <1>4, <1>5, <1>6, <1>7, <1>8, <1>9, <1>10, <1>11, <1>12, <1>13, <1>14, <1>15
    DEF Next, ClientNext, SetRunDefault

LEMMA InitInv == Init => RunsInv
<1> SUFFICES ASSUME Init PROVE RunsInv
    OBVIOUS
<1>1. TypeOK
    BY InitTyped
<1>2. OneDefault /\ DefaultIsFrozen
    BY DEF Init, OneDefault, DefaultIsFrozen
<1>3. \A c \in Clients : Sound(c)
    BY DEF Init, Idle, Sound, Setting, SetPCs, SetOps, At
<1> QED
    BY <1>1, <1>2, <1>3, InvByClient

(* The inductive invariant: whatever other clients and the API do between  *)
(* the steps of set_run_default, the run it makes default was frozen or    *)
(* thawed on purpose, and, alone, it finds the default it read.            *)
THEOREM RunsInvariant == Spec => []RunsInv
BY InitInv, NextInv, PTL DEF Spec

(* A collection has one default run at most.                               *)
THEOREM AtMostOneDefault == Spec => []OneDefault
<1>1. RunsInv => OneDefault
    BY DEF RunsInv
<1> QED
    BY <1>1, RunsInvariant, PTL

(* A default run is immutable unless somebody thawed it.                   *)
THEOREM DefaultFrozen == Spec => []DefaultIsFrozen
<1>1. RunsInv => DefaultIsFrozen
    BY DEF RunsInv
<1> QED
    BY <1>1, RunsInvariant, PTL

(* set_default does what it says if nobody else changes the collection.    *)
THEOREM SetDefaultWorks == Spec => []SetDefaultPublishes
<1>1. RunsInv => SetDefaultPublishes
    BY DEF RunsInv
<1> QED
    BY <1>1, RunsInvariant, PTL

LEMMA DefaultSurvivesStep ==
  ASSUME RunsInv, [Next]_vars
  PROVE  default # {} /\ default' = {} => admin' # admin \/ ~(default \subseteq live')
<1> SUFFICES ASSUME default # {}, default' = {}, admin' = admin, default \subseteq live'
             PROVE  FALSE
    OBVIOUS
<1>0. admin \in Nat /\ admin + 1 # admin
    BY DEF RunsInv, TypeOK
<1>1. ASSUME NEW c \in Clients, DeleteCommit(c) PROVE FALSE
    BY <1>1 DEF DeleteCommit, Remove
<1>2. ASSUME NEW c \in Clients, DefaultCommit(c) PROVE FALSE
    BY <1>2 DEF DefaultCommit
<1>3. ASSUME AdminNext PROVE FALSE
    BY <1>0, <1>3 DEF AdminNext, SetRunMutable, UnsetDefault, DeleteRun, DeleteCollection, Administers
<1>4. ASSUME NEW c \in Clients,
             \/ \E op \in Ops : Begin(c, op)
             \/ Quit(c) \/ GetCollection(c) \/ CreateCollection(c) \/ DeleteRead(c)
             \/ CreateRun(c) \/ LoadRun(c) \/ Freeze(c)
             \/ DefaultRead(c) \/ DefaultUnset(c) \/ DefaultFails(c)
      PROVE  default' = default
    BY <1>4 DEF Begin, Quit, Raises, Hears, server, GetCollection, NotFound, ListForNew, ListForLoad,
       CreateCollection, DeleteRead, CreateRun, LoadRun, Freeze, DefaultRead, DefaultUnset, DefaultFails
<1>5. CASE UNCHANGED vars
    BY <1>5 DEF vars, server
<1> QED
    BY <1>1, <1>2, <1>3, <1>4, <1>5 DEF Next, ClientNext, SetRunDefault

(* While nobody deletes or unsets it, a collection keeps a default run.    *)
THEOREM DefaultStays == Spec => DefaultSurvives
BY RunsInvariant, DefaultSurvivesStep, PTL DEF Spec, DefaultSurvives

LEMMA NoConflictAlone ==
  ASSUME RunsInv, [Next]_vars
  PROVE  \A c \in clean : /\ At(c, "default_commit") /\ ~At(c, "default_commit")'
                           => client'[c].result # "error"
<1> SUFFICES ASSUME NEW c \in clean, At(c, "default_commit"), ~At(c, "default_commit")'
             PROVE  client'[c].result # "error"
    OBVIOUS
<1>1. c \in Clients /\ Sound(c) /\ client[c].result = "none" /\ client[c] \in Records
    BY InvByClient DEF RunsInv, Undecided, At, TypeOK
<1>2. ~DefaultFails(c)
    BY <1>1 DEF DefaultFails, IndexAllows, Sound, Setting
<1>3. ASSUME NEW d \in Clients, d # c,
             (\E op \in Ops : Begin(d, op)) \/ ClientNext(d) \/ Quit(d)
      PROVE  client'[c] = client[c]
    <2>1. \E rec : Becomes(d, rec)
        BY <1>3 DEF Begin, ClientNext, Quit, Raises, Hears, Answer, GetCollection, NotFound,
           ListForNew, ListForLoad, CreateCollection, DeleteRead, DeleteCommit, CreateRun, LoadRun,
           Freeze, SetRunDefault, DefaultRead, DefaultUnset, DefaultFails, DefaultCommit
    <2> QED  BY <1>1, <1>3, <2>1 DEF Becomes, RunsInv, TypeOK
<1>4. ~(\E op \in Ops : Begin(c, op)) /\ ~Quit(c) /\ (ClientNext(c) => DefaultCommit(c))
    BY <1>2 DEF At, Begin, Quit, ClientNext, GetCollection, CreateCollection, DeleteRead,
       DeleteCommit, CreateRun, LoadRun, Freeze, SetRunDefault, DefaultRead, DefaultUnset
<1>5. CASE DefaultCommit(c)
    <2>1. PICK rec \in {Ended(c, "ok"), [Moved(c, "default") EXCEPT !.read = {}]} : Becomes(c, rec)
        BY <1>5 DEF DefaultCommit, Answer
    <2>2. rec.result \in {"ok", "none"}
        BY <1>1, <2>1 DEF Ended, Moved, Records
    <2>3. client'[c] = rec
        BY <1>1, <2>1 DEF Becomes, RunsInv, TypeOK
    <2> QED  BY <2>2, <2>3
<1>6. CASE AdminNext \/ UNCHANGED vars
    BY <1>1, <1>6 DEF AdminNext, SetRunMutable, UnsetDefault, DeleteRun, DeleteCollection,
       Administers, vars
<1> QED
    BY <1>1, <1>3, <1>4, <1>5, <1>6 DEF Next, At

(* Nobody overlapping it, set_run_default never fails at its commit.       *)
THEOREM SetDefaultHasNoConflict == Spec => SetDefaultFailsFirst
BY RunsInvariant, NoConflictAlone, PTL DEF Spec, SetDefaultFailsFirst

-----------------------------------------------------------------------------
(***************************************************************************)
(* new_run: what is left when a client has deleted all that is not the     *)
(* default.                                                                *)
(***************************************************************************)
NewRunPCs == {"idle", "list", "relist", "create_collection", "delete", "delete_commit"}

Working(c)  == client[c].op = "new_run" => client[c].pc \in NewRunPCs

(* What a client that is alone has still to delete: all but the runs of    *)
(* create_run calls that it does not know the answer of.                   *)
Clearing(c) ==
  client[c].op = "new_run" /\ client[c].pc \in {"delete", "delete_commit"} =>
    Cardinality((live \ default) \ client[c].todo) <= lost

Made(c) ==
  client[c].op = "new_run" /\ client[c].result = "ok" =>
    /\ client[c].run \in mutable \ default
    /\ Cardinality(live \ default) <= 1 + lost

Leaves(c) == Working(c) /\ (c \in clean => Clearing(c) /\ Made(c))
LeavesInv == \A c \in Clients : Leaves(c)

(* Fewer runs, more answers lost.                                          *)
LEMMA CountFewer ==
  ASSUME NEW n \in Nat, NEW S \in SUBSET (1..n), NEW T \in SUBSET S
  PROVE  /\ IsFiniteSet(S) /\ Cardinality(S) \in Nat /\ Cardinality(T) \in Nat
         /\ Cardinality(T) <= Cardinality(S)
         /\ \A x : /\ Cardinality(T \cup {x}) \in Nat
                   /\ Cardinality(T \cup {x}) <= Cardinality(T) + 1
<1>1. IsFiniteSet(S)
    <2>1. IsFiniteSet(1..n)
        BY FS_Interval
    <2> QED  BY <2>1, FS_Subset
<1>2. IsFiniteSet(T) /\ Cardinality(T) <= Cardinality(S)
    BY <1>1, FS_Subset
<1>3. Cardinality(T) \in Nat /\ Cardinality(S) \in Nat
    BY <1>1, <1>2, FS_CardinalityType
<1>4. ASSUME NEW x
      PROVE  /\ Cardinality(T \cup {x}) \in Nat
             /\ Cardinality(T \cup {x}) <= Cardinality(T) + 1
    <2>1. Cardinality(T \cup {x}) = IF x \in T THEN Cardinality(T) ELSE Cardinality(T) + 1
        BY <1>2, FS_AddElement, Zenon
    <2> QED  BY <1>3, <2>1
<1> QED
    BY <1>1, <1>2, <1>3, <1>4

(* The other clients: a step leaves the runs alone, or they are not clean  *)
(* any more.                                                               *)
LEMMA OthersLeave ==
  ASSUME TypeOK, LeavesInv, NEW c \in Clients, NEW rec, Becomes(c, rec),
         (UNCHANGED <<server, lost>> /\ clean' \subseteq clean \cup {c}) \/ clean' \subseteq {c},
         Leaves(c)'
  PROVE  LeavesInv'
<1>1. ASSUME NEW d \in Clients, d # c PROVE Leaves(d)'
    <2>1. client'[d] = client[d] /\ Leaves(d)
        BY <1>1 DEF Becomes, TypeOK, LeavesInv
    <2> QED  BY <1>1, <2>1 DEF Leaves, Working, Clearing, Made, server
<1> QED
    BY <1>1 DEF LeavesInv

(* A client that is not about to delete, and has not made a new run.       *)
LEMMA NothingMade ==
  ASSUME TypeOK, NEW c \in Clients, NEW rec, Becomes(c, rec),
         rec.op = "new_run" =>
             /\ rec.pc \in {"idle", "list", "relist", "create_collection"}
             /\ rec.result # "ok"
  PROVE  Leaves(c)'
<1>1. client'[c] = rec
    BY DEF Becomes, TypeOK
<1> QED
    BY <1>1 DEF Leaves, Working, Clearing, Made, NewRunPCs

LEMMA QuietLeaves ==
  ASSUME TypeOK, LeavesInv, NEW c \in Clients, NEW rec,
         Hears(c, rec),
         rec.op = "new_run" =>
             /\ rec.pc \in {"idle", "list", "relist", "create_collection"}
             /\ rec.result # "ok"
  PROVE  LeavesInv'
<1>1. Becomes(c, rec) /\ UNCHANGED <<server, lost>> /\ clean' \subseteq clean \cup {c}
    BY DEF Hears
<1>2. Leaves(c)'
    BY <1>1, NothingMade
<1> QED
    BY <1>1, <1>2, OthersLeave

LEMMA RaisesLeaves ==
  ASSUME TypeOK, LeavesInv, NEW c \in Clients, Raises(c) PROVE LeavesInv'
<1>1. Hears(c, Ended(c, "error"))
    BY DEF Raises, Hears
<1>2. client[c] \in Records
    BY DEF TypeOK
<1>3. Ended(c, "error").pc = "idle" /\ Ended(c, "error").result = "error"
    BY <1>2 DEF Ended, Records
<1> QED
    BY <1>1, <1>3, QuietLeaves

LEMMA AnswerLeaves ==
  ASSUME TypeOK, LeavesInv, NEW c \in Clients, NEW next, NEW again,
         Answer(c, next, again),
         \A rec \in {next, again} : rec.op = "new_run" =>
             /\ rec.pc \in {"idle", "list", "relist", "create_collection"}
             /\ rec.result # "ok"
  PROVE  LeavesInv'
<1>1. PICK rec \in {next, again} : Becomes(c, rec)
    BY DEF Answer
<1>2. clean' \subseteq {c}
    BY DEF Answer
<1>3. Leaves(c)'
    BY <1>1, NothingMade
<1> QED
    BY <1>1, <1>2, <1>3, OthersLeave

LEMMA LeavesNext ==
  ASSUME RunsInv, LeavesInv, [Next]_vars PROVE LeavesInv'
<1>0. TypeOK /\ \A c \in Clients : client[c] \in Records /\ Leaves(c)
    BY DEF RunsInv, TypeOK, LeavesInv
<1>a. /\ IsFiniteSet(live) /\ live \in SUBSET (1..last) /\ last \in Nat /\ lost \in Nat
      /\ \A S, T : T \subseteq S /\ S \subseteq live =>
             /\ Cardinality(T) \in Nat /\ Cardinality(T) <= Cardinality(S)
             /\ Cardinality(S) \in Nat
             /\ \A x : /\ Cardinality(T \cup {x}) \in Nat
                       /\ Cardinality(T \cup {x}) <= Cardinality(T) + 1
    <2>1. live \in SUBSET (1..last) /\ last \in Nat /\ lost \in Nat
        BY <1>0 DEF TypeOK
    <2>2. ASSUME NEW S, NEW T, T \subseteq S, S \subseteq live
          PROVE  /\ Cardinality(T) \in Nat /\ Cardinality(T) <= Cardinality(S)
                 /\ Cardinality(S) \in Nat
                 /\ \A x : /\ Cardinality(T \cup {x}) \in Nat
                           /\ Cardinality(T \cup {x}) <= Cardinality(T) + 1
        <3>1. S \in SUBSET (1..last) /\ T \in SUBSET S
            BY <2>1, <2>2
        <3> QED  BY <2>1, <3>1, CountFewer
    <2> QED  BY <2>1, <2>2, CountFewer
<1> DEFINE Fewer(S, T) == /\ Cardinality(T) \in Nat /\ Cardinality(S) \in Nat
                          /\ Cardinality(T) <= Cardinality(S)
<1>b. \A S, T : T \subseteq S /\ S \subseteq live => Fewer(S, T)
    BY <1>a
<1> HIDE DEF Fewer
<1>1. ASSUME NEW c \in Clients, NEW op \in Ops, Begin(c, op) PROVE LeavesInv'
    <2> DEFINE rec == [Moved(c, FirstCall(op)) EXCEPT !.op = op, !.result = "none"]
    <2>1. /\ Becomes(c, rec) /\ UNCHANGED <<server, lost>> /\ clean' \subseteq clean \cup {c}
        BY <1>1 DEF Begin
    <2>2. rec.result = "none" /\ (rec.op = "new_run" => rec.pc = "list")
        BY <1>0 DEF Moved, FirstCall, Records
    <2> HIDE DEF rec
    <2>3. Leaves(c)'
        BY <1>0, <2>1, <2>2, NothingMade
    <2> QED  BY <1>0, <2>1, <2>3, OthersLeave DEF RunsInv
<1>2. ASSUME NEW c \in Clients, Raises(c) PROVE LeavesInv'
    BY <1>0, <1>2, RaisesLeaves DEF RunsInv
<1>3. ASSUME NEW c \in Clients, GetCollection(c) PROVE LeavesInv'
    <2>1. CASE Raises(c)
        BY <1>2, <2>1
    <2>2. CASE Hears(c, Moved(c, "create_collection"))
        <3>1. /\ Moved(c, "create_collection").pc = "create_collection"
              /\ Moved(c, "create_collection").result = client[c].result
            BY <1>0 DEF Moved, Records
        <3>2. client[c].result = "none"
            BY <1>3 DEF GetCollection, At, RunsInv, Undecided
        <3> QED  BY <1>0, <2>2, <3>1, <3>2, QuietLeaves
    <2>3. CASE ListForNew(c)
        <3> DEFINE rec == [Moved(c, "delete") EXCEPT !.todo = ToDelete]
        <3>1. /\ Becomes(c, rec) /\ UNCHANGED <<server, lost, clean>>
            BY <2>3 DEF ListForNew, Hears
        <3>2. /\ rec.pc = "delete" /\ rec.result = client[c].result
              /\ rec.todo = live \ default
            BY <1>0 DEF Moved, Records, ToDelete
        <3> HIDE DEF rec
        <3>3. client'[c] = rec
            BY <1>0, <3>1 DEF Becomes, TypeOK
        <3>4. client[c].result = "none"
            BY <1>3 DEF GetCollection, At, RunsInv, Undecided
        <3>5. (live' \ default') \ rec.todo = {} /\ lost' = lost
            BY <3>1, <3>2 DEF server
        <3>6. Cardinality({}) <= lost
            BY <1>a, FS_EmptySet
        <3>7. Leaves(c)'
            BY <3>2, <3>3, <3>4, <3>5, <3>6 DEF Leaves, Working, Clearing, Made, NewRunPCs
        <3> QED  BY <1>0, <3>1, <3>7, OthersLeave
    <2>4. CASE ListForLoad(c)
        <3>1. CASE Raises(c)
            BY <1>2, <3>1
        <3>2. CASE \E r : Hears(c, [Moved(c, "load") EXCEPT !.read = {r}])
            <4>1. PICK r : Hears(c, [Moved(c, "load") EXCEPT !.read = {r}])
                BY <3>2
            <4> DEFINE rec == [Moved(c, "load") EXCEPT !.read = {r}]
            <4>2. rec.op = client[c].op
                BY <1>0 DEF Moved, Records
            <4>3. client[c].op # "new_run"
                BY <2>4 DEF ListForLoad
            <4> HIDE DEF rec
            <4>4. Hears(c, rec)
                BY <4>1 DEF rec
            <4> QED  BY <1>0, <4>2, <4>3, <4>4, QuietLeaves
        <3> QED  BY <2>4, <3>1, <3>2 DEF ListForLoad
    <2> QED  BY <1>3, <2>1, <2>2, <2>3, <2>4 DEF GetCollection, NotFound
<1>4. ASSUME NEW c \in Clients, CreateCollection(c) PROVE LeavesInv'
    <2>1. CASE Raises(c)
        BY <1>2, <2>1
    <2>2. CASE Answer(c, Moved(c, "relist"), client[c])
        <3>1. /\ Moved(c, "relist").pc = "relist"
              /\ Moved(c, "relist").result = client[c].result
            BY <1>0 DEF Moved, Records
        <3>2. client[c].result = "none" /\ client[c].pc = "create_collection"
            BY <1>4 DEF CreateCollection, At, RunsInv, Undecided
        <3> QED  BY <1>0, <2>2, <3>1, <3>2, AnswerLeaves
    <2> QED  BY <1>4, <2>1, <2>2 DEF CreateCollection
<1>5. ASSUME NEW c \in Clients, DeleteRead(c) PROVE LeavesInv'
    <2>1. CASE Raises(c)
        BY <1>2, <2>1
    <2>2. CASE \E r : Hears(c, [Moved(c, "delete_commit") EXCEPT !.read = {r}])
        <3>1. PICK r : Hears(c, [Moved(c, "delete_commit") EXCEPT !.read = {r}])
            BY <2>2
        <3> DEFINE rec == [Moved(c, "delete_commit") EXCEPT !.read = {r}]
        <3>2. /\ rec.pc = "delete_commit" /\ rec.op = client[c].op
              /\ rec.todo = client[c].todo /\ rec.result = client[c].result
            BY <1>0 DEF Moved, Records
        <3>3. Becomes(c, rec) /\ UNCHANGED <<server, lost, clean>>
            BY <3>1 DEF Hears
        <3> HIDE DEF rec
        <3>4. client'[c] = rec
            BY <1>0, <3>3 DEF Becomes, TypeOK
        <3>5. client[c].result = "none" /\ client[c].pc = "delete"
            BY <1>5 DEF DeleteRead, At, RunsInv, Undecided
        <3>6. Leaves(c)'
            BY <1>0, <3>2, <3>3, <3>4, <3>5
            DEF Leaves, Working, Clearing, Made, NewRunPCs, server
        <3> QED  BY <1>0, <3>3, <3>6, OthersLeave
    <2> QED  BY <1>5, <2>1, <2>2 DEF DeleteRead
<1>6. ASSUME NEW c \in Clients, DeleteCommit(c) PROVE LeavesInv'
    <2> DEFINE next  == [Moved(c, "delete") EXCEPT !.todo = @ \ client[c].read, !.read = {}]
               again == [Moved(c, "delete") EXCEPT !.read = {}]
    <2>1. /\ next.pc = "delete" /\ again.pc = "delete"
          /\ next.op = client[c].op /\ again.op = client[c].op
          /\ next.result = client[c].result /\ again.result = client[c].result
          /\ next.todo = client[c].todo \ client[c].read /\ again.todo = client[c].todo
        BY <1>0 DEF Moved, Records
    <2> HIDE DEF next, again
    <2>2. PICK rec \in {next, again} : Becomes(c, rec)
        BY <1>6 DEF DeleteCommit, Answer, next, again
    <2>3. client'[c] = rec
        BY <1>0, <2>2 DEF Becomes, TypeOK
    <2>4. /\ clean' = clean \cap {c} /\ (lost' = lost \/ lost' = lost + 1)
          /\ live' = live \ client[c].read /\ default' = default \ client[c].read
        BY <1>6 DEF DeleteCommit, Answer, Remove
    <2>5. client[c].result = "none" /\ client[c].pc = "delete_commit"
        BY <1>6 DEF DeleteCommit, At, RunsInv, Undecided
    <2>6. Fewer((live \ default) \ client[c].todo, (live' \ default') \ rec.todo)
        BY <1>b, <2>1, <2>2, <2>4
    <2>7. c \in clean' => Clearing(c)'
        BY <1>0, <1>a, <2>1, <2>2, <2>3, <2>4, <2>5, <2>6 DEF Leaves, Clearing, Fewer
    <2>8. Leaves(c)'
        BY <2>1, <2>2, <2>3, <2>5, <2>7 DEF Leaves, Working, Made, NewRunPCs
    <2> QED  BY <1>0, <2>2, <2>4, <2>8, OthersLeave
<1>7. ASSUME NEW c \in Clients, CreateRun(c) PROVE LeavesInv'
    <2>1. CASE Raises(c)
        BY <1>2, <2>1
    <2>2. CASE ~Raises(c)
        <3> DEFINE next == [Ended(c, "ok") EXCEPT !.run = last + 1]
        <3>1. next.pc = "idle" /\ next.op = client[c].op /\ next.run = last + 1
            BY <1>0 DEF Ended, Records
        <3> HIDE DEF next
        <3>2. /\ \/ Becomes(c, next) /\ lost' = lost
                 \/ Becomes(c, client[c]) /\ lost' = lost + 1
              /\ clean' = clean \cap {c} /\ default' = default
              /\ live' = live \cup {last + 1} /\ mutable' = mutable \cup {last + 1}
            BY <1>7, <2>2 DEF CreateRun, Answer, next
        <3>3. client[c].todo = {} /\ client[c].pc = "delete" /\ client[c].result = "none"
            BY <1>7 DEF CreateRun, At, RunsInv, Undecided
        <3>4. last + 1 \notin default
            BY <1>0 DEF TypeOK
        <3>5. /\ Cardinality(live' \ default') <= Cardinality(live \ default) + 1
              /\ Cardinality(live' \ default') \in Nat
            <4>1. live' \ default' = (live \ default) \cup {last + 1}
                BY <3>2, <3>4
            <4> QED  BY <1>a, <4>1
        <3>6. Cardinality(live \ default) \in Nat
            BY <1>a
        <3>7. ASSUME c \in clean', client[c].op = "new_run"
              PROVE  Cardinality(live' \ default') <= lost + 1
            <4>1. (live \ default) \ client[c].todo = live \ default
                BY <3>3
            <4>2. Cardinality(live \ default) <= lost
                BY <1>0, <3>2, <3>3, <3>7, <4>1 DEF Leaves, Clearing
            <4> QED  BY <1>a, <3>5, <3>6, <4>2
        <3>8. CASE Becomes(c, next) /\ lost' = lost
            <4>1. client'[c] = next
                BY <1>0, <3>8 DEF Becomes, TypeOK
            <4>2. Leaves(c)'
                BY <1>a, <3>1, <3>2, <3>4, <3>5, <3>7, <3>8, <4>1
                DEF Leaves, Working, Clearing, Made, NewRunPCs
            <4> QED  BY <1>0, <3>2, <3>8, <4>2, OthersLeave
        <3>9. CASE Becomes(c, client[c]) /\ lost' = lost + 1
            <4>1. client'[c] = client[c]
                BY <1>0, <3>9 DEF Becomes, TypeOK
            <4>2. (live' \ default') \ client[c].todo = live' \ default'
                BY <3>3
            <4>3. Leaves(c)'
                BY <3>3, <3>7, <3>9, <4>1, <4>2
                DEF Leaves, Working, Clearing, Made, NewRunPCs
            <4> QED  BY <1>0, <3>2, <3>9, <4>3, OthersLeave
        <3> QED  BY <3>2, <3>8, <3>9
    <2> QED  BY <2>1, <2>2
<1>8. ASSUME NEW c \in Clients, LoadRun(c) PROVE LeavesInv'
    <2>1. CASE Raises(c)
        BY <1>2, <2>1
    <2>2. CASE \E r : Hears(c, [Ended(c, "ok") EXCEPT !.run = r])
        <3>1. PICK r : Hears(c, [Ended(c, "ok") EXCEPT !.run = r])
            BY <2>2
        <3> DEFINE rec == [Ended(c, "ok") EXCEPT !.run = r]
        <3>2. rec.op = client[c].op /\ Hears(c, rec)
            BY <1>0, <3>1 DEF Ended, Records
        <3> HIDE DEF rec
        <3>3. client[c].op # "new_run"
            BY <1>0, <1>8 DEF LoadRun, At, Leaves, Working, NewRunPCs
        <3> QED  BY <1>0, <3>2, <3>3, QuietLeaves
    <2> QED  BY <1>8, <2>1, <2>2 DEF LoadRun
<1>9. ASSUME NEW c \in Clients, Freeze(c) \/ SetRunDefault(c) PROVE LeavesInv'
    <2>1. client[c].pc \in {"freeze", "default", "unset", "default_commit"}
        BY <1>9 DEF Freeze, SetRunDefault, DefaultRead, DefaultUnset, DefaultCommit,
                    DefaultFails, At
    <2>2. client[c].op # "new_run"
        BY <1>0, <2>1 DEF Leaves, Working, NewRunPCs
    <2>3. PICK rec : /\ Becomes(c, rec) /\ rec.op = client[c].op
                     /\ \/ UNCHANGED <<server, lost>> /\ clean' = clean
                        \/ clean' \subseteq {c}
        <3>1. \A p : Moved(c, p).op = client[c].op /\ Ended(c, p).op = client[c].op
            BY <1>0 DEF Moved, Ended, Records
        <3>2. \A s : /\ [Moved(c, "default_commit") EXCEPT !.read = s].op = client[c].op
                     /\ [Moved(c, "default") EXCEPT !.read = s].op = client[c].op
            BY <1>0 DEF Moved, Records
        <3>3. CASE Raises(c)
            BY <3>1, <3>3 DEF Raises
        <3>4. CASE DefaultRead(c)
            BY <3>1, <3>3, <3>4 DEF DefaultRead, Hears
        <3>5. CASE DefaultUnset(c)
            BY <3>2, <3>5 DEF DefaultUnset, Hears
        <3>6. CASE DefaultCommit(c)
            BY <3>1, <3>2, <3>6 DEF DefaultCommit, Answer
        <3>7. CASE Freeze(c)
            BY <3>1, <3>3, <3>7 DEF Freeze, Answer
        <3> QED  BY <1>9, <3>3, <3>4, <3>5, <3>6, <3>7 DEF SetRunDefault, DefaultFails
    <2>4. Leaves(c)'
        BY <1>0, <2>2, <2>3, NothingMade
    <2> QED  BY <1>0, <2>3, <2>4, OthersLeave
<1>10. CASE AdminNext
    <2>1. clean' = {} /\ client' = client
        BY <1>10 DEF AdminNext, SetRunMutable, UnsetDefault, DeleteRun, DeleteCollection,
                     Administers
    <2> QED  BY <2>1 DEF LeavesInv, Leaves, Working
<1>11. CASE UNCHANGED vars
    BY <1>11 DEF vars, server, LeavesInv, Leaves, Working, Clearing, Made
<1> QED
    BY <1>1, <1>2, <1>3, <1>4, <1>5, <1>6, <1>7, <1>8, <1>9, <1>10, <1>11
    DEF Next, ClientNext, Quit

(* A new_run that nobody else's change overlaps leaves one run besides the *)
(* default, its own, and as many more as there were answers lost.          *)
THEOREM NewRunClears == Spec => []NewRunLeavesOne
<1>1. Init => LeavesInv
    BY DEF Init, Idle, LeavesInv, Leaves, Working, Clearing, Made, NewRunPCs
<1>2. TypeOK /\ LeavesInv => NewRunLeavesOne
    BY DEF TypeOK, LeavesInv, Leaves, Made, NewRunLeavesOne
<1>3. RunsInv => TypeOK
    BY DEF RunsInv
<1> QED
    BY <1>1, <1>2, <1>3, LeavesNext, RunsInvariant, PTL DEF Spec
===============================================================================
