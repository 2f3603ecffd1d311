-------------------------------- MODULE Runs --------------------------------
(***************************************************************************)
(* The runs of one collection, on the server and in its clients.           *)
(*                                                                         *)
(* DAG.new_run, load_pending, load_default and set_default                 *)
(* (client/dags.py) are sequences of HTTP calls; each call is one          *)
(* transaction at READ COMMITTED in adapter/collections.py.  A client acts *)
(* on what an earlier call told it; meanwhile other clients go on, somebody*)
(* uses the API directly, an answer is lost and its call repeated          *)
(* (http_retry), or the client dies.                                       *)
(*                                                                         *)
(* A transaction is one action unless another can change what it has read: *)
(* delete_run reads the run and then deletes it, and set_run_default reads *)
(* the run, unsets the default it finds, and sets the new one.             *)
(***************************************************************************)
EXTENDS Integers, FiniteSets

CONSTANTS
  Clients,
  None,        \* a DAG attached to no run
  MaxOps,      \* operations that clients begin
  MaxLost,     \* answers lost in all: http_retry makes 5 attempts
  MaxAdmin     \* changes made through the API directly

ASSUME RunsAssumption == /\ None \notin Nat
                         /\ MaxOps \in Nat /\ MaxLost \in 0..4 /\ MaxAdmin \in Nat

VARIABLES
  collection,  \* the collection exists
  live,        \* its runs
  mutable,     \* those with is_mutable
  default,     \* those with is_default
  last,        \* the last run_id of the sequence
  client,      \* [pc, op, run, todo, read, result] of each client
  clean,       \* clients that nobody else's change has overlapped
  thawed,      \* runs that somebody asked to make mutable again
  ops, lost, admin

server == <<collection, live, mutable, default, last>>
vars == <<server, client, clean, thawed, ops, lost, admin>>

(* The last one is the call alone, which the API offers as well.           *)
Ops == {"new_run", "load_pending", "load_default", "set_default", "set_run_default"}

SetOps == {"set_default", "set_run_default"}

FirstCall(op) == CASE op = "set_default" -> "freeze"
                   [] op = "set_run_default" -> "default"
                   [] OTHER -> "list"

Idle == [pc |-> "idle", op |-> "none", run |-> None,
         todo |-> {}, read |-> {}, result |-> "none"]

(* No collection, or one that has been published once.                     *)
Init ==
  /\ collection \in BOOLEAN
  /\ default = IF collection THEN {1} ELSE {}
  /\ live = default
  /\ mutable = {}
  /\ last = IF collection THEN 1 ELSE 0
  /\ client = [c \in Clients |-> Idle]
  /\ clean = {} /\ thawed = {} /\ ops = 0 /\ lost = 0 /\ admin = 0

-----------------------------------------------------------------------------
(* Clients and answers *)

At(c, p) == client[c].pc = p

Moved(c, p) == [client[c] EXCEPT !.pc = p]

Ended(c, result) == [client[c] EXCEPT !.pc = "idle", !.result = result, !.todo = {}, !.read = {}]

Becomes(c, rec) == client' = [client EXCEPT ![c] = rec]

(* The call raises, and with it the operation.                             *)
Raises(c) == Becomes(c, Ended(c, "error")) /\ UNCHANGED <<server, clean, thawed, ops, lost, admin>>

(* The answer of a call that changed something arrives, or is lost, and the*)
(* client makes the call again, as it stands at "again".                   *)
Answer(c, next, again) ==
  /\ \/ Becomes(c, next) /\ lost' = lost
     \/ lost < MaxLost /\ Becomes(c, again) /\ lost' = lost + 1
  /\ clean' = clean \cap {c}
  /\ UNCHANGED <<thawed, ops, admin>>

(* An answer to a call that only reads.                                    *)
Hears(c, next) == Becomes(c, next) /\ UNCHANGED <<server, clean, thawed, ops, lost, admin>>

Begin(c, op) ==
  /\ At(c, "idle") /\ ops < MaxOps
  /\ op \in SetOps => client[c].run # None
  /\ Becomes(c, [Moved(c, FirstCall(op)) EXCEPT !.op = op, !.result = "none"])
  /\ clean' = clean \cup {c}
  /\ ops' = ops + 1
  /\ UNCHANGED <<server, thawed, lost, admin>>

(* The process of the client dies.  A call it has made is answered all the *)
(* same, so that nothing is lost in having it die before a call.           *)
Quit(c) ==
  /\ client[c].pc \notin {"idle", "delete_commit", "unset", "default_commit"}
  /\ Raises(c)

-----------------------------------------------------------------------------
(* new_run, load_pending, load_default *)

NotFound(c) ==
  /\ ~collection
  /\ IF At(c, "list") /\ client[c].op = "new_run"
     THEN Hears(c, Moved(c, "create_collection"))
     ELSE Raises(c)

(* Mutant of ToDelete: frozen runs are taken for published ones.           *)
ToDeleteDrafts == mutable \ default

(* The runs that new_run deletes: from this answer, and not read again.    *)
ToDelete == live \ default

ListForNew(c) ==
  /\ client[c].op = "new_run"
  /\ Hears(c, [Moved(c, "delete") EXCEPT !.todo = ToDelete])

(* The one default run, or the first of the others in the order of the     *)
(* answer, which the query leaves open.                                    *)
ListForLoad(c) ==
  LET wanted == IF client[c].op = "load_default" THEN default ELSE live \ default
  IN /\ client[c].op \in {"load_default", "load_pending"}
     /\ \/ wanted = {} /\ Raises(c)
        \/ \E r \in wanted : Hears(c, [Moved(c, "load") EXCEPT !.read = {r}])

GetCollection(c) ==
  /\ At(c, "list") \/ At(c, "relist")
  /\ \/ NotFound(c)
     \/ collection /\ (ListForNew(c) \/ ListForLoad(c))

(* ON CONFLICT DO NOTHING, and an exception when it did nothing.           *)
CreateCollection(c) ==
  /\ At(c, "create_collection")
  /\ \/ collection /\ Raises(c)
     \/ /\ ~collection /\ collection' = TRUE
        /\ Answer(c, Moved(c, "relist"), client[c])
        /\ UNCHANGED <<live, mutable, default, last>>

DeleteRead(c) ==
  /\ At(c, "delete")
  /\ \E r \in client[c].todo :
       \/ r \notin live /\ Raises(c)
       \/ r \in live /\ Hears(c, [Moved(c, "delete_commit") EXCEPT !.read = {r}])

(* Mutant of Remove: the default is a pointer that deletion leaves alone.  *)
RemoveDangling(rs) ==
  /\ live' = live \ rs
  /\ mutable' = mutable \ rs
  /\ UNCHANGED <<default, last>>

Remove(rs) ==
  /\ live' = live \ rs
  /\ mutable' = mutable \ rs
  /\ default' = default \ rs
  /\ UNCHANGED <<last>>

(* DELETE finds its row or not: the code does not look.                    *)
DeleteCommit(c) ==
  /\ At(c, "delete_commit")
  /\ Remove(client[c].read) /\ UNCHANGED collection
  /\ Answer(c, [Moved(c, "delete") EXCEPT !.todo = @ \ client[c].read, !.read = {}],
               [Moved(c, "delete") EXCEPT !.read = {}])

CreateRun(c) ==
  /\ At(c, "delete") /\ client[c].todo = {}
  /\ \/ ~collection /\ Raises(c)
     \/ /\ collection
        /\ last' = last + 1
        /\ live' = live \cup {last + 1}
        /\ mutable' = mutable \cup {last + 1}
        /\ Answer(c, [Ended(c, "ok") EXCEPT !.run = last + 1], client[c])
        /\ UNCHANGED <<collection, default>>

LoadRun(c) ==
  /\ At(c, "load")
  /\ \/ client[c].read \cap live = {} /\ Raises(c)
     \/ \E r \in client[c].read \cap live : Hears(c, [Ended(c, "ok") EXCEPT !.run = r])

-----------------------------------------------------------------------------
(* set_default: two calls, the second of three steps *)

Freeze(c) ==
  /\ At(c, "freeze")
  /\ \/ client[c].run \notin live /\ Raises(c)
     \/ /\ client[c].run \in live
        /\ mutable' = mutable \ {client[c].run}
        /\ Answer(c, Moved(c, "default"), client[c])
        /\ UNCHANGED <<collection, live, default, last>>

(* Mutant of DefaultRead: is_mutable is not looked at.                     *)
DefaultReadUnchecked(c) ==
  /\ At(c, "default")
  /\ \/ client[c].run \notin live /\ Raises(c)
     \/ client[c].run \in live /\ Hears(c, Moved(c, "unset"))

DefaultRead(c) ==
  /\ At(c, "default")
  /\ \/ client[c].run \notin live \ mutable /\ Raises(c)
     \/ client[c].run \in live \ mutable /\ Hears(c, Moved(c, "unset"))

(* Mutant of DefaultUnset: it is forgotten.                                *)
DefaultUnsetNever(c) ==
  /\ At(c, "unset")
  /\ Hears(c, [Moved(c, "default_commit") EXCEPT !.read = {}])

(* The UPDATE that unsets the default sees the default of this moment.     *)
DefaultUnset(c) ==
  /\ At(c, "unset")
  /\ Hears(c, [Moved(c, "default_commit") EXCEPT !.read = default])

(* Mutant of IndexAllows: the index is not there.                          *)
IndexAllowsAny(c) == c \in Clients

(* ix_default_run_collection: no default besides the ones unset and its own*)
IndexAllows(c) == default \subseteq client[c].read \cup {client[c].run}

(* Mutant of DefaultFails: the old default was unset in a transaction of   *)
(* its own.                                                                *)
DefaultFailsHalfway(c) ==
  /\ At(c, "default_commit")
  /\ client[c].run \notin live \/ ~IndexAllows(c)
  /\ Becomes(c, Ended(c, "error"))
  /\ default' = default \ client[c].read
  /\ UNCHANGED <<collection, live, mutable, last, clean, thawed, ops, lost, admin>>

(* The UPDATE finds no row, or the index refuses it: all is rolled back.   *)
DefaultFails(c) ==
  /\ At(c, "default_commit")
  /\ client[c].run \notin live \/ ~IndexAllows(c)
  /\ Raises(c)

(* Mutant of DefaultCommit: the old default is unset after the new one is  *)
(* set.                                                                    *)
DefaultCommitSwapped(c) ==
  /\ At(c, "default_commit")
  /\ client[c].run \in live /\ IndexAllows(c)
  /\ default' = (default \cup {client[c].run}) \ client[c].read
  /\ Answer(c, Ended(c, "ok"), [Moved(c, "default") EXCEPT !.read = {}])
  /\ UNCHANGED <<collection, live, mutable, last>>

(* What it unset and what it sets are committed together.                  *)
DefaultCommit(c) ==
  /\ At(c, "default_commit")
  /\ client[c].run \in live /\ IndexAllows(c)
  /\ default' = (default \ client[c].read) \cup {client[c].run}
  /\ Answer(c, Ended(c, "ok"), [Moved(c, "default") EXCEPT !.read = {}])
  /\ UNCHANGED <<collection, live, mutable, last>>

SetRunDefault(c) == DefaultRead(c) \/ DefaultUnset(c) \/ DefaultCommit(c) \/ DefaultFails(c)

-----------------------------------------------------------------------------
(* The API used directly *)

Administers ==
  /\ admin < MaxAdmin /\ admin' = admin + 1
  /\ clean' = {}
  /\ UNCHANGED <<client, ops, lost>>

SetRunMutable(r, flag) ==
  /\ Administers
  /\ IF flag THEN mutable' = mutable \cup {r} /\ thawed' = thawed \cup {r}
             ELSE mutable' = mutable \ {r} /\ thawed' = thawed
  /\ UNCHANGED <<collection, live, default, last>>

UnsetDefault(r) ==
  /\ r \in default /\ Administers
  /\ default' = default \ {r}
  /\ UNCHANGED <<collection, live, mutable, last, thawed>>

DeleteRun(r) == Administers /\ Remove({r}) /\ UNCHANGED <<collection, thawed>>

DeleteCollection ==
  /\ collection /\ Administers
  /\ collection' = FALSE /\ Remove(live)
  /\ UNCHANGED thawed

-----------------------------------------------------------------------------
ClientNext(c) ==
  \/ GetCollection(c) \/ CreateCollection(c)
  \/ DeleteRead(c) \/ DeleteCommit(c) \/ CreateRun(c) \/ LoadRun(c)
  \/ Freeze(c) \/ SetRunDefault(c)

AdminNext ==
  \/ \E r \in live : \/ \E flag \in BOOLEAN : SetRunMutable(r, flag)
                   \/ UnsetDefault(r) \/ DeleteRun(r)
  \/ DeleteCollection

Next ==
  \/ \E c \in Clients : \/ \E op \in Ops : Begin(c, op)
                        \/ ClientNext(c) \/ Quit(c)
  \/ AdminNext

Spec == Init /\ [][Next]_vars

-----------------------------------------------------------------------------
(* Properties *)

PCs == {"idle", "list", "relist", "create_collection", "delete", "delete_commit",
        "load", "freeze", "default", "unset", "default_commit"}

Records ==
  [pc : PCs, op : Ops \cup {"none"}, run : Nat \cup {None},
   todo : SUBSET Nat, read : SUBSET Nat, result : {"none", "ok", "error"}]

(* The variables have their types, runs are of a collection that exists,   *)
(* with ids the sequence has given, and what is said of runs is said of    *)
(* runs that exist: deletion cascades.                                     *)
TypeOK ==
  /\ collection \in BOOLEAN
  /\ last \in Nat
  /\ live \subseteq 1..last /\ (live # {} => collection)
  /\ mutable \subseteq live /\ default \subseteq live
  /\ client \in [Clients -> Records]
  /\ clean \subseteq Clients /\ thawed \subseteq 1..last
  /\ ops \in Nat /\ lost \in Nat /\ admin \in Nat

(* A collection has one default run at most, although each set_run_default *)
(* unsets only the default it saw: the partial unique index sees to it.    *)
OneDefault == \A r, s \in default : r = s

(* A default run is frozen ("Cannot set as default a mutable run"), unless *)
(* somebody asked to make it mutable again, which nothing forbids and which*)
(* may also come between the test and the commit.                          *)
DefaultIsFrozen == default \cap mutable \subseteq thawed

(* A new default takes the place of the old one in one step: while nobody  *)
(* deletes it or unsets it, a collection keeps a default run, whatever     *)
(* fails in between (set_run_default).                                     *)
DefaultSurvives ==
  [][default # {} /\ default' = {} => admin' # admin \/ ~(default \subseteq live')]_vars

(* new_run, when nobody else changed the collection meanwhile, leaves its  *)
(* own run, and it is the only one that is not the default, but for those  *)
(* that a repeated create_run made when an answer was lost.                *)
NewRunLeavesOne ==
  \A c \in clean :
    client[c].op = "new_run" /\ client[c].result = "ok" =>
      /\ client[c].run \in mutable \ default
      /\ Cardinality(live \ default) <= 1 + lost

(* set_default, and set_run_default alone, when nobody else changed the    *)
(* collection meanwhile, leave their run as the default one, and frozen,   *)
(* even if calls were repeated.                                            *)
SetDefaultPublishes ==
  \A c \in clean :
    client[c].op \in SetOps /\ client[c].result = "ok" =>
      default = {client[c].run} /\ client[c].run \notin mutable

(* Nobody's change overlapping it, set_run_default fails at its first read *)
(* or not at all: what it unsets is enough for the index to let it pass,   *)
(* also when its run is the default already.                               *)
SetDefaultFailsFirst ==
  [][\A c \in clean : /\ At(c, "default_commit") /\ ~At(c, "default_commit")'
                       => client'[c].result # "error"]_vars

(* The inductive invariant: what a client has read still holds, the more   *)
(* so if nobody's change has overlapped it.                                *)

RunsGiven == \A c \in Clients : client[c].run # None => client[c].run \in 1..last

Undecided == \A c \in Clients : ~At(c, "idle") => client[c].result = "none"

Listing ==
  \A c \in Clients : client[c].op \in SetOps =>
    client[c].pc \in {"idle", "freeze", "default", "unset", "default_commit"}

FrozenWhenRead ==
  \A c \in Clients : At(c, "unset") \/ At(c, "default_commit") =>
                        client[c].run \notin mutable \ thawed

StillFrozen ==
  \A c \in clean : At(c, "unset") \/ At(c, "default_commit") =>
                        client[c].run \in live \ mutable

StillDefault == \A c \in clean : At(c, "default_commit") => client[c].read = default

(* What set_run_default of one client relies on while others go on: the run*)
(* it read as frozen is frozen or has been thawed by somebody, and, alone, *)
(* the default it unsets is the one there is.                              *)
RunsInv ==
  /\ TypeOK /\ RunsGiven /\ Undecided /\ Listing /\ OneDefault /\ DefaultIsFrozen
  /\ FrozenWhenRead /\ StillFrozen /\ StillDefault /\ SetDefaultPublishes

(* new_run deletes runs that are not the default ("Delete non-default      *)
(* runs", dags.py).                                                        *)
NewRunSparesDefault ==
  [][\A c \in Clients : At(c, "delete_commit") /\ ~At(c, "delete_commit")' =>
        client[c].read \cap default \subseteq live']_vars
=============================================================================
