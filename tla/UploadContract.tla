--------------------------- MODULE UploadContract ---------------------------
(***************************************************************************)
(* What the server promises about the data of a step, as the abstract      *)
(* class of the backend puts it (server/base.py, "Data insertion"): a step *)
(* is READY for an upload, one upload at a time makes it PROCESSING, its   *)
(* data is stored at most once and only while it is PROCESSING, and        *)
(* COMPLETE is a stage that it never leaves.                               *)
(***************************************************************************)
EXTENDS Naturals

CONSTANT Paths          \* the names of the steps of a run

VARIABLES stage,        \* [Paths -> stage of the upload, or "ABSENT"]
          copies        \* [Paths -> how many times the data was stored]

cvars == <<stage, copies>>

CInit == /\ stage \in [Paths -> {"ABSENT", "READY"}]
         /\ copies = [p \in Paths |-> 0]

(* A step is declared on the server: it has no data yet.                   *)
Declare(p) == /\ stage[p] = "ABSENT"
              /\ stage' = [stage EXCEPT ![p] = "READY"]
              /\ UNCHANGED copies

(* lock_step_data: an upload takes the step.                               *)
Take(p) == /\ stage[p] = "READY"
           /\ stage' = [stage EXCEPT ![p] = "PROCESSING"]
           /\ UNCHANGED copies

(* insert_*_data: the upload stores the data, once.                        *)
Store(p) == /\ stage[p] = "PROCESSING"
            /\ copies[p] = 0
            /\ copies' = [copies EXCEPT ![p] = 1]
            /\ UNCHANGED stage

(* unlock_step_data: the upload lets go of the step, with or without data. *)
LetGo(p) == /\ stage[p] = "PROCESSING"
            /\ \E s \in {"READY", "COMPLETE"} : stage' = [stage EXCEPT ![p] = s]
            /\ UNCHANGED copies

CNext == \E p \in Paths : Declare(p) \/ Take(p) \/ Store(p) \/ LetGo(p)

CSpec == CInit /\ [][CNext]_cvars
=============================================================================
