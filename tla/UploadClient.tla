---------------------------- MODULE UploadClient ----------------------------
(***************************************************************************)
(* The client's set_data on top of StepUpload: it posts the file and polls *)
(* .../data/status until the step is no longer PROCESSING.  The server     *)
(* answers a poll with the message in the tracker and then, read after it, *)
(* the stage of the step, which another call may have set.                 *)
(***************************************************************************)
EXTENDS StepUpload

CONSTANT Serial     \* set_data is called when no other call of it runs:
                    \* StepABC.sync, "only one client should call sync at
                    \* a time"

VARIABLES poll,     \* [Calls -> where the client that made the call is]
          heard     \* [Calls -> the message in the answer to its last poll]

clientVars == <<poll, heard>>
allVars    == <<vars, poll, heard>>

Returned  == {"rejected", "ok", "error", "missing"}
PollPhase == {"none", "posting", "polling", "answering"} \cup Returned

ClientInit == /\ Init
              /\ poll = [c \in Calls |-> "none"]
              /\ heard = [c \in Calls |-> "None"]

(* The answer to the POST: an upload_id once the task is queued, an error  *)
(* when the handler ends before that.                                      *)
Answered(c) ==
    IF poll[c] \notin {"none", "posting"} THEN poll[c]
    ELSE IF pc'[c] = "idle" THEN "none"
    ELSE IF pc'[c] = "queued" THEN "polling"
    ELSE IF pc'[c] \in EndPCs THEN "rejected"
    ELSE "posting"

Hear == poll' = [c \in Calls |-> Answered(c)] /\ UNCHANGED heard

Post(c) == /\ Request(c)
           /\ Serial => \A d \in Calls \ {c} : poll[d] \in {"none"} \cup Returned
           /\ Hear

Serve(c) == (Progress(c) \/ VacuumFails(c) \/ Fault(c)) /\ Hear

(* get_upload_status reads the tracker first ...                           *)
ReadTracker(c) ==
    /\ poll[c] = "polling"
    /\ poll' = [poll EXCEPT ![c] = "answering"]
    /\ heard' = [heard EXCEPT ![c] = tracker[c]]
    /\ UNCHANGED vars

(* Mutant of ReadStage: the loop ends without a look at the stage.         *)
ReadStageUnchecked(c) ==
    /\ poll[c] = "answering"
    /\ poll' = [poll EXCEPT ![c] =
                  IF ~Present(c) THEN "missing"
                  ELSE IF Here(c).stage = "PROCESSING" THEN "polling" ELSE "ok"]
    /\ UNCHANGED <<vars, heard>>

(* Mutant of ReadStage: READY is taken for an upload still to start.       *)
ReadStagePatient(c) ==
    /\ poll[c] = "answering"
    /\ poll' = [poll EXCEPT ![c] =
                  IF ~Present(c) THEN "missing"
                  ELSE IF Here(c).stage = "COMPLETE" THEN "ok" ELSE "polling"]
    /\ UNCHANGED <<vars, heard>>

(* ... and then the stage, in whatever step has the path by now: set_data  *)
(* polls on, raises MatchboxServerFileError(info.error), or returns.       *)
ReadStage(c) ==
    /\ poll[c] = "answering"
    /\ poll' = [poll EXCEPT ![c] =
                  IF ~Present(c) THEN "missing"
                  ELSE [READY |-> "error", PROCESSING |-> "polling",
                        COMPLETE |-> "ok"][Here(c).stage]]
    /\ UNCHANGED <<vars, heard>>

Poll(c) == ReadTracker(c) \/ ReadStage(c)

AllReturned == /\ \A c \in Calls : poll[c] \in Returned
               /\ Quiet /\ UNCHANGED clientVars

ClientNext == \/ \E c \in Calls : Post(c) \/ Serve(c) \/ Poll(c)
              \/ Edit /\ Hear
              \/ AllReturned

ClientSpec == ClientInit /\ [][ClientNext]_allVars

(* The server's fairness, and clients that keep polling.                   *)
ClientFairSpec ==
    /\ ClientSpec
    /\ \A c \in Calls : WF_allVars(Progress(c) /\ Hear) /\ WF_allVars(Poll(c))

-----------------------------------------------------------------------------
ClientTypeOK == /\ TypeOK
                /\ poll \in [Calls -> PollPhase]
                /\ heard \in [Calls -> Causes]

(* A set_data that returns has stored its own file: the step is COMPLETE   *)
(* because of this upload and not of somebody else's.  (The process may    *)
(* die after that.)                                                        *)
OkIsMine == \A c \in Calls :
    poll[c] = "ok" => goal[c] = "complete" /\ pc[c] \in {"cleanup", "done", "lost"}

(* "Attach error to upload ID to inform clients" (process_upload): when    *)
(* set_data raises because its upload failed, the tracker has the message, *)
(* or the task is just about to set it: it is set after the step is READY, *)
(* so that a poll in between hears nothing.                                *)
ErrorIsExplained == \A c \in Calls :
    poll[c] = "error" => tracker[c] # "None" \/ pc[c] = "tell"

(* Once its upload is accepted, set_data returns or raises ("Poll until    *)
(* complete with retry/timeout configuration", client/_handler).           *)
PollEnds == \A c \in Calls : poll[c] = "polling" ~> poll[c] \in Returned
=============================================================================
