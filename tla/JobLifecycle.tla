---------------------------- MODULE JobLifecycle ----------------------------
(***************************************************************************)
(* What the processing_job table promises its readers: a job is handed to  *)
(* one worker, once, and from then on only its verdict changes.  A worker  *)
(* that was presumed dead may still overturn the verdict it was given.     *)
(***************************************************************************)
EXTENDS Naturals

CONSTANTS Worker, MaxJobs, NoWorker

VARIABLES status, claimedBy

JobId    == 1..MaxJobs
Terminal == {"completed", "failed"}

Move(S, s) == status' = [j \in JobId |-> IF j \in S THEN s ELSE status[j]]

Init == /\ status \in [JobId -> {"none"} \cup Terminal]
        /\ claimedBy = [j \in JobId |-> NoWorker]

Enqueue(S) ==
  /\ \A j \in S : status[j] = "none"
  /\ Move(S, "pending")
  /\ UNCHANGED claimedBy

Claim(j, w) ==
  /\ status[j] = "pending"
  /\ Move({j}, "running")
  /\ claimedBy' = [claimedBy EXCEPT ![j] = w]

Settle(S, verdict) ==
  /\ \A j \in S : status[j] \in Terminal \cup {"running"}
  /\ Move(S, verdict)
  /\ UNCHANGED claimedBy

Delete(S) ==
  /\ \A j \in S : status[j] # "none"
  /\ Move(S, "deleted")
  /\ UNCHANGED claimedBy

Next ==
  \/ \E S \in SUBSET JobId :
        Enqueue(S) \/ Delete(S) \/ \E v \in Terminal : Settle(S, v)
  \/ \E j \in JobId, w \in Worker : Claim(j, w)

Spec == Init /\ [][Next]_<<status, claimedBy>>

=============================================================================
