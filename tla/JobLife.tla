------------------------------ MODULE JobLife ------------------------------
(***************************************************************************)
(* What everyone who watches a job relies on: the statuses its row goes    *)
(* through and the final statuses that are published for it.  A job starts *)
(* as queued, or at its end when it is served synchronously; a completed   *)
(* job never runs again; nothing is published but the status being stored. *)
(***************************************************************************)
EXTENDS Naturals

VARIABLES status, \* the status column of the job's row, "none" before it
          events  \* the final statuses published so far

Terminal == {"completed", "completed_no_data", "failed", "suppressed"}

JobStatus == Terminal \cup {"queued", "running", "purged"}

(* The statuses that a write of s may find in the row.                     *)
Before(s) ==
    CASE s = "queued" -> {"none"}
      [] s = "running" -> {"queued", "suppressed", "failed", "purged"}
      [] s = "suppressed" -> {"none", "running", "failed", "purged", "suppressed"}
      [] s = "failed" -> JobStatus
      [] s = "purged" -> JobStatus
      [] OTHER -> {"none", "running", "failed", "purged"}

Init == status = "none" /\ events = {}

(* The row is written; a final status is then published, unless Redis or   *)
(* the process fails first.                                                *)
Write(s, published) ==
    /\ status \in Before(s)
    /\ published \subseteq {s} \cap Terminal
    /\ status' = s
    /\ events' = events \cup published

(* A run fails that had loaded the row as failed, so its session leaves    *)
(* the column out of the UPDATE: whatever replaced it stays, and failed is *)
(* published.                                                              *)
AnnounceOvertakenFailure ==
    /\ status = "purged"
    /\ events' = events \cup {"failed"}
    /\ UNCHANGED status

Next == \/ \E s \in JobStatus : \E published \in SUBSET {s} : Write(s, published)
        \/ AnnounceOvertakenFailure

Spec == Init /\ [][Next]_<<status, events>>

=============================================================================
