------------------------------ MODULE JobLedger ------------------------------
(***************************************************************************)
(* What a caller of downloader/job_system.py relies on, without threads,   *)
(* queues or notifications: every job that is pushed gets exactly one      *)
(* outcome, a retried job is replaced by a new one at that same moment,    *)
(* and an execution that ends leaves no job without an outcome.            *)
(***************************************************************************)
EXTENDS Naturals, Sequences

VARIABLES
  status,     \* the outcome of each job pushed, in order; "none" while open
  executing   \* whether execute_jobs is running

ledger == <<status, executing>>

Open == {i \in DOMAIN status : status[i] = "none"}

Init == status = <<>> /\ executing = FALSE

Push == status' = Append(status, "none") /\ UNCHANGED executing

Begin == ~executing /\ executing' = TRUE /\ UNCHANGED status

Close(i, outcome) ==
  /\ executing
  /\ status' = [status EXCEPT ![i] = outcome]
  /\ UNCHANGED executing

Replace(i) ==
  /\ executing
  /\ status' = Append([status EXCEPT ![i] = "retried"], "none")
  /\ UNCHANGED executing

Finish ==
  /\ executing /\ executing' = FALSE
  /\ status' = [i \in DOMAIN status |->
                  IF status[i] = "none" THEN "cancelled" ELSE status[i]]

Next ==
  \/ Push \/ Begin \/ Finish
  \/ \E i \in Open :
       Replace(i) \/ \E o \in {"completed", "failed", "cancelled"} : Close(i, o)

Spec == Init /\ [][Next]_ledger

=============================================================================
