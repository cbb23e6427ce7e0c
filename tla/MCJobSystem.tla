----------------------------- MODULE MCJobSystem -----------------------------
(***************************************************************************)
(* Model checking of JobSystem.  The jobs are those of a zip summary:      *)
(* T transfers it, O opens it and is retried by transferring again, P      *)
(* processes the index the store already has, F fetches one file.  L is a  *)
(* job that spawns a job of its own type, U has no registered worker.      *)
(***************************************************************************)
EXTENDS JobSystem, TLC

CONSTANTS T, O, P, F, L, U, MaxPkgs

Jobs == {T, O, P, F, L, U}
Types == Jobs
MCTypeOf == [j \in Jobs |-> j]
MCRegistered == Types \ {U}
MCPriority == {T, O, P}
MCRetryOf ==
  [j \in Jobs |-> CASE j = O -> T [] j = P -> NoJob [] OTHER -> j]
MCBackupOf == [j \in Jobs |-> IF j \in {T, O} THEN P ELSE NoJob]
MCResults ==
  [j \in Jobs |-> CASE j = T -> {<<O>>} [] j = O -> {<<P>>}
                    [] j = P -> {<<F>>} [] j = L -> {<<L>>, <<U>>}
                    [] OTHER -> {<<>>}]

RootsSummary == <<T>>
RootsRerun == <<L>>

-----------------------------------------------------------------------------
(* Threads and the main loop keep running; workers end in finite time. *)
Fairness == WF_vars(Main) /\ \A p \in 1..MaxPkgs : WF_vars(Worker(p))
FairSpec == Spec /\ Fairness

=============================================================================
