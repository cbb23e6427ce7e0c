---------------------------- MODULE MCStoreLoading ----------------------------
(***************************************************************************)
(* Model checking of StoreLoading with one or two databases: the database  *)
(* files are transferred by T, opened by O and mixed with the store by X;  *)
(* S loads the store, with the AbortJob A as its backup.                   *)
(***************************************************************************)
EXTENDS StoreLoading, TLC

CONSTANTS T1, O1, X1, T2, O2, X2, S, A, Dbs, MaxPkgs

AllJobs == {T1, O1, X1, T2, O2, X2, S, A}
MCTypeOf ==
  [j \in AllJobs |-> CASE j \in {T1, T2} -> "transfer" [] j \in {O1, O2} -> "open"
                       [] j \in {X1, X2} -> "mix" [] j = S -> "load"
                       [] OTHER -> "abort"]
MCTypes == {"transfer", "open", "mix", "load", "abort"}
MCRetryOf ==
  [j \in AllJobs |-> CASE j = O1 -> T1 [] j = O2 -> T2
                       [] j \in {X1, X2} -> NoJob [] OTHER -> j]
MCBackupOf == [j \in AllJobs |-> IF j = S THEN A ELSE NoJob]
MCResults ==
  [j \in AllJobs |-> CASE j = T1 -> {<<O1>>} [] j = T2 -> {<<O2>>}
                       [] j = O1 -> {<<>>, <<S, X1>>, <<X1>>}
                       [] j = O2 -> {<<>>, <<S, X2>>, <<X2>>}
                       [] OTHER -> {<<>>}]
MCTag == {"store"}
MCTagsOf == [j \in AllJobs |-> IF j = S THEN MCTag ELSE {}]
MCWaitsFor == [j \in AllJobs |-> IF j \in {X1, X2} THEN MCTag ELSE {}]
MCRoots == SubSeq(<<T1, T2>>, 1, Dbs)

-----------------------------------------------------------------------------
\* Threads and the main loop keep running; workers that do not wait end.
Fairness ==
  WF_storeVars(SMain) /\ \A p \in 1..MaxPkgs : WF_storeVars(SWorker(p))
FairSpec == SSpec /\ Fairness

=============================================================================
