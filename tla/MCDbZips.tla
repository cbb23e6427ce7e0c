------------------------------- MODULE MCDbZips -------------------------------
(***************************************************************************)
(* Model checking of JobTags with the jobs ProcessDbMainWorker spawns for  *)
(* databases that have a zip: Z transfers the summary, O opens it, X       *)
(* processes the zip index, W is the WaitDbZipsJob and D the database      *)
(* index that follows it.  X is also the backup when a summary of an       *)
(* earlier run is in the store.                                            *)
(***************************************************************************)
EXTENDS JobTags, TLC

CONSTANTS M1, Z1, O1, X1, W1, D1, M2, Z2, O2, X2, W2, D2, Dbs, MaxPkgs

Main_ == <<M1, M2>>
Zip == <<Z1, Z2>>
Opn == <<O1, O2>>
Idx == <<X1, X2>>
Wait == <<W1, W2>>
Base == <<D1, D2>>
AllJobs == UNION {ToSet(s) : s \in {Main_, Zip, Opn, Idx, Wait, Base}}
DbOf(j) ==
  CHOOSE d \in 1..2 : j \in {Main_[d], Zip[d], Opn[d], Idx[d], Wait[d], Base[d]}

MCTypeOf ==
  [j \in AllJobs |->
     CASE j \in ToSet(Main_) -> "main" [] j \in ToSet(Zip) -> "transfer"
       [] j \in ToSet(Opn) -> "summary" [] j \in ToSet(Idx) -> "index"
       [] j \in ToSet(Wait) -> "wait" [] OTHER -> "base"]
MCTypes == {"main", "transfer", "summary", "index", "wait", "base"}
MCRetryOf ==
  [j \in AllJobs |->
     CASE j \in ToSet(Opn) -> Zip[DbOf(j)]
       [] j \in ToSet(Main_) \cup ToSet(Idx) \cup ToSet(Wait) -> NoJob
       [] OTHER -> j]
MCBackupOf ==
  [j \in AllJobs |-> IF j \in ToSet(Zip) \cup ToSet(Opn) THEN Idx[DbOf(j)]
                     ELSE NoJob]
\* W ends with nothing when an index has failed on full partitions.
MCResults ==
  [j \in AllJobs |->
     LET d == DbOf(j) IN
     CASE j = Main_[d] -> {<<Zip[d], Wait[d]>>} [] j = Zip[d] -> {<<Opn[d]>>}
       [] j = Opn[d] -> {<<Idx[d]>>} [] j = Wait[d] -> {<<Base[d]>>, <<>>}
       [] OTHER -> {<<>>}]
MCTag == 1..2
MCTagsOf ==
  [j \in AllJobs |->
     IF j \in ToSet(Zip) \cup ToSet(Opn) \cup ToSet(Idx) THEN {DbOf(j)} ELSE {}]
MCWaitsFor ==
  [j \in AllJobs |-> IF j \in ToSet(Wait) THEN {DbOf(j)} ELSE {}]
\* Nothing but the main job of a database leads up to the tag of its zip.
MCAhead == [t \in MCTag |-> {Main_[t]}]
ASSUME DbZipsInLine == \A t \in MCTag : InLine(t, MCAhead[t])
MCRoots == SubSeq(Main_, 1, Dbs)

-----------------------------------------------------------------------------
\* Threads and the main loop keep running; workers that do not wait end.
Fairness ==
  WF_tagVars(TMain) /\ \A p \in 1..MaxPkgs : WF_tagVars(TWorker(p))
FairSpec == TSpec /\ Fairness

=============================================================================
