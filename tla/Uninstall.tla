------------------------------ MODULE Uninstall ------------------------------
(***************************************************************************)
(* Databases are removed without the network (offline_uninstaller.py,      *)
(* uninstall_service.py), in sessions between the runs of StoreFiles: the  *)
(* files in their stores, the stores and the sections of the ini.  A drive *)
(* may go meanwhile.  Folders and what is printed are left out.            *)
(***************************************************************************)
EXTENDS StoreFiles

Known(s) == DOMAIN s.dbs \cup Configured(ini)
Items(s, db) == UNION {{<<db, place, p>> : p \in s.dbs[db][place]} : place \in DOMAIN s.dbs[db]}

\* Faulty variant: only a database without metadata is refused.
RefusedIfUnknown(s, ids) == {db \in ids \cap DOMAIN s.dbs : PrintIn(s.prints, db).exp = {}}

\* What is expected on the drives cannot be verified.
Refused(s, ids) ==
  {db \in ids \cap DOMAIN s.dbs : ~Covered(PrintIn(s.prints, db), BagOf(Fragments(s, db)))}

\* _uninstall_dbs until the files are removed.  Names that are not known end it.
BeginUninstall ==
  /\ run.pc = "idle" /\ changes < MaxChanges /\ changes' = changes + 1
  /\ \E ids \in (SUBSET Known(Loaded)) \ {{}}, force \in BOOLEAN :
       LET s == Loaded
           refused == IF force THEN {} ELSE Refused(s, ids)
       IN /\ force => Refused(s, ids) # {}   \* else it makes no difference
          /\ run' = [kind |-> "uninstall", pc |-> "remove", force |-> force, refused |-> refused,
                     process |-> ids \ refused, mem |-> s, was |-> s, claims |-> AllClaims, ini |-> ini,
                     todo |-> UNION {Items(s, db) : db \in (ids \ refused) \cap DOMAIN s.dbs},
                     gone |-> {}, broken |-> {}, failed |-> {}, done |-> {}, warned |-> {},
                     cleaned |-> TRUE, left |-> DriveSet]
  /\ TornLoad(TRUE)
  /\ UNCHANGED <<ini, edition, option, plugged, files, knowledge, troubles>>

\* Faulty variant: nobody asks who else has the file.
ClaimedByNone(p) == FALSE

\* _claimants_by_kind_and_path: the databases that stay, refused ones too.
Claimed(p) == \E db \in DOMAIN run.was.dbs \ run.process : p \in Recorded(run.was, db)

Forgotten(db, place, p) == [run.mem EXCEPT !.dbs[db][place] = @ \ {p}]
Reachable(db, place) == place \in {"base"} \cup plugged /\ <<db, place>> \notin run.gone

\* _remove_db, one file: it is kept for others, it is not there, it is removed, all
\* tries to remove it fail, or its drive is no longer there.
RemoveFile(db, place, p) ==
  /\ run.pc = "remove" /\ <<db, place, p>> \in run.todo
  /\ LET rest == [run EXCEPT !.todo = @ \ {<<db, place, p>>}]
         popped == [rest EXCEPT !.mem = Forgotten(db, place, p)]
     IN \/ /\ ~Reachable(db, place)
           /\ run' = [rest EXCEPT !.gone = @ \cup {<<db, place>>}]
           /\ UNCHANGED <<files, troubles, defects>>
        \/ /\ Reachable(db, place) /\ (Claimed(p) \/ p \notin files[place])
           /\ run' = popped /\ UNCHANGED <<files, troubles, defects>>
        \/ /\ Reachable(db, place) /\ ~Claimed(p) /\ p \in files[place]
           /\ files' = [files EXCEPT ![place] = @ \ {p}]
           /\ run' = popped /\ UNCHANGED troubles
           /\ Struck(IF \E other \in Configured(ini) \ run.process : p \in Wanted(other)
                     THEN {"dropped"} ELSE {})
        \/ /\ Reachable(db, place) /\ ~Claimed(p) /\ p \in files[place]
           /\ troubles < MaxTroubles /\ troubles' = troubles + 1
           /\ run' = [rest EXCEPT !.broken = @ \cup {db}] /\ UNCHANGED <<files, defects>>
  /\ UNCHANGED <<ini, edition, option, plugged, knowledge, changes>>

\* The databases with nothing left are forgotten, the others keep what is left.
Forget ==
  /\ run.pc = "remove" /\ run.todo = {}
  /\ LET failing == {db \in run.process : \/ db \in {c[1] : c \in run.gone} \cup run.broken
                                          \/ db \in DOMAIN run.mem.dbs /\ Recorded(run.mem, db) # {}}
         done == run.process \ failing
     IN /\ run' = [run EXCEPT !.done = done, !.failed = failing,
                  !.pc = IF run.process \cap DOMAIN run.was.dbs = {} THEN "config" ELSE "prints",
                  !.mem = [dbs |-> Restrict(run.mem.dbs, DOMAIN run.mem.dbs \ done),
                           prints |-> Restrict(run.mem.prints, DOMAIN run.mem.prints \ done)]]
        /\ Struck(IF failing = {} THEN {} ELSE {"half"})
  /\ UNCHANGED <<ini, edition, option, plugged, files, knowledge, changes, troubles>>

\* DatabaseConfigRemover, for each of them; a file may fail to be written.
CleanConfig ==
  /\ run.pc = "config"
  /\ \E db \in run.done : \E failing \in {{}} \cup {{f} : f \in SourceFiles(run.ini, db)} :
       /\ troubles + Cardinality(failing) <= MaxTroubles
       /\ troubles' = troubles + Cardinality(failing)
       /\ ini' = RemovedFrom(ini, run.ini, db, failing)
       /\ run' = [run EXCEPT !.done = @ \ {db}, !.cleaned = @ /\ failing = {},
                    !.warned = IF Reappears(ini, ini', run.ini, db, failing) THEN @ \cup {db} ELSE @]
       /\ Struck(IF failing = {} /\ \E f \in DOMAIN ini : db \in Repeated(ini, f) THEN {"twice"} ELSE {})
  /\ UNCHANGED <<edition, option, plugged, files, knowledge, changes>>

\* _result_for_box, and the failures of the ini; without a store saved it is left alone.
Result(r) ==
  LET disconnected == {c[1] : c \in r.gone} \ r.broken
  IN IF ~r.cleaned THEN "failed"
     ELSE IF r.failed = {} THEN (IF r.refused = {} THEN "ok" ELSE "unverified")
     ELSE IF r.refused = {} /\ r.failed = disconnected THEN "disconnected" ELSE "failed"

EndUninstall ==
  /\ run.pc = "config" /\ run.done = {} /\ run' = Idle
  /\ UNCHANGED <<ini, edition, option, plugged, files, knowledge, changes, troubles, defects>>

GoesOn ==
  \/ Forget \/ CleanConfig \/ EndUninstall
  \/ (run.pc = "remove" /\ \E c \in run.todo : RemoveFile(c[1], c[2], c[3]))

Next == Update \/ SaveFails \/ BeginUninstall \/ GoesOn \/ Crash \/ Change
Spec == Init /\ [][Next]_vars
\* The updater is started again and again, and what was started goes on.
FairSpec == Spec /\ WF_vars(Update) /\ WF_vars(GoesOn)

-----------------------------------------------------------------------------
(* Properties *)

Updating == run.pc # "idle" /\ run.kind = "update"
Uninstalling == run.pc # "idle" /\ run.kind = "uninstall"

\* Another database lists the file, and has it on a drive that is away: no fingerprint of
\* this database tells that it is gone.
Lent(db, p) ==
  /\ \E other \in Dbs \ {db} : p \in UNION Range(Editions[other])
  /\ \E d \in DriveSet \ plugged : p \in files[d]
Served(db) == \A p \in Wanted(db) : Lent(db, p) \/ \E place \in {"base"} \cup plugged : p \in files[place]
SkippedAreThere == \A db \in run.skipped : Served(db)

\* What makes a fingerprint stand for files that are not there.
Unfounded == {"neglected", "vouched", "dropped", "dangling", "failed", "returned", "late",
              "half"}

\* A database is skipped only while all its files are in a place that is there, with
\* fragments that moved, drives that changed, writes that were cut in between.
SkippedIsServed == Updating /\ defects \cap Unfounded = {} => SkippedAreThere

\* mix_store_and_db_worker.py: a store that has files on a drive that is away is not
\* trusted by its fingerprint alone, the database is processed.
AbsentDriveNotTrusted ==
  Updating /\ defects \cap {"vouched", "dropped", "failed", "half"} = {} => SkippedAreThere

\* docs/check.md: a check says that databases are current only while all their files
\* are in a place that is there.  It goes by the fingerprints alone, whatever mode a
\* run would choose, so that nothing else makes up for one that is not true; after a
\* run with failures they are not, and a balanced run has taken the free spaces away.
CheckedIsServed ==
  run.pc = "idle" /\ free.st = "whole" /\ defects \cap Unfounded = {} =>
      \A ids \in SUBSET Configured(ini) :
        CheckStatus(ids, Configured(ini)) = "up_to_date" => \A db \in ids : Served(db)

\* No defect has struck that leaves a drive with what the main store knows nothing of.
\* A drive with less than its store says does no harm, nor does an update that failed.
Sound == defects \cap {"moved", "neglected", "outlived", "torn", "half"} = {}

\* docs/uninstall.md, exit code 0: when every database was uninstalled, and nothing
\* was forced, no file that a store claimed for it is left on any drive, be it there
\* or not, unless a database that stays claims it.  A database that no store at hand
\* knows is taken out of the ini alone, whatever a drive that is away has of it.
UninstallComplete ==
  Uninstalling /\ run.pc = "config" /\ Result(run) = "ok" /\ ~run.force /\ Sound =>
    \A c \in run.claims : c[1] \in run.process \cap DOMAIN run.was.dbs =>
      c[3] \notin files[c[2]] \/ Claimed(c[3])

\* What another database claims in that place is never removed.
OthersKept ==
  [][Uninstalling => \A place \in Places : \A p \in files[place] \ files'[place] :
       ~\E db \in Known(run.was) \ run.process : <<db, place, p>> \in run.claims]_vars

\* When a database comes back after all were uninstalled, there was a warning.
ReturnIsAnnounced ==
  Uninstalling /\ run.pc = "config" /\ run.done = {} /\ Result(run) = "ok"
    /\ "twice" \notin defects =>
      (run.process \cap Configured(ini) # {} => run.warned # {})

\* A fragment is expected that is on none of the drives that are there.
Awaited ==
  /\ main.st = "whole"
  /\ \E db \in DOMAIN main.is.prints : \E expected \in main.is.prints[db].exp :
       ~expected \sqsubseteq BagOf([d \in {e \in plugged : ext[e].st = "whole" /\ db \in DOMAIN ext[e].is}
                                     |-> ext[d].is[db]])

\* When nothing changes any more, the runs end up with nothing to process: neither
\* the fragments nor the metadata that a store lacks are sought for ever.  But for
\* a drive that is waited for while all its files are in the base as well, and for
\* the mark of a run: without it all is verified, and only a store that changes is
\* saved and gets a mark.
Settles ==
  \/ <>[][Update => run' = Idle \/ run.pc # "idle" \/ run'.process = {}]_vars
  \/ <>[](~marked)
  \/ <>[]Awaited
=============================================================================
