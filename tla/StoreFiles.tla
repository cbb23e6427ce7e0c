----------------------------- MODULE StoreFiles -----------------------------
(***************************************************************************)
(* The files the updater keeps its knowledge in, and the runs that read    *)
(* and write them (local_repository.py, external_store_fingerprints.py,    *)
(* full_run_service.py, jobs/open_db_worker.py, jobs/mix_store_and_db_     *)
(* worker.py): the main store, the fingerprints, a store and a manifest of *)
(* it on each external drive, the free spaces and the mark of a run.       *)
(* Drives come and go, and the process may die in the middle of a write.   *)
(*                                                                         *)
(* What a run makes of the files of a database is module Import; here it   *)
(* is which paths are in which place.  A fragment is what a store has on   *)
(* one drive, and its fingerprint is a function of it alone.               *)
(***************************************************************************)
EXTENDS DbConfig, Bags, TLC

CONSTANTS
  Dbs,
  Editions,     \* db -> sequence of the sets of paths that are published
  Outer,        \* paths that go to an external drive when there is one
  Drives,       \* external drives, in the order of their priority
  Inis,         \* the inis of the start
  Options,      \* values of file_checking
  MaxChanges, MaxTroubles   \* bounds over a behaviour; a trouble is a crash or a failure

\* No drive has the name of a phase of a run.  Inis are those that the updater accepts:
\* the distribution is in none of the drop-in files.
Phases == {"idle", "import", "prints", "main", "table", "drives", "free", "remove", "config"}
ASSUME StoreAssumption ==
  /\ Drives \in Seq(STRING) /\ ToSet(Drives) \cap (Phases \cup {"base"}) = {}
  /\ Inis \subseteq [ToSet(IniFiles) -> Seq(Dbs)]
  /\ \A i \in Inis : \A f \in ToSet(DropIns) : DefaultDb \notin ToSet(i[f])
\* A database has something published, which may be of no files.
ASSUME EditionsAssumption ==
  /\ DefaultDb \in Dbs
  /\ \A db \in Dbs : Editions[db] \in Seq(SUBSET STRING) /\ Editions[db] # <<>>

VARIABLES
  ini,        \* see DbConfig
  edition,    \* db -> number of its edition that is published
  option,     \* file_checking
  plugged,    \* the drives that are there
  files,      \* place -> the paths that are there
  main, prints, ext, manifest, free,   \* the files; one for each drive of ext, manifest
  marked,     \* the mark of the last successful run is there
  run,        \* the session that is going on
  changes, troubles,
  defects     \* the known defects of the code that have struck, see section 5

knowledge == <<main, prints, ext, manifest, free, marked>>
vars == <<ini, edition, option, plugged, files, knowledge, run, changes, troubles, defects>>

DriveSet == ToSet(Drives)
Places == {"base"} \cup DriveSet
Absent == [st |-> "absent"]
Torn == [st |-> "torn"]
Whole(content) == [st |-> "whole", is |-> content]

NoMap == [x \in {} |-> {}]
NewStore == [dbs |-> NoMap, prints |-> NoMap]
\* The fingerprint of a database, and at most one bag of the fragments expected.
NoPrint == [edition |-> 0, exp |-> {}]
Put(f, k, v) == (k :> v) @@ f
BagOf(f) == [x \in Range(f) |-> Cardinality({d \in DOMAIN f : f[d] = x})]
Idle == [pc |-> "idle"]

\* At the start there is nothing, or the store of an updater that did not have the
\* fragments yet, of files that are in the base.
Legacy ==
  /\ main = Whole([dbs |-> [db \in Configured(ini) |-> Editions[db][1]],
                   prints |-> [db \in Configured(ini) |-> [edition |-> 1, exp |-> {}]]])
  /\ prints = Whole(main.is.prints)
  /\ files = [place \in Places |-> IF place = "base"
                                   THEN UNION {Editions[db][1] : db \in Configured(ini)} ELSE {}]
  /\ free = Whole(plugged) /\ marked = TRUE

Nothing ==
  /\ main = Absent /\ prints = Absent /\ files = [place \in Places |-> {}]
  /\ free = Absent /\ marked = FALSE

Init ==
  /\ ini \in Inis /\ option \in Options /\ plugged \in {{}, DriveSet}
  /\ edition = [db \in Dbs |-> 1]
  /\ (Nothing \/ (Legacy /\ plugged = {}))
  /\ ext = [d \in DriveSet |-> Absent] /\ manifest = [d \in DriveSet |-> Absent]
  /\ run = Idle /\ changes = 0 /\ troubles = 0 /\ defects = {}

-----------------------------------------------------------------------------
(* 1. Reading *)

\* load_store: a torn main store counts as a new one, and hides those on the drives;
\* one of a drive cannot be read and is left out; nothing else is looked at of the
\* databases that are neither in the main store nor configured.
Loaded ==
  LET own == IF main.st = "whole" THEN main.is ELSE NewStore
      on(db) == {d \in plugged : /\ ext[d].st = "whole" /\ db \in DOMAIN ext[d].is
                                 /\ \/ main.st = "absent"
                                    \/ db \in DOMAIN own.dbs \cup Configured(ini)}
      known == DOMAIN own.dbs \cup {db \in Dbs : on(db) # {}}
      base(db) == IF db \in DOMAIN own.dbs THEN own.dbs[db] ELSE {}
  IN IF main.st = "torn" THEN NewStore
     ELSE [dbs |-> [db \in known |-> [place \in {"base"} \cup on(db) |->
                                        IF place = "base" THEN base(db) ELSE ext[place].is[db]]],
           prints |-> own.prints]

Fragments(s, db) == [d \in DOMAIN s.dbs[db] \ {"base"} |-> s.dbs[db][d]]
PrintIn(table, db) == IF db \in DOMAIN table THEN table[db] ELSE NoPrint
Recorded(s, db) == IF db \in DOMAIN s.dbs THEN UNION Range(s.dbs[db]) ELSE {}

\* load_store_fingerprints and load_external_store_fingerprints.
PrintsRead == IF prints.st = "whole" THEN prints.is ELSE NoMap
ManifestsOf(db) ==
  LET on == {d \in plugged : manifest[d].st = "whole" /\ db \in DOMAIN manifest[d].is}
  IN BagOf([d \in on |-> manifest[d].is[db]])

\* calc_file_checking_changes.
Mode ==
  IF ~marked /\ main.st # "absent" THEN "verify"
  ELSE IF option # "balanced" THEN option
  ELSE IF free = Whole(plugged) THEN "fastest" ELSE "exhaustive"

\* can_skip_db, and can_skip_db_with_external_store_fingerprints, but for the mode.
Unchanged(print, db) == print.edition = edition[db]
Covered(print, available) == \E expected \in print.exp : expected \sqsubseteq available

\* Faulty variant: what is expected on the drives is not compared with what is there.
OpenTrustsAny(db) ==
  /\ Unchanged(PrintIn(PrintsRead, db), db)
  /\ PrintsRead[db].exp # {}

\* OpenDbWorker, before the store is loaded.
OpenTrusts(db) ==
  /\ Unchanged(PrintIn(PrintsRead, db), db)
  /\ Covered(PrintsRead[db], ManifestsOf(db))
NeedsMetadata(db) == ~OpenTrusts(db) /\ Unchanged(PrintIn(PrintsRead, db), db)

\* can_skip_db_after_store_load.  The drives of a store that is loaded are there.
MixTrusts(s, db) ==
  LET print == PrintIn(s.prints, db)
  IN /\ Unchanged(print, db)
     /\ IF print.exp # {} THEN Covered(print, BagOf(Fragments(s, db))) ELSE ~NeedsMetadata(db)

SkipsOpen(db) == Mode = "fastest" /\ OpenTrusts(db)
SkipsMix(s, db) == Mode = "fastest" /\ MixTrusts(s, db)

\* CheckMixStoreAndDbWorker: a database without a store or a fingerprint is not skipped.
CheckMix(db) ==
  /\ db \in DOMAIN Loaded.dbs \cap DOMAIN Loaded.prints
  /\ MixTrusts(Loaded, db)

\* OnlineChecker: the databases are only looked at, and file_checking is "fastest"
\* whatever the option and the mark of the last run are.
CheckFinds(db, had) ==
  IF ~had THEN "failed"
  ELSE IF OpenTrusts(db) \/ CheckMix(db) THEN "up_to_date" ELSE "needs_update"

\* _check_status of a check of the databases 'ids', of which those of 'had' can be had.
CheckStatus(ids, had) ==
  LET found == {CheckFinds(db, db \in had) : db \in ids}
  IN IF "failed" \in found THEN "failed"
     ELSE IF "needs_update" \in found THEN "update_available" ELSE "up_to_date"

\* Faulty variant: the store is not saved only to have the fragments in it.
ForcesNever(s, db) == FALSE

\* The store is to be saved for the files that belong to it to be made again.
Forces(s, db) ==
  /\ Mode = "fastest" /\ NeedsMetadata(db)
  /\ IF SkipsMix(s, db) THEN \E bag \in PrintIn(s.prints, db).exp : bag # EmptyBag
     ELSE PrintIn(s.prints, db).exp = {}

-----------------------------------------------------------------------------
(* 2. A run *)

Step(pc) == [run EXCEPT !.pc = pc]
AllClaims ==
  (UNION {IF main.st = "whole" /\ db \in DOMAIN main.is.dbs
          THEN {<<db, "base", p>> : p \in main.is.dbs[db]} ELSE {} : db \in Dbs})
  \cup (UNION {IF ext[d].st = "whole" /\ db \in DOMAIN ext[d].is
               THEN {<<db, d, p>> : p \in ext[d].is[db]} ELSE {} : db \in Dbs, d \in DriveSet})

Struck(S) == defects' = defects \cup S
TornLoad(loads) == Struck(IF loads /\ main.st = "torn" THEN {"torn"} ELSE {})

\* store_by_id and set_base_path, for each database that gets to its store.
WithStores(s, dbs) ==
  [dbs |-> [db \in DOMAIN s.dbs \cup dbs |-> IF db \in DOMAIN s.dbs THEN s.dbs[db]
                                            ELSE [place \in {"base"} |-> {}]],
   prints |-> [db \in DOMAIN s.prints \cup dbs |-> PrintIn(s.prints, db)]]

\* _run_impl until the databases are known: all of the ini, or one of them.  Some may
\* not be had, or not be valid.  When no source can be had at all it ends there.
Begin ==
  /\ run.pc = "idle"
  /\ \E only \in {Configured(ini)} \cup {{db} : db \in Configured(ini)} :
     \E bad \in SUBSET only, lost \in BOOLEAN :
       LET early == {db \in only \ bad : SkipsOpen(db)}
           mixed == only \ (bad \cup early)
           stored == IF mixed = {} THEN NewStore ELSE WithStores(Loaded, mixed)
           late == {db \in mixed : SkipsMix(stored, db)}
           dirty == \E db \in mixed : db \notin DOMAIN Loaded.dbs \/ Forces(stored, db)
       IN /\ troubles + Cardinality(bad) <= MaxTroubles /\ (bad = {} => ~lost)
          /\ troubles' = troubles + Cardinality(bad)
          /\ run' = IF lost /\ bad = only THEN Idle
                    ELSE [kind |-> "update", pc |-> IF mixed \ late # {} THEN "import"
                                                    ELSE IF dirty THEN "prints" ELSE "free",
                          skipped |-> early \cup late, process |-> mixed \ late, mem |-> stored,
                          dirty |-> dirty, failed |-> lost, left |-> DriveSet]
          /\ TornLoad(mixed # {})
  /\ UNCHANGED <<ini, edition, option, plugged, files, knowledge, changes>>

Wanted(db) == Editions[db][edition[db]]
At(p) == IF p \in Outer /\ plugged # {}
         THEN Drives[CHOOSE i \in DOMAIN Drives : Drives[i] \in plugged
                                                  /\ \A j \in 1..i-1 : Drives[j] \notin plugged]
         ELSE "base"

\* Of the databases that list a file the first one has it, and what is not listed goes
\* unless others have it.
Owned(first, db) == IF db = first THEN Wanted(db) ELSE Wanted(db) \ Wanted(first)
Kept(p) == \E db \in DOMAIN run.mem.dbs : IF db \in run.process THEN p \in Wanted(db)
                                          ELSE p \in Recorded(run.mem, db)
GoneFrom(place) ==
  {p \in UNION {IF place \in DOMAIN run.mem.dbs[db] THEN run.mem.dbs[db][place] \ Wanted(db)
                ELSE {} : db \in run.process} : ~Kept(p)}
Needed == {p \in UNION {Wanted(db) : db \in run.process} : p \notin files[At(p)]}

\* The stores of the databases that are processed; cleanup_externals drops what is empty.
ClaimsAfter(first, bad, db) ==
  LET was == run.mem.dbs[db]
      got == Owned(first, db) \ bad
  IN [place \in DOMAIN was \cup {At(p) : p \in got} |->
        (IF place \in DOMAIN was THEN was[place] \cap Wanted(db) ELSE {})
          \cup {p \in got : At(p) = place}]
StoresAfter(first, bad) ==
  LET nonempty(c) == [place \in {q \in DOMAIN c : q = "base" \/ c[q] # {}} |-> c[place]]
      mem == run.mem
  IN [dbs |-> [db \in DOMAIN mem.dbs |-> IF db \in run.process THEN nonempty(ClaimsAfter(first, bad, db))
                                         ELSE mem.dbs[db]],
      prints |-> [db \in DOMAIN mem.prints |->
                    IF db \in run.process THEN [mem.prints[db] EXCEPT !.edition = edition[db]]
                    ELSE mem.prints[db]]]

\* download_dbs_contents, from the jobs of the databases that are not skipped to the
\* changes of their stores (module Import); one file may fail.
Import ==
  /\ run.pc = "import"
  /\ \E first \in run.process : \E bad \in {{}} \cup {{p} : p \in Needed} :
       /\ troubles + Cardinality(bad) <= MaxTroubles
       /\ troubles' = troubles + Cardinality(bad)
       /\ files' = [place \in Places |->
                      (files[place] \ GoneFrom(place)) \cup {p \in Needed \ bad : At(p) = place}]
       /\ LET new == StoresAfter(first, bad)
          IN run' = [run EXCEPT !.pc = IF run.dirty \/ new # run.mem THEN "prints" ELSE "free",
                                !.mem = new, !.failed = @ \/ bad # {}]
       /\ Struck((IF bad # {} /\ option # "balanced" THEN {"failed"} ELSE {})
            \cup (IF \E d \in DriveSet \ plugged : bad \cap files[d] # {} THEN {"returned"} ELSE {})
            \cup IF \E db \in Configured(ini) \ run.process, place \in Places :
                       GoneFrom(place) \cap Wanted(db) # {} THEN {"dropped"} ELSE {})
  /\ UNCHANGED <<ini, edition, option, plugged, knowledge, changes>>

-----------------------------------------------------------------------------
(* 3. save_store, one file after the other *)

\* What is kept of the databases, and the fragments that each of them expects.
Stamped(s) ==
  [db \in DOMAIN s.prints |->
     IF db \in DOMAIN s.dbs THEN [s.prints[db] EXCEPT !.exp = {BagOf(Fragments(s, db))}]
     ELSE s.prints[db]]
FragmentsOn(s, d) == [db \in {e \in DOMAIN s.dbs : d \in DOMAIN s.dbs[e]} |-> s.dbs[db][d]]

\* A fragment that is not at hand is no longer expected from now on: of a database
\* that was processed without it, or of one that had nothing to do with this session.
Unread(db) == \E d \in DriveSet : /\ d \notin plugged \cup DOMAIN run.mem.dbs[db]
                                  /\ ext[d].st = "whole" /\ db \in DOMAIN ext[d].is
Neglected(db) ==
  \/ Unread(db)
  \/ \E expected \in PrintIn(run.mem.prints, db).exp : ~expected \sqsubseteq BagOf(Fragments(run.mem, db))

\* A store or a manifest on a drive has files of a database that it lists again, but
\* that are gone from there: a session died before it was saved that they were removed.
Astray(db) ==
  \E d \in plugged : \E stored \in {ext[d], manifest[d]} :
    stored.st = "whole" /\ db \in DOMAIN stored.is /\ ~(stored.is[db] \cap Wanted(db) \subseteq files[d])

\* _remove_store_fingerprints, before the store is saved.
RemovePrints ==
  /\ run.pc = "prints" /\ prints' = Absent /\ run' = Step("main")
  /\ UNCHANGED <<ini, edition, option, plugged, files, main, ext, manifest, free, marked,
                 changes, troubles, defects>>

SaveMain ==
  /\ run.pc = "main"
  /\ main' = Whole([dbs |-> [db \in DOMAIN run.mem.dbs |-> run.mem.dbs[db]["base"]],
                    prints |-> Stamped(run.mem)])
  /\ run' = Step("table")
  /\ Struck((IF \E db \in DOMAIN run.mem.dbs \cap run.process : Unread(db) THEN {"moved"} ELSE {})
              \cup (IF \E db \in DOMAIN run.mem.dbs \cap run.process : Astray(db) THEN {"dangling"} ELSE {})
              \cup (IF \E db \in DOMAIN run.mem.dbs \ run.process : Neglected(db) THEN {"neglected"} ELSE {})
              \cup IF \E d \in DriveSet : ext[d].st = "torn" THEN {"torn"} ELSE {})
  /\ UNCHANGED <<ini, edition, option, plugged, files, prints, ext, manifest, free, marked,
                 changes, troubles>>

\* The folder of the main store cannot be made: nothing is written, and the run goes on
\* with nothing that it processed on record.  Only this error is an FsError; any other
\* of a write of these two files ends the process, see Crash.
SaveFails ==
  /\ run.pc = "main" /\ troubles < MaxTroubles /\ troubles' = troubles + 1
  /\ run' = IF run.kind = "update" THEN [run EXCEPT !.pc = "free", !.process = {}]
            ELSE [run EXCEPT !.pc = "config", !.done = {}, !.cleaned = FALSE]
  /\ Struck(IF run.kind = "uninstall" THEN {"half"} ELSE {})
  /\ UNCHANGED <<ini, edition, option, plugged, files, knowledge, changes>>

SavePrints ==
  /\ run.pc = "table" /\ prints' = Whole(Stamped(run.mem)) /\ run' = Step("drives")
  /\ UNCHANGED <<ini, edition, option, plugged, files, main, ext, manifest, free, marked,
                 changes, troubles, defects>>

\* The drives with fragments come first, then those that are cleaned.
NextDrives ==
  LET busy == {d \in run.left : FragmentsOn(run.mem, d) # NoMap}
  IN IF busy # {} THEN busy ELSE run.left \cap plugged

\* A database still has a fragment on a drive, of which the main store that was saved
\* expects none there.
Outlived(d) ==
  /\ ext[d].st = "whole"
  /\ \E db \in DOMAIN ext[d].is \cap DOMAIN run.mem.dbs : d \notin DOMAIN run.mem.dbs[db]

\* The store of a drive is written or removed; or it cannot be written, and what
\* there is of it may be cut, and its manifest goes.
SaveDrive(d) ==
  /\ run.pc = "drives" /\ d \in NextDrives
  /\ \/ /\ d \in plugged
        /\ ext' = [ext EXCEPT ![d] = IF FragmentsOn(run.mem, d) = NoMap THEN Absent
                                     ELSE Whole(FragmentsOn(run.mem, d))]
        /\ run' = [run EXCEPT !.pc = d, !.left = @ \ {d}]
        /\ UNCHANGED <<manifest, troubles, defects>>
     \/ /\ d \in plugged /\ FragmentsOn(run.mem, d) # NoMap
        /\ troubles < MaxTroubles /\ troubles' = troubles + 1
        /\ ext' \in {ext, [ext EXCEPT ![d] = Torn]}
        /\ manifest' = [manifest EXCEPT ![d] = Absent]
        /\ run' = [run EXCEPT !.left = @ \ {d}]
        /\ Struck((IF Outlived(d)' THEN {"outlived"} ELSE {})
                    \cup IF run.kind = "update" /\ run.failed THEN {"late"} ELSE {})
     \/ /\ d \notin plugged
        /\ run' = [run EXCEPT !.left = @ \ {d}]
        /\ UNCHANGED <<ext, manifest, troubles, defects>>
  /\ UNCHANGED <<ini, edition, option, plugged, files, main, prints, free, marked, changes>>

\* The manifest has the fragments of the databases that have a fingerprint.
SaveManifest(d) ==
  /\ run.pc = d
  /\ LET known == FragmentsOn(run.mem, d)
         kept == [db \in DOMAIN known \cap DOMAIN run.mem.prints |-> known[db]]
     IN manifest' = IF d \notin plugged THEN manifest
                    ELSE [manifest EXCEPT ![d] = IF kept = NoMap THEN Absent ELSE Whole(kept)]
  /\ run' = Step("drives")
  /\ UNCHANGED <<ini, edition, option, plugged, files, main, prints, ext, free, marked, changes,
                 troubles, defects>>

Touch ==
  /\ run.pc = "drives" /\ NextDrives = {}
  /\ marked' = TRUE /\ run' = Step(IF run.kind = "update" THEN "free" ELSE "config")
  /\ UNCHANGED <<ini, edition, option, plugged, files, main, prints, ext, manifest, free, changes,
                 troubles, defects>>

\* Another database lists the file, and it is on a drive.
Shared(db, p) ==
  /\ \E other \in Dbs \ {db} : p \in UNION Range(Editions[other])
  /\ \E d \in DriveSet : p \in files[d]

\* A fingerprint accounts for all files that are listed: they are in the base or in a
\* fragment that it expects, unless they belong to others as well.
Accounts(print, db) ==
  \A p \in Wanted(db) : \/ p \in files["base"] \/ Shared(db, p)
                       \/ \E bag \in print.exp : \E fragment \in DOMAIN bag : p \in fragment

\* When the free spaces went for a failure, a session that saves them again vouches
\* for the databases that it did not look at all the same.
VouchedFor(db) ==
  LET print == PrintIn(main.is.prints, db)
  IN main.st = "whole" /\ Unchanged(print, db) /\ ~Accounts(print, db)

\* save_free_spaces and remove_free_spaces, and the end of the run.
FreeSpaces ==
  /\ run.pc = "free"
  /\ free' = IF option = "balanced" /\ run.failed THEN Absent
             ELSE IF option # "fastest" THEN Whole(plugged) ELSE free
  /\ run' = Idle
  /\ Struck(IF /\ free.st # "whole" /\ free'.st = "whole"
               /\ \E db \in Configured(ini) \ (run.process \cup run.skipped) : VouchedFor(db)
            THEN {"vouched"} ELSE {})
  /\ UNCHANGED <<ini, edition, option, plugged, files, main, prints, ext, manifest, marked,
                 changes, troubles>>

-----------------------------------------------------------------------------
(* 4. The surroundings *)

\* The process dies, in the middle of a write or not.
Crash ==
  /\ run.pc # "idle" /\ troubles < MaxTroubles
  /\ troubles' = troubles + 1 /\ run' = Idle
  /\ \E cut \in BOOLEAN :
       /\ main' = IF cut /\ run.pc = "main" THEN Torn ELSE main
       /\ prints' = IF cut /\ run.pc = "table" THEN Torn ELSE prints
       /\ \/ ext' = ext
          \/ \E d \in plugged : /\ cut /\ run.pc = "drives" /\ d \in NextDrives
                                /\ ext' = [ext EXCEPT ![d] = Torn]
       /\ manifest' = [d \in DriveSet |-> IF cut /\ run.pc = d /\ d \in plugged THEN Torn ELSE manifest[d]]
       /\ free' = IF cut /\ run.pc = "free" /\ option # "fastest" THEN Torn ELSE free
       /\ Struck((IF run.kind = "uninstall" THEN {"half"} ELSE IF run.failed THEN {"late"} ELSE {})
            \cup IF /\ run.pc \in {"table", "drives"} \cup DriveSet
                    /\ \E d \in DriveSet : Outlived(d) THEN {"outlived"} ELSE {})
  /\ UNCHANGED <<ini, edition, option, plugged, files, marked, changes>>

\* A drive has a store or a manifest with files that are gone.
Dangling(d) ==
  \E stored \in {ext[d], manifest[d]} :
    stored.st = "whole" /\ \E db \in DOMAIN stored.is : ~(stored.is[db] \subseteq files[d])

\* Between two sessions a database has a new edition, or a drive comes or goes; one
\* may also go while a database is removed.
Change ==
  /\ changes < MaxChanges /\ changes' = changes + 1
  /\ \/ \E db \in Dbs : /\ run.pc = "idle" /\ edition[db] < Len(Editions[db])
                        /\ edition' = [edition EXCEPT ![db] = @ + 1]
                        /\ UNCHANGED <<plugged, defects>>
     \/ \E d \in DriveSet : /\ run.pc = "idle" \/ (run.pc = "remove" /\ d \in plugged)
                            /\ plugged' = IF d \in plugged THEN plugged \ {d} ELSE plugged \cup {d}
                            /\ Struck(IF d \in plugged /\ Dangling(d) THEN {"dangling"} ELSE {})
                            /\ UNCHANGED edition
  /\ UNCHANGED <<ini, option, files, knowledge, run, troubles>>

Update ==
  \/ Begin \/ Import \/ RemovePrints \/ SaveMain \/ SavePrints \/ Touch \/ FreeSpaces
  \/ \E d \in DriveSet : SaveDrive(d) \/ SaveManifest(d)
=============================================================================
