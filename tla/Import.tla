------------------------------- MODULE Import -------------------------------
(***************************************************************************)
(* Runs of the updater over several databases that share a disk: what the  *)
(* index jobs of a run claim, check and reserve (jobs/process_*_worker.py, *)
(* reporters.py), what is fetched, and what the importer then makes of the *)
(* results on the disk and in the local store (online_importer.py).        *)
(*                                                                         *)
(* The scenario of a behaviour, its world, is chosen at the start.  A file *)
(* is known by its path, a content by its hash.  The steps within the      *)
(* installation of one file are those of module FileInstall.               *)
(***************************************************************************)
EXTENDS Selection

CONSTANTS
  Worlds,      \* the scenarios
  Cores,       \* the paths that end in .rbf
  MaxChanges,  \* bound: what the user and the maintainers change between runs
  MaxCrashes,  \* bound: runs that are killed
  MaxFailures  \* bound: failures on the way, over all runs

\* An index: items at known paths.
EntryFields == {"hash", "zip", "pext", "tags", "overwrite", "tangle"}
IsIndex(items) ==
  DOMAIN items \subseteq DOMAIN Key /\ \A p \in DOMAIN items : DOMAIN items[p] = EntryFields

\* What a scenario is made of.
ASSUME ImportAssumption ==
  /\ IsFiniteSet(DOMAIN Key)
  /\ Drives \in Seq(DriveSet) /\ "base" \notin DriveSet
  /\ \A w \in Worlds :
       /\ DOMAIN w.disk = {"base"} \cup DriveSet
       /\ \A place \in DOMAIN w.disk : DOMAIN w.disk[place] \subseteq Range(Key) \cup DOMAIN Key
       /\ \A place \in DOMAIN w.room : w.room[place] \in Nat \ {0}
       /\ \A db \in DOMAIN w.editions :
            /\ w.editions[db] \in Seq(Range(w.editions[db])) /\ w.editions[db] # <<>>
            /\ \A i \in DOMAIN w.editions[db] :
                 /\ IsIndex(w.editions[db][i].items)
                 /\ \A z \in DOMAIN w.editions[db][i].zips : IsIndex(w.editions[db][i].zips[z].items)

VARIABLES
  world,     \* the scenario
  setup,     \* the options of the user, the databases in the ini, the drives there
  edition,   \* db -> number of its edition that is published
  disk,      \* place -> path as that file system knows it -> content
  saved,     \* db -> its store, the parts on the drives included
  trust,     \* the free spaces were saved: a balanced run may take the fastest mode
  run,       \* the run that is going on
  changes, crashes, failures,   \* how many there were
  defects    \* the known defects of the code that have struck, see section 6

vars == <<world, setup, edition, disk, saved, trust, run, changes, crashes, failures, defects>>

Dbs == DOMAIN world.editions
Published(db) == world.editions[db][edition[db]]
Parts(db) == {"main"} \cup DOMAIN Published(db).zips
KeyAt(place, p) == IF place = "base" THEN Key[p] ELSE p
IsThere(place, p) == KeyAt(place, p) \in DOMAIN disk[place]
Content(place, p) == disk[place][KeyAt(place, p)]
Has(place, p, hash) == IsThere(place, p) /\ Content(place, p) = hash
DrivesWithFolder == [p \in DOMAIN Key |-> {d \in DriveSet : p \in DOMAIN disk[d]}]
\* The place is deduced once for each second folder, and kept for the run.
Place(p, entry) == PlaceOf(p, entry, setup.options.priority, setup.drives, run.folders)
Terms == DbFilter(setup.options.filter, NotGiven, NotGiven)
Files(items) == {p \in DOMAIN items : ~IsDir(items[p])}
Folders(items) == DOMAIN items \ Files(items)

NoJob == [st |-> "todo", items |-> NoMap, left |-> NoMap, new |-> {}, dup |-> {},
          gone |-> NoMap, need |-> {}, present |-> {}, repeated |-> {},
          got |-> {}, bad |-> {}, fresh |-> FALSE, full |-> FALSE]
NoRun == [pc |-> "idle"]

Setups == [options : world.options, ini : world.inis, drives : world.plugged]

Init ==
  /\ world \in Worlds
  /\ setup \in Setups
  /\ edition = [db \in Dbs |-> 1]
  /\ disk = world.disk
  /\ saved = [db \in Dbs |-> EmptyStore]
  /\ trust = FALSE /\ run = NoRun
  /\ changes = 0 /\ crashes = 0 /\ failures = 0 /\ defects = {}

-----------------------------------------------------------------------------
(* 1. The start of a run *)

Jobs(db) == run.jobs[db]
Running(db) == run.db[db] = "run"
SetJob(db, part, j) == [run EXCEPT !.jobs[db] = Put(@, part, j)]
Struck(S) == defects' = defects \cup S

\* The store is loaded with the parts on the drives that are there.
Loaded(db) == [saved[db] EXCEPT !.ext = Restrict(@, DOMAIN @ \cap setup.drives)]

\* FileCheckingModeResolver: what 'balanced' means this time.
ModeOf(checking) ==
  IF checking # "balanced" THEN checking ELSE IF trust THEN "fastest" ELSE "exhaustive"

Begin ==
  /\ run.pc = "idle"
  /\ run' = [pc |-> "index", mode |-> ModeOf(setup.options.checking), folders |-> DrivesWithFolder,
             mem |-> [db \in Dbs |-> Loaded(db)],
             db |-> [db \in Dbs |-> IF db \in setup.ini THEN "open" ELSE "none"],
             claimed |-> {}, room |-> world.room, failed |-> FALSE,
             jobs |-> [db \in Dbs |-> NoMap]]
  /\ UNCHANGED <<world, setup, edition, disk, saved, trust, changes, crashes, failures, defects>>

PrintOf(db) == [hash |-> Published(db).hash, filter |-> Terms]
DrivesThere(db) == DOMAIN saved[db].ext \subseteq setup.drives

\* can_skip_db and all_store_drives_connected.
CanSkip(db) ==
  /\ run.mode = "fastest" /\ run.mem[db].print = PrintOf(db)
  /\ DrivesThere(db)

\* OpenDbWorker, MixStoreAndDbWorker and ProcessDbMainWorker: the database is
\* skipped, or one index job is made for each archive and one for the rest; or it
\* cannot be had, or is not valid.  A part of the store that is away takes the
\* entries of archives with it.
Open(db) ==
  /\ run.pc = "index" /\ run.db[db] = "open"
  /\ \/ /\ CanSkip(db)
        /\ run' = [run EXCEPT !.db[db] = "skipped"]
        /\ UNCHANGED <<failures, defects>>
     \/ /\ ~CanSkip(db)
        /\ run' = [run EXCEPT !.db[db] = "run", !.jobs[db] = [part \in Parts(db) |-> NoJob]]
        /\ Struck(IF ~DrivesThere(db) /\ DOMAIN saved[db].zips # {} THEN {"away"} ELSE {})
        /\ UNCHANGED failures
     \/ /\ failures < MaxFailures /\ failures' = failures + 1
        /\ \E lost \in BOOLEAN :
             run' = [run EXCEPT !.db[db] = IF lost THEN "lost" ELSE "failed", !.failed = @ \/ lost]
        /\ UNCHANGED defects
  /\ UNCHANGED <<world, setup, edition, disk, saved, trust, changes, crashes>>

-----------------------------------------------------------------------------
(* 2. The index jobs *)

Ended(j) == j.st \in {"checked", "failed"}
Archives(db) == Parts(db) \ {"main"}

\* The index of a part, whether it is a new summary, and whether it took one more
\* failure to get it: a stored summary serves when its hash is the published one,
\* and when the published one cannot be had.
IndexOf(db, part) ==
  IF part = "main" THEN {[items |-> Published(db).items, fresh |-> FALSE, fails |-> 0]}
  ELSE LET stored == ZipSummary(run.mem[db], part)
           known == part \in DOMAIN run.mem[db].zips
           published == Published(db).zips[part]
       IN IF stored # NoMap /\ known /\ run.mem[db].zips[part] = published.hash
          THEN {[items |-> stored, fresh |-> FALSE, fails |-> 0]}
          ELSE {[items |-> published.items, fresh |-> TRUE, fails |-> 0],
                [items |-> stored, fresh |-> FALSE, fails |-> 1]}

\* What the store has of the part: the paths of an archive, or those of no archive
\* whose index was processed (WaitDbZipsWorker).
StoredPart(db, part, items) ==
  IF part # "main" THEN Select(run.mem[db], DOMAIN items)
  ELSE DeselectAll(run.mem[db],
         UNION {DOMAIN Jobs(db)[z].items : z \in {y \in Archives(db) : Jobs(db)[y].st = "checked"}})

\* add_processed_files: under the lock of the report, the first index job that comes
\* with a path owns it.
Taken(items) == Files(items) \cap run.claimed

\* select_filtered_files, create_packages_from_index and add_processed_files; a bad
\* filter, or no summary at all, fails the job.
Claim(db, part) ==
  /\ run.pc = "index" /\ Running(db) /\ Jobs(db)[part].st = "todo"
  /\ part = "main" => \A z \in Archives(db) : Ended(Jobs(db)[z]) /\ ~Jobs(db)[z].full
  /\ \E index \in IndexOf(db, part) :
       LET left == FilteredPaths(Terms, index.items)
           items == Less(index.items, left)
           failed == BadFilter(Terms) \/ (index.fails > 0 /\ index.items = NoMap)
           j == [NoJob EXCEPT !.st = "claimed", !.items = items, !.fresh = index.fresh,
                   !.left = Restrict(index.items, left),
                   !.new = Files(items) \ Taken(items), !.dup = Taken(items),
                   !.gone = Less(AllItems(StoredPart(db, part, index.items)), DOMAIN items)]
       IN /\ failures + index.fails <= MaxFailures
          /\ failures' = failures + index.fails
          /\ run' = IF failed
                    THEN [SetJob(db, part, [NoJob EXCEPT !.st = "failed"])
                            EXCEPT !.failed = @ \/ index.fails > 0]
                    ELSE [SetJob(db, part, j) EXCEPT !.claimed = @ \cup Files(items),
                                                     !.failed = @ \/ index.fails > 0]
  /\ UNCHANGED <<world, setup, edition, disk, saved, trust, changes, crashes, defects>>

\* process_check_file_packages and what follows it, for the files of job j: those
\* to install, those that turn out to be there, those to leave alone.
At(j, p) == Place(p, j.items[p])
Missing(j) == {p \in j.new : ~IsThere(At(j, p), p)}
Unsure(db, j) ==
  {p \in j.new \ Missing(j) : ~ValidHash(run.mem[db], At(j, p), p, j.items[p].hash)}
Same(j, S) == {p \in S : Has(At(j, p), p, j.items[p].hash)}
Changed(db, j) == {p \in Unsure(db, j) \ Same(j, Unsure(db, j)) : j.items[p].overwrite}
Corrupt(db, j) ==
  IF run.mode # "verify" THEN {}
  ELSE LET sure == j.new \ (Missing(j) \cup Unsure(db, j)) IN sure \ Same(j, sure)
Need(db, j) == Missing(j) \cup Changed(db, j) \cup Corrupt(db, j)

\* check_repeated_store_presence.
Repeated(db, j, paths) ==
  {p \in paths : At(j, p) # "base"
                 /\ \E other \in OtherPlaces(run.mem[db], p, At(j, p)) : IsThere(other, p)}

\* The reservation, all or nothing: each file takes one unit of its partition, of
\* which something has to stay free.
Demand(j, need, place) == Cardinality({p \in need : At(j, p) = place})

\* Faulty variant: nothing has to stay free.
FitsExactly(j, need) ==
  \A place \in DOMAIN run.room : Demand(j, need, place) > 0 => run.room[place] >= Demand(j, need, place)

Fits(j, need) ==
  \A place \in DOMAIN run.room : Demand(j, need, place) > 0 => run.room[place] > Demand(j, need, place)
Reserved(j, need) == [place \in DOMAIN run.room |-> run.room[place] - Demand(j, need, place)]

\* process_create_folder_packages.
Made(j, place) == {q \in Folders(j.items) : At(j, q) = place}

\* The rest of process_index_job_main_sequence.  The job fails when its files do not
\* fit, or when a folder cannot be made; its space stays reserved then.
Check(db, part) ==
  /\ run.pc = "index" /\ Running(db) /\ Jobs(db)[part].st = "claimed"
  /\ LET j == Jobs(db)[part]
         need == Need(db, j)
         present == Same(j, Unsure(db, j))
         checked == [j EXCEPT !.st = "checked", !.need = need, !.present = present,
                              !.repeated = Repeated(db, j, need \cup present)]
     IN \/ /\ Fits(j, need)
           /\ run' = [SetJob(db, part, checked) EXCEPT !.room = Reserved(j, need)]
           /\ disk' = [place \in DOMAIN disk |-> Over([p \in Made(j, place) |-> "dir"], disk[place])]
           /\ UNCHANGED <<failures, defects>>
        \/ /\ ~Fits(j, need)
           /\ run' = [SetJob(db, part, [NoJob EXCEPT !.st = "failed", !.full = TRUE])
                        EXCEPT !.failed = TRUE]
           /\ Struck({"full"}) /\ UNCHANGED <<disk, failures>>
        \/ /\ Fits(j, need) /\ Folders(j.items) # {}
           /\ failures < MaxFailures /\ failures' = failures + 1
           /\ run' = [SetJob(db, part, [NoJob EXCEPT !.st = "failed"]) EXCEPT !.room = Reserved(j, need)]
           /\ Struck({"folder"}) /\ UNCHANGED disk
  /\ UNCHANGED <<world, setup, edition, saved, trust, changes, crashes>>

-----------------------------------------------------------------------------
(* 3. The transfers *)

\* A file is written in its place (module FileInstall), or all tries fail.  For one
\* of an archive that is not in the store yet, the summary goes wrong then.
Fetch(db, part, p) ==
  /\ run.pc = "index" /\ Running(db) /\ p \in Jobs(db)[part].need
  /\ LET j == Jobs(db)[part]
         place == At(j, p)
     IN \/ /\ disk' = [disk EXCEPT ![place] = Put(@, KeyAt(place, p), j.items[p].hash)]
           /\ run' = SetJob(db, part, [j EXCEPT !.need = @ \ {p}, !.got = @ \cup {p}])
           /\ UNCHANGED <<failures, defects>>
        \/ /\ failures < MaxFailures /\ failures' = failures + 1
           /\ run' = [SetJob(db, part, [j EXCEPT !.need = @ \ {p}, !.bad = @ \cup {p}])
                        EXCEPT !.failed = TRUE]
           /\ Struck(IF j.fresh \/ (part # "main" /\ p \notin DOMAIN AllItems(run.mem[db]))
                     THEN {"archive"} ELSE {})
           /\ UNCHANGED disk
  /\ UNCHANGED <<world, setup, edition, saved, trust, changes, crashes>>

-----------------------------------------------------------------------------
(* 4. The importer *)

\* The files of a database that the filter lets through.
Wanted(db) ==
  LET all == [part \in Parts(db) |->
                IF part = "main" THEN Published(db).items ELSE Published(db).zips[part].items]
  IN UNION {LET items == all[part] IN {<<p, items[p]>> : p \in Files(items) \ FilteredPaths(Terms, items)}
            : part \in DOMAIN all}

JobsOver ==
  \A db \in Dbs :
    /\ run.db[db] # "open"
    /\ \A part \in DOMAIN Jobs(db) :
         /\ Ended(Jobs(db)[part]) \/ (part = "main" /\ \E z \in Archives(db) : Jobs(db)[z].full)
         /\ Jobs(db)[part].need = {}

Checked == {c \in UNION {{<<db, part>> : part \in DOMAIN Jobs(db)} : db \in Dbs} :
              Jobs(c[1])[c[2]].st = "checked"}
Job(c) == Jobs(c[1])[c[2]]
Installed(j) == j.got \cup j.present

\* The paths that a running database no longer has, and which ones they are.
Dropped(dir) == UNION {{p \in DOMAIN Job(c).gone : IsDir(Job(c).gone[p]) = dir} : c \in Checked}
Consumers(p) == {c[1] : c \in {e \in Checked : p \in DOMAIN Job(e).gone}}
GoneEntry(p) == Job(CHOOSE c \in Checked : p \in DOMAIN Job(c).gone).gone[p]
GonePlace(p) == Place(p, GoneEntry(p))

\* matching_paths_ci: a store that does not drop the path still has it.
ClaimedByOther(key, dir) ==
  \E db \in Dbs : /\ key \in ClaimedKeys(run.mem[db], dir)
                  /\ \A p \in Dropped(dir) : Key[p] = key => db \notin Consumers(p)

\* is_entangled_with: the old files stay when one of the new ones could not be had.
FailedTangles == UNION {UNION {Job(c).items[p].tangle : p \in Job(c).bad} : c \in Checked}
Freed == {p \in Dropped(FALSE) : GoneEntry(p).tangle \cap FailedTangles = {}}

Processed == {Key[p] : p \in UNION {Job(c).new : c \in Checked}}

\* Faulty variant: what the other stores claim is removed too.
RemovedUnclaimed ==
  {p \in Freed : Key[p] \notin Processed /\ p = CHOOSE q \in Freed : Key[q] = Key[p]}

\* Of the paths that differ in case only, one is removed.
Removed ==
  {p \in Freed : /\ Key[p] \notin Processed /\ ~ClaimedByOther(Key[p], FALSE)
                 /\ p = CHOOSE q \in Freed : Key[q] = Key[p]}

Deletable(p) ==
  \/ setup.options.delete = "all"
  \/ setup.options.delete = "old_rbf" /\ p \in Cores

\* Faulty variant: the other copies of a file are left.
UnlinkOne == {<<GonePlace(p), p>> : p \in {q \in Removed : Deletable(q)}}

\* All the places where the stores have it, and the base.
Unlinks ==
  UNION {{<<place, p>> : place \in {GonePlace(p), "base"}
                           \cup UNION {OtherPlaces(run.mem[db], p, GonePlace(p)) : db \in Consumers(p)}}
         : p \in {q \in Removed : Deletable(q)}}

Without(d, S) == [place \in DOMAIN d |-> Less(d[place], {KeyAt(u[1], u[2]) : u \in {v \in S : v[1] = place}})]
IsFileAt(u) == IsThere(u[1], u[2]) /\ Content(u[1], u[2]) # "dir"

\* Folders: kept when they are in use, and when there is something in them.
InUse(p) ==
  \/ p \in UNION {Folders(Job(c).items) : c \in Checked}
  \/ ClaimedByOther(Key[p], TRUE)
IsFolderAt(d, u) ==
  KeyAt(u[1], u[2]) \in DOMAIN d[u[1]] /\ d[u[1]][KeyAt(u[1], u[2])] = "dir"
HasItems(d, place, p) == \E q \in DOMAIN d[place] : q # p /\ FolderOf[q] = p
DroppedFolders(d) ==
  {p \in Dropped(TRUE) : ~InUse(p) /\ ~HasItems(d, GonePlace(p), p)}
RemovedFolders(d) ==
  IF setup.options.delete # "all" THEN {}
  ELSE {u \in UNION {{<<place, p>> : place \in {"base"} \cup (IF FolderOf[p] = p THEN {} ELSE {GonePlace(p)})}
                     : p \in DroppedFolders(d)} : IsFolderAt(d, u) /\ ~HasItems(d, u[1], u[2])}

\* A folder that is in use is forgotten on the base only; a second folder on a
\* drive stays in the store.
ForgetFolders(s, db, d) ==
  LET mine == {p \in Dropped(TRUE) : db \in Consumers(p)}
      local == {p \in mine : InUse(p) \/ (p \in DroppedFolders(d) /\ (GonePlace(p) = "base" \/ ~HasItems(d, "base", p)))}
      outside(e) == {p \in mine \cap DroppedFolders(d) : GonePlace(p) = e /\ FolderOf[p] # p}
  IN [s EXCEPT !.base = Less(@, local), !.ext = [e \in DOMAIN @ |-> Less(@[e], outside(e))]]

\* displace_file_ownership: what was installed is no longer of a store that did
\* not take part; when it was written over, that database is to be processed.
Written == UNION {Job(c).got : c \in Checked}
NewNames == UNION {Installed(Job(c)) : c \in Checked}

\* Faulty variant: a store that did not take part keeps its claims.
DisplaceNone(s) == s

Displace(s) ==
  LET lost == MatchingFiles(s, NewNames)
      left == Forget(s, lost)
  IN IF \E p \in lost, q \in Written : Key[p] = Key[q] THEN InvalidatePrint(left) ELSE left

\* The items with the paths f has for each part; of several with the same path, one.
PartOf(f, p) == CHOOSE part \in DOMAIN f : p \in f[part]
Gathered(db, f) == [p \in UNION Range(f) |-> Jobs(db)[PartOf(f, p)].items[p]]

\* add_file_pkg and add_folder_pkg, and remove_folder_pkg for the copies of folders
\* that are no longer there.
Install(s, db, parts) ==
  LET items == Gathered(db, [part \in parts |-> Installed(Jobs(db)[part]) \cup Folders(Jobs(db)[part].items)])
      places == [p \in DOMAIN items |-> Place(p, items[p])]
      copies(e) == {p \in Folders(items) : e \in OtherPlaces(s, p, places[p]) /\ ~IsThere(e, p)}
      added == AddPkgs(s, items, places, UNION {Jobs(db)[part].repeated : part \in parts})
  IN [added EXCEPT !.base = Less(@, copies("base")),
                   !.ext = [e \in DOMAIN @ |-> Less(@[e], copies(e))]]

\* The summaries that are new, the paths of each in the place of one of them.
Summarise(s, db, archives) ==
  LET paths == [z \in {y \in archives : Jobs(db)[y].fresh} |-> DOMAIN Jobs(db)[z].items]
      items == Gathered(db, paths)
      places == [p \in DOMAIN items |-> LET z == PartOf(paths, p)
                                        IN At(Jobs(db)[z], CHOOSE q \in paths[z] : TRUE)]
  IN AddZipSummaries(s, [z \in DOMAIN paths |-> Published(db).zips[z].hash], items, places)

\* What the importer makes of the store of a database that was processed.
Imported(db, d) ==
  LET parts == {part \in DOMAIN Jobs(db) : <<db, part>> \in Checked}
      archives == parts \ {"main"}
      known == RemoveZips(SetPrint(run.mem[db], PrintOf(db)),
                          DOMAIN run.mem[db].zips \ Archives(db))
      forgot == ForgetFolders(Forget(known, {p \in Freed : db \in Consumers(p)}), db, d)
      installed == Install(forgot, db, parts)
  IN CleanExternals(IF archives = {} THEN installed
                    ELSE SaveFiltered(Summarise(installed, db, archives),
                                      [z \in archives |-> Jobs(db)[z].left]))

StoreAfter(db, d) ==
  CASE run.db[db] = "run" -> Imported(db, d)
    [] run.db[db] \in {"skipped", "none"} -> Displace(run.mem[db])
    [] OTHER -> run.mem[db]

\* The known defects that strike here: a database that did not make way keeps the
\* claim of a file that another one wrote over; one that did loses a file of an
\* archive from the summary; a file goes that a database which did not run wants
\* too, but never had in its store; or that a database goes on claiming in another
\* spelling than the one it dropped; or whose owner failed; a file is written over
\* by a new spelling of it while the old one may not go; the filtered files of an
\* archive that failed are lost.
Defects(d) ==
  LET away(db) == run.db[db] \in {"skipped", "none"}
      shared(db, c) ==
        LET all == AllItems(StoreAfter(db, d))
        IN \E p \in DOMAIN all, q \in Installed(Job(c)) :
             Key[p] = Key[q] /\ all[p].hash # Job(c).items[q].hash
      displaced(db) ==
        \E p \in MatchingFiles(run.mem[db], NewNames) : AllItems(run.mem[db])[p].zip # "none"
      dropped(db) == \E p \in Removed, w \in Wanted(db) : Key[p] = Key[w[1]]
      cased(db) ==
        LET kept == Forget(run.mem[db], {q \in Freed : db \in Consumers(q)})
        IN \E p \in Removed, q \in Dropped(FALSE) :
             Key[p] = Key[q] /\ db \in Consumers(q) /\ Key[p] \in ClaimedKeys(kept, FALSE)
      unowned(db) == \E c \in Checked : c[1] = db /\ Job(c).dup \cap Removed # {}
      renamed(db) ==
        \E c \in Checked : \E p \in Dropped(FALSE) \ Freed, q \in Job(c).got :
          c[1] = db /\ db \in Consumers(p) /\ Key[p] = Key[q]
      filtered(db) ==
        /\ \E z \in DOMAIN run.mem[db].filtered \cap DOMAIN Jobs(db) : <<db, z>> \notin Checked
        /\ \E y \in DOMAIN Jobs(db) \ {"main"} : <<db, y>> \in Checked
  IN {e \in {"shared", "displaced", "dropped", "cased", "unowned", "renamed", "filtered"} : \E db \in Dbs :
        \/ e = "shared" /\ ~away(db) /\ \E c \in Checked : c[1] # db /\ shared(db, c)
        \/ e = "displaced" /\ away(db) /\ displaced(db)
        \/ e = "dropped" /\ ~Running(db) /\ dropped(db)
        \/ e = "cased" /\ cased(db)
        \/ e = "unowned" /\ unowned(db)
        \/ e = "renamed" /\ renamed(db)
        \/ e = "filtered" /\ filtered(db)}

\* A duplicate whose owner failed is in no table: the session dies with its work
\* on the disk done and nothing of it in the store.
NoOwner ==
  ~(UNION {Job(c).dup : c \in Checked} \subseteq Removed \cup UNION {Job(c).new : c \in Checked})

\* All sources lost is a problem of the network, and ends the run at once.
NoNetwork == \A db \in setup.ini : run.db[db] = "lost"

\* download_dbs_contents, once the jobs are over.  A file may fail to be removed.
Apply ==
  /\ run.pc = "index" /\ JobsOver
  /\ \E kept \in {{}} \cup {{u} : u \in {v \in Unlinks : IsFileAt(v)}} :
       LET d == Without(disk, {u \in Unlinks \ kept : IsFileAt(u)})
       IN /\ failures + Cardinality(kept) <= MaxFailures
          /\ failures' = failures + Cardinality(kept)
          /\ Struck((IF kept = {} THEN {} ELSE {"kept"})
                      \cup IF NoOwner THEN {"unsaved"} ELSE Defects(d))
          /\ IF NoNetwork THEN run' = NoRun /\ UNCHANGED disk
             ELSE IF NoOwner THEN run' = NoRun /\ disk' = d
             ELSE /\ disk' = Without(d, RemovedFolders(d))
                  /\ run' = [pc |-> "save", failed |-> run.failed, done |-> {db \in Dbs : Running(db)},
                             mem |-> [db \in Dbs |-> StoreAfter(db, d)]]
  /\ UNCHANGED <<world, setup, edition, saved, trust, changes, crashes>>

\* save_store: the parts on drives that are away stay as they are.
Save ==
  /\ run.pc = "save"
  /\ saved' = [db \in Dbs |->
       [run.mem[db] EXCEPT !.ext = Over(@, Restrict(saved[db].ext, DOMAIN saved[db].ext \ setup.drives))]]
  /\ run' = [pc |-> "trust", failed |-> run.failed, done |-> run.done]
  /\ UNCHANGED <<world, setup, edition, disk, trust, changes, crashes, failures, defects>>

\* Faulty variant: a run with failures vouches for the disk.
RememberAlways ==
  /\ run.pc = "trust"
  /\ trust' = (trust \/ setup.options.checking # "fastest")
  /\ run' = NoRun
  /\ UNCHANGED <<world, setup, edition, disk, saved, changes, crashes, failures, defects>>

\* save_free_spaces and remove_free_spaces: only a balanced run cares for failures.
Remember ==
  /\ run.pc = "trust"
  /\ trust' = IF setup.options.checking = "balanced" THEN ~run.failed
              ELSE trust \/ setup.options.checking # "fastest"
  /\ Struck(IF run.failed /\ trust' THEN {"vouched"} ELSE {})
  /\ run' = NoRun
  /\ UNCHANGED <<world, setup, edition, disk, saved, changes, crashes, failures>>

-----------------------------------------------------------------------------
(* 5. The surroundings *)

\* A file of the store was replaced or removed, and the store is up to date.
Outdated(db) ==
  /\ saved[db].print.hash = Published(db).hash
  /\ \E place \in DOMAIN disk, p \in DOMAIN AllItems(saved[db]) :
       LET section == Section(saved[db], place)
       IN p \in DOMAIN section /\ ~Has(place, p, section[p].hash)

\* The process is killed; "late" when the free spaces of an earlier run go on
\* vouching for the disk, or the files of a database were replaced for another one.
Crash ==
  /\ run.pc # "idle" /\ crashes < MaxCrashes
  /\ crashes' = crashes + 1 /\ run' = NoRun
  /\ Struck(IF (trust /\ run.pc = "trust" /\ run.failed) \/ \E db \in Dbs : Outdated(db)
            THEN {"late"} ELSE {})
  /\ UNCHANGED <<world, setup, edition, disk, saved, trust, changes, failures>>

\* Between two runs: a database has a new edition, the user changes an option or
\* the ini, a drive comes or goes, which changes the free spaces.
Change ==
  /\ run.pc = "idle" /\ changes < MaxChanges /\ changes' = changes + 1
  /\ \/ \E db \in Dbs : /\ edition[db] < Len(world.editions[db])
                        /\ edition' = [edition EXCEPT ![db] = @ + 1]
                        /\ UNCHANGED <<setup, trust>>
     \/ /\ setup' \in Setups \ {setup}
        /\ trust' = (trust /\ setup'.drives = setup.drives)
        /\ UNCHANGED edition
  /\ UNCHANGED <<world, disk, saved, run, crashes, failures, defects>>

Step(db) ==
  \/ Open(db)
  \/ \E part \in DOMAIN Jobs(db) :
       \/ Claim(db, part) \/ Check(db, part)
       \/ \E p \in Jobs(db)[part].need : Fetch(db, part, p)

Work ==
  \/ Begin \/ Apply \/ Save \/ Remember
  \/ (run.pc = "index" /\ \E db \in Dbs : Step(db))

Next == Work \/ Crash \/ Change
Spec == Init /\ [][Next]_vars
\* The updater is started again and again, and its jobs go on.
FairSpec == Spec /\ WF_vars(Work)

-----------------------------------------------------------------------------
(* 6. Properties *)

\* The types of the variables, and what is known of their bounds.
ImportTypeOK ==
  /\ setup \in Setups /\ trust \in BOOLEAN
  /\ run.pc \in {"idle", "index", "save", "trust"}
  /\ DOMAIN disk = {"base"} \cup DriveSet
  /\ \A place \in DOMAIN disk : DOMAIN disk[place] \subseteq Range(Key) \cup DOMAIN Key
  /\ run.pc = "index" => \A place \in DOMAIN run.room : run.room[place] > 0

Claims(s, place, p) == p \in DOMAIN Section(s, place)
ClaimsFile(s, place, p) == Claims(s, place, p) /\ ~IsDir(Section(s, place)[p])

\* A run never removes a file that a store claims when the run is over, in that
\* place and whatever the case of the letters, be its database processed, skipped,
\* failed or not even configured (the claim backstop of online_importer.py).  Two
\* known defects aside: a database that dropped one spelling is not asked for the
\* others, and a duplicate whose owner failed is not known to be wanted.
ClaimedKept ==
  [][run.pc = "index" /\ run'.pc = "save" /\ defects' \cap {"cased", "unowned"} = {} =>
       \A place \in DOMAIN disk : \A k \in DOMAIN disk[place] \ DOMAIN disk'[place] :
         disk[place][k] # "dir" =>
           ~\E db \in Dbs, p \in DOMAIN Key :
              KeyAt(place, p) = k /\ ClaimsFile(run'.mem[db], place, p)]_vars

\* Between runs, a file that is there has the content its store says, or that
\* database is going to be processed whatever the mode: nothing the store vouches
\* for was written over behind its back.
RecordedIsOnDisk ==
  run.pc = "idle" /\ crashes = 0 /\ defects = {} =>
    \A db \in Dbs : \A place \in {"base"} \cup setup.drives : \A p \in DOMAIN Key :
      Claims(saved[db], place, p) /\ IsThere(place, p) =>
        Has(place, p, Section(saved[db], place)[p].hash)

\* Contents that some edition has, as opposed to what the user put there.
Ours ==
  {h \in UNION {UNION {{world.editions[db][i].items[p].hash : p \in DOMAIN world.editions[db][i].items}
                         : i \in DOMAIN world.editions[db]} : db \in Dbs} : h # "dir"}

\* Between runs, every file that was installed is claimed by a store, so that it
\* is removed when its database drops it.
NoOrphans ==
  run.pc = "idle" /\ crashes = 0 /\ failures = 0 /\ defects = {} =>
    \A place \in DOMAIN disk : \A k \in DOMAIN disk[place] :
      disk[place][k] \in Ours =>
        \E db \in Dbs, p \in DOMAIN Key : KeyAt(place, p) = k /\ Claims(saved[db], place, p)

\* The content in a place where p may go, from any database in the ini.
IsServed(p) ==
  \E place \in {"base"} \cup setup.drives : \E db \in setup.ini : \E w \in Wanted(db) :
    Key[w[1]] = Key[p] /\ (Has(place, p, w[2].hash) \/ (IsThere(place, p) /\ ~w[2].overwrite))

Complete(db) == \A w \in Wanted(db) : IsServed(w[1])

\* A balanced run that is going to skip a database is right to: all its files are
\* there.
SkippedIsComplete ==
  run.pc = "idle" /\ defects = {} /\ trust /\ ~BadFilter(Terms) =>
    \A db \in setup.ini : saved[db].print = PrintOf(db) /\ DrivesThere(db) => Complete(db)

\* When nothing changes any more, the runs end up with every file that is wanted
\* and fits on the disk.  The fastest mode does not look again after a failure.
Converges ==
  <>[](\/ defects # {} \/ BadFilter(Terms)
       \/ setup.options.checking = "fastest" /\ failures > 0
       \/ \A db \in setup.ini : Complete(db))

=============================================================================
