--------------------------- MODULE StoreWrapper ---------------------------
(***************************************************************************)
(* What the local store keeps of one database (local_store_wrapper.py),    *)
(* and what its adapters read from it and write into it.  A store is       *)
(*   base      path -> entry, the installed files and folders              *)
(*   ext       drive -> path -> entry, those on external drives            *)
(*   zips      archive -> hash of its summary                              *)
(*   filtered  archive -> path -> entry, what a filter left out of it      *)
(*   print     the fingerprint of the database it was last updated to      *)
(* An entry has the hash ("dir" for a folder), the archive it comes from   *)
(* or "none", whether its place is to be deduced ("pext"), and its tags,   *)
(* which only entries of archives keep.                                    *)
(***************************************************************************)
EXTENDS Naturals, Sequences, Functions, FiniteSetsExt

CONSTANTS
  Drives,    \* external drives, in the order of their priority
  Key        \* path -> the same path in lower case

NoMap == [p \in {} |-> "none"]
NoPrint == [hash |-> "none", filter |-> {}]
EmptyStore == [base |-> NoMap, ext |-> NoMap, zips |-> NoMap, filtered |-> NoMap,
               print |-> NoPrint]

DriveSet == Range(Drives)
IsDir(entry) == entry.hash = "dir"
\* Partial functions: what is left without some keys; one over another; one key set.
Less(f, S) == Restrict(f, DOMAIN f \ S)
Over(f, g) == [k \in DOMAIN f \cup DOMAIN g |-> IF k \in DOMAIN f THEN f[k] ELSE g[k]]
Put(f, k, v) == Over([x \in {k} |-> v], f)
OnDrive(s, d) == IF d \in DOMAIN s.ext THEN s.ext[d] ELSE NoMap
Section(s, place) == IF place = "base" THEN s.base ELSE OnDrive(s, place)
DrivesWith(s, p) == {d \in DOMAIN s.ext : p \in DOMAIN s.ext[d]}
FirstOf(S) == Drives[CHOOSE i \in DOMAIN Drives :
                       Drives[i] \in S /\ \A j \in 1..i-1 : Drives[j] \notin S]

-----------------------------------------------------------------------------
(* Reading *)

\* all_files and all_folders: the base comes first.
AllItems(s) ==
  [p \in DOMAIN s.base \cup UNION {DOMAIN s.ext[d] : d \in DOMAIN s.ext} |->
     IF p \in DOMAIN s.base THEN s.base[p] ELSE s.ext[FirstOf(DrivesWith(s, p))][p]]

\* select and deselect_all: the part of the store with, or without, some paths.
Select(s, paths) ==
  [s EXCEPT !.base = Restrict(@, DOMAIN @ \cap paths),
            !.ext = [d \in DOMAIN @ |-> Restrict(@[d], DOMAIN @[d] \cap paths)]]
DeselectAll(s, paths) == Select(s, DOMAIN AllItems(s) \ paths)

\* invalid_hashes: what the store knows of a file in its place has this hash.
ValidHash(s, place, p, hash) ==
  p \in DOMAIN Section(s, place) /\ Section(s, place)[p].hash = hash

\* zip_summaries: the archives that some entry names, with the entries that name
\* them and those that were filtered out, as the index of that archive.
ZipSummary(s, z) ==
  LET all == AllItems(s)
      own == {p \in DOMAIN all : all[p].zip = z}
  IN Over(Restrict(all, own), IF z \in DOMAIN s.filtered THEN s.filtered[z] ELSE NoMap)

\* matching_files (files only): the base is a FAT file system, a drive may not be.
MatchingFiles(s, paths) ==
  {p \in DOMAIN s.base : ~IsDir(s.base[p]) /\ \E q \in paths : Key[p] = Key[q]}
  \cup UNION {{p \in DOMAIN s.ext[d] \cap paths : ~IsDir(s.ext[d][p])} : d \in DOMAIN s.ext}

\* matching_paths_ci: every path the store has anything at, in lower case.
ClaimedKeys(s, dir) ==
  LET keys(section) == {Key[p] : p \in {q \in DOMAIN section : IsDir(section[q]) = dir}}
  IN keys(s.base) \cup UNION {keys(s.ext[d]) : d \in DOMAIN s.ext}

\* list_other_drives_for_file and list_other_drives_for_folder.
OtherPlaces(s, p, place) ==
  (DrivesWith(s, p) \ {place})
  \cup (IF place # "base" /\ p \in DOMAIN s.base THEN {"base"} ELSE {})

-----------------------------------------------------------------------------
(* Writing *)

Stripped(entry) == IF entry.zip = "none" THEN [entry EXCEPT !.tags = {}] ELSE entry
\* 'external' is made when it is first needed; cleanup_externals drops the drives
\* that have nothing left.
CleanExternals(s) == [s EXCEPT !.ext = Restrict(@, {d \in DOMAIN @ : @[d] # NoMap})]

\* remove_file and remove_file_from_zips, or the same for a folder: the path is
\* forgotten everywhere.
Forget(s, paths) ==
  [s EXCEPT !.base = Less(@, paths), !.ext = [d \in DOMAIN @ |-> Less(@[d], paths)]]

\* add_file_pkg and add_folder_pkg for each of the items: one that is in the base is
\* forgotten on the drives; the other copies of a file on a drive are forgotten unless
\* they were found, those on drives only when it was not in the base.
AddPkgs(s, items, places, repeated) ==
  LET at(place) == {p \in DOMAIN items : places[p] = place}
      new(place) == [p \in at(place) |-> Stripped(items[p])]
      single == {p \in DOMAIN items \ at("base") : p \notin repeated /\ ~IsDir(items[p])}
      gone(d) == at("base") \cup (single \ (at(d) \cup DOMAIN s.base))
  IN [s EXCEPT !.base = Over(new("base"), Less(@, single)),
               !.ext = [d \in DOMAIN @ \cup (Range(places) \ {"base"}) |->
                          Over(new(d), IF d \in DOMAIN @ THEN Less(@[d], gone(d)) ELSE NoMap)]]

\* remove_zip_ids: the entries of the base are no longer of those archives.
RemoveZips(s, zips) ==
  [s EXCEPT !.zips = Less(@, zips), !.filtered = Less(@, zips),
            !.base = [p \in DOMAIN @ |-> IF @[p].zip \in zips
                                         THEN [@[p] EXCEPT !.zip = "none", !.tags = {}]
                                         ELSE @[p]]]

\* save_filtered_zip_data replaces all of it; archives without any are left out.
SaveFiltered(s, data) ==
  [s EXCEPT !.filtered = Restrict(data, {z \in DOMAIN data : data[z] # NoMap})]

\* add_zip_summary, for each of the archives.
AddZipSummaries(s, hashes, items, places) ==
  [AddPkgs(s, items, places, {}) EXCEPT !.zips = Over(hashes, @)]

SetPrint(s, print) == [s EXCEPT !.print = print]
InvalidatePrint(s) == SetPrint(s, NoPrint)
=============================================================================
